---------------------------- MODULE StartupProofs ----------------------------
(***************************************************************************)
(* What Load establishes and what the rest of main makes of it, for every  *)
(* file and environment that FilesAssumption and EnvironmentsAssumption    *)
(* admit.                                                                  *)
(*                                                                         *)
(* Only Load writes the configuration and the registry, and only Wire the  *)
(* sender.  The invariant keeps what the two leave behind: a configuration *)
(* in use has passed Validate with its channels completed, the registry is *)
(* the one built from its adapters, the sender was found there, and a      *)
(* process that died while wiring did so of an entry that Validate accepts.*)
(***************************************************************************)
EXTENDS Startup, SequenceTheorems, WellFoundedInduction, TLAPS

-----------------------------------------------------------------------------
(* Chains of early returns, and the factory *)

LEMMA LeastNatural ==
    ASSUME NEW I, I \subseteq Nat, I # {}
    PROVE  Min(I) \in I /\ \A i \in I : Min(I) <= i
<1>1. PICK x \in I : \A y \in I : ~(<<y, x>> \in OpToRel(<, Nat))
    BY NatLessThanWellFounded, WFMin
<1>2. ASSUME NEW y \in I PROVE x <= y
    <2>1. <<y, x>> \in Nat \X Nat /\ ~(<<y, x>> \in {ss \in Nat \X Nat : ss[1] < ss[2]})
        BY <1>1 DEF OpToRel
    <2> QED BY <2>1
<1> QED BY <1>2 DEF Min

\* FirstMatch returns the result of the first rule that holds.
LEMMA FirstRule ==
    ASSUME NEW rules, NEW n \in Nat, Len(rules) = n, \E i \in 1..n : rules[i][1]
    PROVE  \E i \in 1..n :
              /\ rules[i][1] /\ \A j \in 1..n : j < i => ~rules[j][1]
              /\ FirstMatch(rules) = rules[i][2]
<1> DEFINE I == {i \in 1..n : rules[i][1]}
<1>1. I # {} /\ I \subseteq Nat
    OBVIOUS
<1>2. Min(I) \in I /\ \A i \in I : Min(I) <= i
    BY <1>1, LeastNatural
<1>3. FirstMatch(rules) = rules[Min(I)][2]
    BY <1>2 DEF FirstMatch, SelectInSeq
<1>4. ASSUME NEW j \in 1..n, j < Min(I) PROVE ~rules[j][1]
    <2>1. Min(I) \in Nat /\ (j \in I => Min(I) <= j)
        BY <1>1, <1>2
    <2> QED BY <1>4, <2>1
<1> QED BY <1>2, <1>3, <1>4

\* An enabled adapter is never built as a disabled provider, and a bot knows its
\* token exactly when the adapter does.
LEMMA BuiltProvider ==
    ASSUME NEW a, NEW t, a.Enabled
    PROVE  /\ BuildProvider(a, t).code # "provider_disabled"
           /\ BuildProvider(a, t).kind = "telegram-bot" =>
                 a.Kind = "telegram-bot" /\ BuildProvider(a, t).configured = a.configured
<1> DEFINE built == [kind |-> a.Kind, code |-> "",
               status |-> IF a.Status = "" THEN "sent" ELSE a.Status,
               configured |-> a.configured,
               auth |-> IF a.auth = "" THEN "auto" ELSE a.auth]
           rules == <<
      <<~a.Enabled, Unavailable("provider_disabled")>>,
      <<a.Kind = "" /\ t # "email", Unavailable("name_not_configured")>>,
      <<a.Kind = "", Unavailable("provider_not_configured")>>,
      <<a.Kind \notin Kinds, Unavailable("provider_kind_unsupported")>>,
      <<a.Kind = "smtp" /\ a.bad_brand # "", Unavailable("email_brand_invalid")>>,
      <<TRUE, built>> >>
<1>1. BuildProvider(a, t) = FirstMatch(rules)
    BY DEF BuildProvider
<1>2. built.kind = a.Kind /\ built.code = "" /\ built.configured = a.configured
    OBVIOUS
<1> HIDE DEF built
<1>3. Len(rules) = 6
    OBVIOUS
<1>4. (rules[1][1] <=> ~a.Enabled) /\ rules[6][1]
    OBVIOUS
<1>5. /\ rules[2][2] = Unavailable("name_not_configured")
      /\ rules[3][2] = Unavailable("provider_not_configured")
      /\ rules[4][2] = Unavailable("provider_kind_unsupported")
      /\ rules[5][2] = Unavailable("email_brand_invalid")
      /\ rules[6][2] = built
    OBVIOUS
<1> HIDE DEF rules
<1>6. PICK i \in 1..6 : rules[i][1] /\ FirstMatch(rules) = rules[i][2]
    <2>1. 6 \in Nat /\ \E i \in 1..6 : rules[i][1]
        BY <1>4, 6 \in 1..6
    <2> QED BY <1>3, <2>1, FirstRule
<1>7. i # 1
    BY <1>4, <1>6
<1>8. CASE i = 6
    BY <1>1, <1>2, <1>5, <1>6, <1>8
<1>9. CASE i \in 2..5
    <2>1. i = 2 \/ i = 3 \/ i = 4 \/ i = 5
        BY <1>9
    <2>2. PICK c : rules[i][2] = Unavailable(c) /\ c # "provider_disabled"
        BY <1>5, <2>1
    <2>3. Unavailable(c).kind = "unavailable" /\ Unavailable(c).code = c
        BY DEF Unavailable
    <2>4. BuildProvider(a, t) = Unavailable(c)
        BY <1>1, <1>6, <2>2
    <2> QED BY <2>2, <2>3, <2>4
<1> QED BY <1>7, <1>8, <1>9

-----------------------------------------------------------------------------
(* The registry *)

\* A channel's registry holds, under a name that one adapter has to itself, what
\* is built from that adapter.
LEMMA OwnNameIsServed ==
    ASSUME NEW channel, NEW t, NEW n \in DOMAIN channel, OwnName(channel, n)
    PROVE  /\ n \in DOMAIN ChannelProviders(channel, t)
           /\ ChannelProviders(channel, t)[n] = BuildProvider(channel[n], t)
<1>1. \A a \in DOMAIN channel : RegisteredAs(channel[a], a) = n <=> a = n
    BY DEF OwnName
<1>2. n \in Registered(channel)
    BY <1>1 DEF Registered
<1>3. (CHOOSE a \in DOMAIN channel : RegisteredAs(channel[a], a) = n) = n
    BY <1>1
<1> QED BY <1>2, <1>3 DEF ChannelProviders

\* RegisterAll adds names, gives the channel its own, and leaves the others.
LEMMA RegisterAllAdds ==
    ASSUME NEW held, NEW providers
    PROVE  /\ DOMAIN RegisterAll(held, providers) = DOMAIN held \cup DOMAIN providers
           /\ \A n \in DOMAIN providers : RegisterAll(held, providers)[n] = providers[n]
           /\ \A n \in DOMAIN held \ DOMAIN providers : RegisterAll(held, providers)[n] = held[n]
BY DEF RegisterAll

LEMMA RegisteredNames ==
    ASSUME NEW channel, NEW t
    PROVE  DOMAIN ChannelProviders(channel, t) = Registered(channel)
BY DEF ChannelProviders

\* The registry holds every registered name; a channel has those of its names
\* that no other channel uses, and Telegram all of its names.
LEMMA RegistryByChannel ==
    ASSUME NEW adapters
    PROVE  LET reg == NewRegistryFromConfig(adapters)
           IN /\ DOMAIN reg = UNION {Registered(adapters[t]) : t \in Channels}
              /\ \A t \in Channels : \A n \in Registered(adapters[t]) :
                    t = "telegram" \/ (\A u \in Channels \ {t} : n \notin Registered(adapters[u]))
                    => reg[n] = ChannelProviders(adapters[t], t)[n]
<1> DEFINE email == ChannelProviders(adapters.email, "email")
           phone == ChannelProviders(adapters.phone, "phone")
           push == ChannelProviders(adapters.push, "push")
           telegram == ChannelProviders(adapters.telegram, "telegram")
           two == RegisterAll(email, phone)
           three == RegisterAll(two, push)
           reg == RegisterAll(three, telegram)
<1>1. NewRegistryFromConfig(adapters) = reg
    BY DEF NewRegistryFromConfig
<1>2. /\ DOMAIN email = Registered(adapters["email"])
      /\ DOMAIN phone = Registered(adapters["phone"])
      /\ DOMAIN push = Registered(adapters["push"])
      /\ DOMAIN telegram = Registered(adapters["telegram"])
    BY RegisteredNames
<1>3. /\ email = ChannelProviders(adapters["email"], "email")
      /\ phone = ChannelProviders(adapters["phone"], "phone")
      /\ push = ChannelProviders(adapters["push"], "push")
      /\ telegram = ChannelProviders(adapters["telegram"], "telegram")
    OBVIOUS
<1> HIDE DEF email, phone, push, telegram
<1>4. /\ DOMAIN two = DOMAIN email \cup DOMAIN phone
      /\ \A n \in DOMAIN phone : two[n] = phone[n]
      /\ \A n \in DOMAIN email \ DOMAIN phone : two[n] = email[n]
    BY RegisterAllAdds
<1> HIDE DEF two
<1>5. /\ DOMAIN three = DOMAIN two \cup DOMAIN push
      /\ \A n \in DOMAIN push : three[n] = push[n]
      /\ \A n \in DOMAIN two \ DOMAIN push : three[n] = two[n]
    BY RegisterAllAdds
<1> HIDE DEF three
<1>6. /\ DOMAIN reg = DOMAIN three \cup DOMAIN telegram
      /\ \A n \in DOMAIN telegram : reg[n] = telegram[n]
      /\ \A n \in DOMAIN three \ DOMAIN telegram : reg[n] = three[n]
    BY RegisterAllAdds
<1> HIDE DEF reg
<1>7. DOMAIN reg = UNION {Registered(adapters[t]) : t \in Channels}
    BY <1>2, <1>4, <1>5, <1>6 DEF Channels
<1>8. ASSUME NEW t \in Channels, NEW n \in Registered(adapters[t]),
             t = "telegram" \/ \A u \in Channels \ {t} : n \notin Registered(adapters[u])
      PROVE  reg[n] = ChannelProviders(adapters[t], t)[n]
    <2>1. CASE t = "telegram"
        BY <1>2, <1>3, <1>6, <2>1
    <2>2. ASSUME t # "telegram"
          PROVE  \A u \in Channels : u # t => n \notin Registered(adapters[u])
        BY <1>8, <2>2
    <2>3. CASE t = "push"
        BY <1>2, <1>3, <1>5, <1>6, <2>2, <2>3 DEF Channels
    <2>4. CASE t = "phone"
        BY <1>2, <1>3, <1>4, <1>5, <1>6, <2>2, <2>4 DEF Channels
    <2>5. CASE t = "email"
        BY <1>2, <1>3, <1>4, <1>5, <1>6, <2>2, <2>5 DEF Channels
    <2> QED BY <2>1, <2>3, <2>4, <2>5 DEF Channels
<1> QED BY <1>1, <1>7, <1>8

-----------------------------------------------------------------------------
(* Load *)

\* The facts about an adapter of the bot that FilesAssumption states.
TokenIsRead(c) ==
    \A n \in DOMAIN c.adapters.telegram :
       LET a == c.adapters.telegram[n]
       IN a.Kind = "telegram-bot" /\ a.token \notin {"", "blank"} => a.configured

ChainComplete(t, chain) == chain # <<>> /\ (t # "phone" => Len(chain) = 1)

\* What a loaded configuration is, beyond what Validate looks at.
Complete(c) ==
    /\ Validate(c) /\ TokenIsRead(c)
    /\ c.prefetch > 0
    /\ DOMAIN c.channels = Channels /\ DOMAIN c.adapters = Channels
    /\ \A t \in Channels : ChainComplete(t, c.channels[t].chain)

\* The environment changes neither the channels nor the adapters, and leaves the
\* prefetch count an integer.
LEMMA EnvironmentKeeps ==
    ASSUME NEW c \in Files, env \in Environments
    PROVE  /\ DOMAIN ApplyEnv(c) = DOMAIN c
           /\ ApplyEnv(c).prefetch \in Int
           /\ ApplyEnv(c).channels = c.channels /\ ApplyEnv(c).adapters = c.adapters
           /\ ApplyEnv(c).telegram = c.telegram
<1>1. /\ {"settings", "prefetch", "channels", "adapters", "telegram"} \subseteq DOMAIN c
      /\ c.prefetch \in Int
    BY FilesAssumption
<1>2. env.prefetch # {} => (CHOOSE n \in env.prefetch : TRUE) \in Int
    BY EnvironmentsAssumption
<1> QED BY <1>1, <1>2 DEF ApplyEnv

\* Whatever the file says of a channel, the default chain is not empty, and has
\* one provider where the channel can only name one.
LEMMA DefaultsComplete ==
    ASSUME NEW t \in Channels, NEW channel, NEW enabled,
           DOMAIN channel = {"chain", "allowed"}, channel.chain \in Seq(STRING),
           t # "phone" => Len(channel.chain) <= 1
    PROVE  ChainComplete(t, ChannelDefaults(t, channel, enabled).chain)
<1>1. channel.chain # <<>> => ChainComplete(t, channel.chain)
    <2>1. channel.chain # <<>> => Len(channel.chain) # 0
        BY EmptySeq
    <2>2. Len(channel.chain) \in Nat
        OBVIOUS
    <2>3. ASSUME NEW n \in Nat, n # 0, n <= 1 PROVE n = 1
        BY <2>3
    <2> QED BY <2>1, <2>2, <2>3, Zenon DEF ChainComplete
<1>2. ChainComplete("telegram", <<"">>)
    BY DEF ChainComplete
<1>3. ChainComplete(t, DefaultChain[t])
    BY DEF ChainComplete, DefaultChain, Channels
<1>4. CASE t = "telegram" /\ ~enabled
    <2>1. ChannelDefaults(t, channel, enabled).chain = IF channel.chain = <<>> THEN <<"">> ELSE channel.chain
        BY <1>4 DEF ChannelDefaults
    <2> QED BY <1>1, <1>2, <1>4, <2>1
<1>5. CASE ~(t = "telegram" /\ ~enabled)
    <2>1. ChannelDefaults(t, channel, enabled).chain =
             IF channel.chain = <<>> THEN DefaultChain[t] ELSE channel.chain
        BY <1>5 DEF ChannelDefaults
    <2> QED BY <1>1, <1>3, <2>1
<1> QED BY <1>4, <1>5

\* What Load returns without an error is complete.
LEMMA LoadCompletes ==
    ASSUME NEW c \in Files, env \in Environments,
           Validate(SetDefaults(ApplyEnv(c)))
    PROVE  Complete(SetDefaults(ApplyEnv(c)))
<1> DEFINE applied == ApplyEnv(c)
           loaded == SetDefaults(applied)
<1>1. /\ {"settings", "prefetch", "channels", "adapters", "telegram"} \subseteq DOMAIN applied
      /\ applied.prefetch \in Int
      /\ applied.channels = c.channels /\ applied.adapters = c.adapters
    BY EnvironmentKeeps, FilesAssumption
<1>2. DOMAIN c.channels = Channels /\ DOMAIN c.adapters = Channels /\ TokenIsRead(c)
    BY FilesAssumption DEF TokenIsRead
<1>3. Validate(loaded)
    OBVIOUS
<1> HIDE DEF applied
<1>4. /\ loaded.prefetch = IF applied.prefetch <= 0 THEN 8 ELSE applied.prefetch
      /\ loaded.channels = [t \in Channels |-> ChannelDefaults(t, c.channels[t], applied.telegram)]
      /\ loaded.adapters = c.adapters
    BY <1>1, <1>2 DEF SetDefaults
<1> HIDE DEF loaded
<1>5. ASSUME NEW t \in Channels
      PROVE  ChainComplete(t, loaded.channels[t].chain)
    <2>1. /\ DOMAIN c.channels[t] = {"chain", "allowed"} /\ c.channels[t].chain \in Seq(STRING)
          /\ t # "phone" => Len(c.channels[t].chain) <= 1
        BY FilesAssumption
    <2>2. loaded.channels[t] = ChannelDefaults(t, c.channels[t], applied.telegram)
        BY <1>4
    <2> QED BY <2>1, <2>2, DefaultsComplete
<1>6. TokenIsRead(loaded)
    BY <1>2, <1>4 DEF TokenIsRead
<1>7. loaded.prefetch > 0
    BY <1>1, <1>4
<1>8. Complete(loaded)
    BY <1>2, <1>3, <1>4, <1>5, <1>6, <1>7 DEF Complete
<1> QED BY <1>8 DEF loaded, applied

-----------------------------------------------------------------------------
(* Types *)

LEMMA TypeInit == Init => TypeOK
<1>1. 0 \in 0..MaxFaults
    BY BoundAssumption
<1> QED BY <1>1 DEF Init, TypeOK

LEMMA TypeStep == TypeOK /\ [Next]_vars => TypeOK'
<1> SUFFICES ASSUME TypeOK, [Next]_vars PROVE TypeOK'
    OBVIOUS
<1>1. CASE Load
    BY <1>1 DEF TypeOK, Load, Die
<1>2. faults < MaxFaults /\ faults' = faults + 1 => faults' \in 0..MaxFaults
    <2>1. faults \in 0..MaxFaults
        BY DEF TypeOK
    <2> QED BY <2>1, BoundAssumption
<1>3. CASE ConnectFails
    BY <1>2, <1>3 DEF TypeOK, ConnectFails
<1>4. CASE Connect \/ Interrupt
    BY <1>4 DEF TypeOK, Connect, Interrupt, Die
<1>5. CASE Wire
    <2>1. WiringError \in {"", "no sender", "no secret", "path"}
        BY DEF WiringError
    <2> QED BY <1>5, <2>1 DEF TypeOK, Wire, Die
<1>6. CASE Listen \/ RunWorker \/ Stop
    BY <1>6 DEF TypeOK, Listen, RunWorker, Stop
<1>7. CASE ListenFails
    BY <1>2, <1>7 DEF TypeOK, ListenFails, Die
<1>8. CASE RunHealthcheck
    BY <1>8 DEF TypeOK, RunHealthcheck
<1>9. CASE UNCHANGED vars
    BY <1>9 DEF TypeOK, vars
<1> QED BY <1>1, <1>3, <1>4, <1>5, <1>6, <1>7, <1>8, <1>9 DEF Next

\* A process has a cause of death exactly when it is dead, its goroutines run
\* only while it serves, and a health check finds it up or down.
THEOREM StartupTypes == Spec => []TypeOK
BY TypeInit, TypeStep, PTL DEF Spec

-----------------------------------------------------------------------------
(* The inductive invariant *)

StartInv ==
    /\ stage = "load" => cfg \in Files
    /\ InUse => Complete(cfg) /\ registry = NewRegistryFromConfig(cfg.adapters)
    /\ stage = "serve" /\ cfg.bot =>
          DefaultBot(cfg) \in DOMAIN registry /\ sender = registry[DefaultBot(cfg)]
    /\ DiesOnlyOfWebhook

\* Where Wire finds no sender, the default adapter of the channel is registered
\* under another name: Validate has seen to it that it exists.
LEMMA SenderMissing ==
    ASSUME Complete(cfg), cfg.bot, registry = NewRegistryFromConfig(cfg.adapters),
           DefaultBot(cfg) \notin DOMAIN registry
    PROVE  /\ DefaultBot(cfg) \in DOMAIN cfg.adapters.telegram
           /\ RegisteredAs(cfg.adapters.telegram[DefaultBot(cfg)], DefaultBot(cfg)) # DefaultBot(cfg)
<1>1. DefaultBot(cfg) \in DOMAIN cfg.adapters.telegram
    BY DEF Complete, Validate, ValidTelegram
<1>2. Registered(cfg.adapters["telegram"]) \subseteq DOMAIN registry
    BY RegistryByChannel DEF Channels
<1>3. RegisteredAs(cfg.adapters.telegram[DefaultBot(cfg)], DefaultBot(cfg)) \in Registered(cfg.adapters.telegram)
    BY <1>1 DEF Registered
<1> QED BY <1>1, <1>2, <1>3

LEMMA StartInit == Init => StartInv
BY DEF Init, StartInv, InUse, DiesOnlyOfWebhook

LEMMA StartStep == TypeOK /\ StartInv /\ [Next]_vars => StartInv'
<1> SUFFICES ASSUME TypeOK, StartInv, [Next]_vars PROVE StartInv'
    OBVIOUS
<1>1. CASE Load
    <2>1. CASE stage' = "connect"
        <3>1. cfg \in Files /\ env \in Environments
            BY <1>1 DEF StartInv, TypeOK, Load
        <3>2. /\ Validate(SetDefaults(ApplyEnv(cfg))) /\ cfg' = SetDefaults(ApplyEnv(cfg))
              /\ registry' = NewRegistryFromConfig(cfg'.adapters)
            BY <1>1, <2>1 DEF Load, Die
        <3>3. Complete(cfg')
            BY <3>1, <3>2, LoadCompletes
        <3> QED BY <2>1, <3>2, <3>3 DEF StartInv, InUse, DiesOnlyOfWebhook
    <2>2. CASE stage' # "connect"
        <3>1. stage' = "dead" /\ cause' = "config"
            BY <1>1, <2>2 DEF Load, Die
        <3> QED BY <3>1 DEF StartInv, InUse, DiesOnlyOfWebhook
    <2> QED BY <2>1, <2>2
<1>2. CASE Wire
    <2>1. /\ Complete(cfg) /\ registry = NewRegistryFromConfig(cfg.adapters)
          /\ UNCHANGED <<cfg, registry>>
        BY <1>2 DEF StartInv, InUse, Wire
    <2>2. CASE cfg.bot /\ WiringError # ""
        <3>1. stage' = "dead"
            BY <1>2, <2>2 DEF Wire, Die
        <3>2. \/ DefaultBot(cfg) \notin DOMAIN registry
              \/ cfg.secret = "blank" \/ cfg.path \in {"root", "malformed"}
            BY <2>2 DEF WiringError
        <3>3. DiesOnlyOfWebhook'
            BY <2>1, <2>2, <3>2, SenderMissing DEF DiesOnlyOfWebhook, DefaultBot
        <3> QED BY <3>1, <3>3 DEF StartInv, InUse
    <2>3. CASE ~(cfg.bot /\ WiringError # "")
        <3>1. stage' = "serve"
            BY <1>2, <2>3 DEF Wire
        <3>2. ASSUME cfg.bot
              PROVE  DefaultBot(cfg) \in DOMAIN registry /\ sender' = registry[DefaultBot(cfg)]
            <4>1. WiringError = ""
                BY <2>3, <3>2
            <4> QED BY <1>2, <2>3, <3>2, <4>1 DEF Wire, WiringError
        <3> QED BY <2>1, <3>1, <3>2 DEF StartInv, InUse, DiesOnlyOfWebhook, DefaultBot
    <2> QED BY <2>2, <2>3
<1>3. CASE Interrupt \/ ListenFails
    <2>1. stage' = "dead" /\ cause' \in {"signal", "port"}
        BY <1>3 DEF Interrupt, ListenFails, Die
    <2> QED BY <2>1 DEF StartInv, InUse, DiesOnlyOfWebhook
<1>4. CASE Stop
    <2>1. stage' = "stopped"
        BY <1>4 DEF Stop
    <2> QED BY <2>1 DEF StartInv, InUse, DiesOnlyOfWebhook
<1>5. CASE Connect
    <2>1. stage = "connect" /\ stage' = "wire" /\ UNCHANGED <<cfg, registry>>
        BY <1>5 DEF Connect
    <2> QED BY <2>1 DEF StartInv, InUse, DiesOnlyOfWebhook
<1>6. CASE ConnectFails \/ Listen \/ RunWorker \/ RunHealthcheck \/ UNCHANGED vars
    <2>1. UNCHANGED <<stage, cause, cfg, registry, sender>>
        BY <1>6 DEF ConnectFails, Listen, RunWorker, RunHealthcheck, vars
    <2> QED BY <2>1 DEF StartInv, InUse, DiesOnlyOfWebhook, DefaultBot
<1> QED BY <1>1, <1>2, <1>3, <1>4, <1>5, <1>6 DEF Next

LEMMA StartInvariant == Spec => [](TypeOK /\ StartInv)
BY TypeInit, TypeStep, StartInit, StartStep, PTL DEF Spec

-----------------------------------------------------------------------------
(* What it implies *)

\* A process that has loaded its configuration has a default chain for every
\* channel, somebody allowed in every channel that is on, room for a delivery,
\* and, with the webhook, a default adapter that exists.
THEOREM LoadedConfigurationIsUsable == Spec => []LoadedIsUsable
<1>1. ASSUME StartInv PROVE LoadedIsUsable
    <2> SUFFICES ASSUME InUse PROVE LoadedIsUsable
        BY DEF LoadedIsUsable
    <2>1. Complete(cfg)
        BY <1>1 DEF StartInv
    <2>2. ASSUME NEW t \in Channels
          PROVE  /\ cfg.channels[t].chain # <<>> /\ (t # "phone" => Len(cfg.channels[t].chain) = 1)
                 /\ t # "telegram" \/ cfg.telegram => cfg.channels[t].allowed # {}
        <3>1. CASE t = "telegram"
            BY <2>1, <3>1 DEF Complete, ChainComplete, Validate, ValidTelegram
        <3>2. CASE t # "telegram"
            BY <2>1, <3>2 DEF Complete, ChainComplete, Validate
        <3> QED BY <3>1, <3>2
    <2>3. cfg.bot => cfg.telegram /\ DefaultBot(cfg) \in DOMAIN cfg.adapters.telegram
        BY <2>1 DEF Complete, Validate, ValidTelegram
    <2> QED BY <2>1, <2>2, <2>3 DEF LoadedIsUsable, Complete
<1> QED BY <1>1, StartInvariant, PTL

\* A name that one channel alone uses, or Telegram uses, is served by the
\* provider that is built from that channel's adapter.
THEOREM NamesAreServed == Spec => []NamesResolve
<1>1. ASSUME StartInv PROVE NamesResolve
    <2> SUFFICES ASSUME InUse, NEW t \in Channels, NEW n \in DOMAIN cfg.adapters[t],
                        OwnName(cfg.adapters[t], n),
                        t = "telegram" \/ \A u \in Channels \ {t} : n \notin Registered(cfg.adapters[u])
                 PROVE  n \in DOMAIN registry /\ registry[n] = BuildProvider(cfg.adapters[t][n], t)
        BY DEF NamesResolve
    <2>1. registry = NewRegistryFromConfig(cfg.adapters)
        BY <1>1 DEF StartInv
    <2>2. n \in Registered(cfg.adapters[t])
        BY OwnNameIsServed, RegisteredNames
    <2>3. n \in DOMAIN registry
        <3>1. DOMAIN registry = UNION {Registered(cfg.adapters[u]) : u \in Channels}
            BY <2>1, RegistryByChannel
        <3> QED BY <2>2, <3>1
    <2>4. registry[n] = ChannelProviders(cfg.adapters[t], t)[n]
        BY <2>1, <2>2, RegistryByChannel
    <2> QED BY <2>3, <2>4, OwnNameIsServed
<1> QED BY <1>1, StartInvariant, PTL

\* A process that serves the webhook greets through the enabled default adapter
\* of the telegram channel; if that is the bot and its token is not blank, the
\* bot has it.
THEOREM GreeterIsServed == Spec => []GreeterIsReady
<1>1. ASSUME StartInv PROVE GreeterIsReady
    <2> DEFINE d == DefaultBot(cfg)
               a == cfg.adapters.telegram[d]
    <2> SUFFICES ASSUME stage = "serve", cfg.bot, OwnName(cfg.adapters.telegram, d)
                 PROVE  /\ sender = BuildProvider(a, "telegram")
                        /\ sender.code # "provider_disabled"
                        /\ sender.kind = "telegram-bot" /\ a.token # "blank" => sender.configured
        BY DEF GreeterIsReady
    <2>1. /\ Complete(cfg) /\ registry = NewRegistryFromConfig(cfg.adapters)
          /\ sender = registry[d]
        BY <1>1 DEF StartInv, InUse
    <2>2. /\ d \in DOMAIN cfg.adapters.telegram /\ a.Enabled
          /\ a.Kind = "telegram-bot" => a.token # ""
        BY <2>1 DEF Complete, Validate, ValidTelegram
    <2>3. a.Kind = "telegram-bot" /\ a.token # "blank" => a.configured
        BY <2>1, <2>2 DEF Complete, TokenIsRead
    <2> HIDE DEF d
    <2>4. d \in Registered(cfg.adapters["telegram"])
        BY <2>2, OwnNameIsServed, RegisteredNames
    <2>5. registry[d] = ChannelProviders(cfg.adapters["telegram"], "telegram")[d]
        BY <2>1, <2>4, RegistryByChannel DEF Channels
    <2>6. sender = BuildProvider(a, "telegram")
        BY <2>1, <2>2, <2>5, OwnNameIsServed
    <2> HIDE DEF a
    <2> QED BY <2>2, <2>3, <2>6, BuiltProvider
<1> QED BY <1>1, StartInvariant, PTL

\* What Load accepts gets through main, but for a blank secret, a path the mux
\* refuses, or a default adapter registered under another name.
THEOREM DeathsAreExplained == Spec => []DiesOnlyOfWebhook
<1>1. StartInv => DiesOnlyOfWebhook
    BY DEF StartInv
<1> QED BY <1>1, StartInvariant, PTL

=============================================================================
