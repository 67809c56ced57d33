--------------------------- MODULE ProviderPolicy ---------------------------
(***************************************************************************)
(* What a request asks for and what the configuration grants: validation   *)
(* of a message.delivery.requested event and computation of the provider   *)
(* plan (internal/delivery/event.go), and the two look-ups of the channel  *)
(* configuration (internal/config/config.go) that the orchestrator makes.  *)
(*                                                                         *)
(* A request event is a record                                             *)
(*   [json, version, event_id, type, template, recipient_type, recipient,  *)
(*    selected, chain, fallback]                                           *)
(* where json says whether the body is JSON that unmarshals, and selected, *)
(* chain and fallback are the fields of the DeliveryPolicy.  Strings that  *)
(* no rule looks into (recipient, version) only matter as empty or not.    *)
(***************************************************************************)
EXTENDS Naturals, Sequences, SequencesExt

CONSTANT Channels   \* recipient type -> [chain, allowed], after config.Load

RecipientTypes == {"email", "phone", "push", "telegram"}

\* An absent provider name: the zero value of a Go string.
NoName == ""

(***************************************************************************)
(* What config.Load and config.Validate guarantee: the phone channel has a *)
(* non-empty default chain; every other channel has one default provider,  *)
(* which is the empty name when Telegram is not configured.                *)
(***************************************************************************)
ASSUME ChannelsAssumption ==
    /\ DOMAIN Channels = RecipientTypes
    /\ \A t \in RecipientTypes :
          /\ Channels[t].chain \in Seq(STRING)
          /\ Channels[t].chain # <<>>
          /\ t # "phone" => Len(Channels[t].chain) = 1
          /\ Channels[t].allowed \in SUBSET STRING

-----------------------------------------------------------------------------
(* Configuration look-ups *)

AllowedProvider(recipientType, provider) ==
    /\ recipientType \in RecipientTypes
    /\ provider \in Channels[recipientType].allowed

\* Mutant of DefaultProviderChain: the switch has no case for Telegram.
DefaultChainNoTelegram(recipientType) ==
    IF recipientType \in RecipientTypes \ {"telegram"}
    THEN Channels[recipientType].chain
    ELSE <<>>

DefaultProviderChain(recipientType) ==
    IF recipientType \in RecipientTypes
    THEN Channels[recipientType].chain
    ELSE <<>>

-----------------------------------------------------------------------------
(* The request event *)

Validate(e) ==
    /\ e.version # ""
    /\ e.event_id # ""
    /\ e.type = "message.delivery.requested"
    /\ e.template # ""
    /\ e.recipient_type \in RecipientTypes
    /\ e.recipient # ""

\* json.Unmarshal, then Validate; TRUE when DecodeRequest returns no error.
DecodeRequest(e) == e.json /\ Validate(e)

\* Mutant of PlanOnce: the plan is not deduplicated.
PlanEveryTime(plan, provider) ==
    IF provider = NoName THEN plan ELSE Append(plan, provider)

\* Append provider to plan unless it is unnamed or already planned.
PlanOnce(plan, provider) ==
    IF provider = NoName \/ Contains(plan, provider)
    THEN plan
    ELSE Append(plan, provider)

\* The loop over names with the plan it starts from.
PlanAll(start, names) ==
    LET plan[n \in 0..Len(names)] ==
            IF n = 0 THEN start ELSE PlanOnce(plan[n - 1], names[n])
    IN plan[Len(names)]

\* Mutant of ProviderPlan: the selected provider comes after the chain.
ProviderPlanSelectedLater(e, defaultChain) ==
    IF e.selected # NoName
    THEN IF e.fallback
         THEN PlanAll(<<>>, e.chain \o <<e.selected>> \o defaultChain)
         ELSE <<e.selected>>
    ELSE IF e.chain # <<>> THEN e.chain ELSE defaultChain

(***************************************************************************)
(* The providers Handle walks through, in order.  Only the plan of a       *)
(* selected provider with fallback is deduplicated: a chain without a      *)
(* selection is taken as it came, repetitions and empty names included.    *)
(***************************************************************************)
ProviderPlan(e, defaultChain) ==
    IF e.selected # NoName
    THEN IF e.fallback
         THEN PlanAll(<<e.selected>>, e.chain \o defaultChain)
         ELSE <<e.selected>>
    ELSE IF e.chain # <<>> THEN e.chain ELSE defaultChain

\* The plan Handle computes for e.
Plan(e) == ProviderPlan(e, DefaultProviderChain(e.recipient_type))

=============================================================================
