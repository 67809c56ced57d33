----------------------------- MODULE PolicyCases -----------------------------
(***************************************************************************)
(* Every delivery policy over a set of provider names, and what the plan   *)
(* of a request is supposed to be, said without computing it.  A state is  *)
(* one request; there is no behaviour to explore.                          *)
(***************************************************************************)
EXTENDS ProviderPolicy, FiniteSets

CONSTANTS
    ProviderNames,   \* names that policies mention
    MaxChain         \* bound: length of a request's provider_chain

ASSUME CasesAssumption == ProviderNames \cup {NoName} \subseteq STRING /\ MaxChain \in Nat

VARIABLE event

Chains == UNION {[1..n -> ProviderNames \cup {NoName}] : n \in 0..MaxChain}

PolicyInit ==
    event \in [json : {TRUE}, version : {"1.0"}, event_id : {"e1"},
               type : {"message.delivery.requested"}, template : {"code"},
               recipient_type : RecipientTypes, recipient : {"someone"},
               selected : ProviderNames \cup {NoName}, chain : Chains, fallback : BOOLEAN]

PolicySpec == PolicyInit /\ [][UNCHANGED event]_event

-----------------------------------------------------------------------------
(* Properties *)

Named(seq) == {seq[i] : i \in DOMAIN seq} \ {NoName}

\* The first position of x in seq.
Pos(x, seq) == CHOOSE i \in DOMAIN seq : seq[i] = x /\ \A j \in 1..(i - 1) : seq[j] # x

\* plan holds what all names, each once and in the order it first appears there.
InOrderOfAppearance(plan, all) ==
    /\ Named(plan) = Named(all)
    /\ Len(plan) = Cardinality(Named(all))
    /\ \A i, j \in DOMAIN plan : i < j => Pos(plan[i], all) < Pos(plan[j], all)

Policy(e, plan) ==
    LET default == DefaultProviderChain(e.recipient_type)
    IN CASE e.selected # NoName /\ e.fallback ->
              InOrderOfAppearance(plan, <<e.selected>> \o (e.chain \o default))
         [] e.selected # NoName /\ ~e.fallback -> plan = <<e.selected>>
         [] OTHER -> plan = IF e.chain = <<>> THEN default ELSE e.chain

\* With a selected provider and fallback the plan is the selected provider
\* followed by every other provider named in the request's chain and then in
\* the channel's default, each once and in the order it first appears; without
\* fallback it is the selected provider alone; without a selection it is the
\* request's chain as it came, or the default if that is empty.
PlanIsPolicy == Policy(event, Plan(event))

\* Handle's provider_chain_empty never happens to a valid request: config.Load
\* leaves no channel without a default.
PlanIsNeverEmpty == DecodeRequest(event) => Plan(event) # <<>>
=============================================================================
