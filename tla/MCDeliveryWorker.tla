-------------------------- MODULE MCDeliveryWorker --------------------------
(* Two incarnations (replicas, or one and its successor), one message with   *)
(* two providers to try, and a body that is no request.                      *)
EXTENDS DeliveryWorker, TLC

A == INSTANCE Adapters

CONSTANTS m1, bad

MCChannels ==
    [email    |-> [chain |-> <<"smtp">>, allowed |-> {"smtp"}],
     phone    |-> [chain |-> <<"telegram", "sms">>, allowed |-> {"telegram", "sms"}],
     push     |-> [chain |-> <<"webpush">>, allowed |-> {"webpush"}],
     telegram |-> [chain |-> <<NoName>>, allowed |-> {}]]

Provider(kind) ==
    A!BuildProvider([Enabled |-> TRUE, Kind |-> kind, Status |-> "",
                     configured |-> TRUE, auth |-> "", bad_brand |-> ""], "phone")

\* The runs of this module ask nothing about copies: landed follows the status.
MCRegistry ==
    [n \in {"telegram", "sms"} |-> [c \in BOOLEAN |->
        {out \in A!SendContract(Provider(IF n = "sms" THEN "fake" ELSE "telegram-gateway"), c) :
            out.landed <=> out.status = "sent"}]]

Request(id, version) ==
    [json |-> TRUE, version |-> version, event_id |-> id,
     type |-> "message.delivery.requested", template |-> "code", recipient_type |-> "phone",
     recipient |-> "someone", selected |-> NoName, chain |-> <<>>, fallback |-> TRUE]

MCRequests == {Request("e1", "1.0"), Request("e1", "")}
MCBody == [m \in Msgs |-> Request("e1", IF m = bad THEN "" ELSE "1.0")]
MCRenderOutcomes == [r \in MCRequests |-> BOOLEAN]

\* The liveness run: a provider that always succeeds, so that what can keep a
\* message from being settled is only the broker, the faults and the shutdowns.
LiveChannels == [MCChannels EXCEPT !["phone"].chain = <<"sms">>]
LiveRenderOutcomes == [r \in MCRequests |-> {TRUE}]

Symmetry == Permutations(Procs)
=============================================================================
