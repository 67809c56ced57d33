-------------------------- MODULE MCBrokerTopology --------------------------
(* A service and three clients that declare side by side: one that waits,    *)
(* one that does not and one without a template; and a producer whose        *)
(* request does not decode.                                                  *)
EXTENDS BrokerTopology

CONSTANTS c1, c2, c3

Flags ==
    [parses |-> TRUE, wait_result |-> FALSE, recipient_type |-> "phone", recipient |-> "someone",
     template |-> "code", event_id |-> "", selected |-> "", chain |-> <<"sms", "", "telegram">>,
     fallback |-> TRUE, variables |-> "", metadata |-> "scalars"]

MCOptions ==
    [c \in Clients |->
        CASE c = c1 -> [Flags EXCEPT !.wait_result = TRUE]
          [] c = c2 -> [Flags EXCEPT !.event_id = "e2"]
          [] c = c3 -> [Flags EXCEPT !.template = ""]]

MCBody == [f \in Foreign |-> [BuildRequest(Flags) EXCEPT !.json = FALSE]]
=============================================================================
