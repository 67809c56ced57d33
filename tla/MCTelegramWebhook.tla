-------------------------- MODULE MCTelegramWebhook --------------------------
(* Two handlers at a time; a /start with a ticket, a bare one, a ticket from *)
(* a group, and a call that is refused.                                      *)
EXTENDS TelegramWebhook

CONSTANTS ticket, bare, garbled, group

MCUpdate ==
    [u \in Updates |->
        [post |-> TRUE, secret |-> TRUE, json |-> u # garbled, private |-> u # group,
         text |-> IF u = bare THEN "bare" ELSE "ticket"]]

\* More calls than there are faults, for what is not refused anyway.
MCMaxCalls == [u \in Updates |-> IF u = garbled THEN 1 ELSE MaxFaults + 1]
=============================================================================
