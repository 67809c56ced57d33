-------------------------- MODULE MCProviderPolicy --------------------------
(* ProviderPlan against its declarative reference, over every delivery policy *)
(* with chains of up to MaxChain names.                                       *)
EXTENDS PolicyCases

\* The phone channel's chain repeats a name and has an empty one; Telegram is
\* not configured.
MCChannels ==
    [email    |-> [chain |-> <<"a">>, allowed |-> {"a"}],
     phone    |-> [chain |-> <<"b", "a", "b", NoName>>, allowed |-> {"a", "b"}],
     push     |-> [chain |-> <<"b">>, allowed |-> {"b"}],
     telegram |-> [chain |-> <<NoName>>, allowed |-> {}]]
=============================================================================
