----------------------------- MODULE AdapterCall -----------------------------
(***************************************************************************)
(* One call of Send, with the service at the other end and the context     *)
(* that may end at any moment.  The adapter's own timer, the HTTP client's *)
(* timeout and the cancellation at shutdown all end the wait; what was     *)
(* already handed to the service is not taken back: an HTTP request on the *)
(* wire may still be served, and the SMTP goroutine goes on after Send has *)
(* returned.                                                               *)
(***************************************************************************)
EXTENDS Adapters

CONSTANTS
    Providers,    \* built providers
    Messages,     \* messages, as the facts Send tests
    HttpAnswers,  \* answers of the HTTP services
    SmtpAnswers   \* answers of the SMTP server

\* A body that says "ok" comes with a 2xx status, and one that says the chat is
\* gone does not say "ok".
ASSUME AdaptersAssumption ==
    /\ \A p \in Providers : p.kind \in Kinds \cup {"unavailable"}
    /\ HttpAnswers \subseteq [code : Nat, json : BOOLEAN, ok : BOOLEAN, gone : BOOLEAN]
    /\ \A r \in HttpAnswers :
          /\ r.ok => r.json /\ Success(r.code)
          /\ r.gone => r.json /\ ~r.ok
    /\ \A r \in SmtpAnswers : r.sent \in BOOLEAN

VARIABLES
    call,         \* [provider, message, early]: early = ctx had ended before Send
    phase,        \* "new", "out", "returned"
    ctxDone,      \* the context of the call has ended
    wire,         \* the request is with the service, or the goroutine is
    landed,       \* the service has taken the message
    reply,        \* the service's answer, once it is on its way back
    result        \* what Send returned

vars == <<call, phase, ctxDone, wire, landed, reply, result>>

NoReply == [none |-> TRUE]
Kind == call.provider.kind
Refusal == LocalRefusal(call.provider, call.message)

Answers == IF Kind = "smtp" THEN SmtpAnswers ELSE HttpAnswers

(***************************************************************************)
(* The services are honest: one that confirms has taken the message, one   *)
(* that refuses has not.  After anything else (a server error, a body that *)
(* does not decode, a broken SMTP dialogue) nothing is known.              *)
(***************************************************************************)
Confirms(r) ==
    IF Kind = "smtp" THEN r.sent
    ELSE Success(r.code) /\ (Kind = "webpush" \/ (r.json /\ r.ok))

Refuses(r) ==
    /\ Kind # "smtp"
    /\ \/ r.code \in 400..499
       \/ Kind # "webpush" /\ r.json /\ ~r.ok /\ r.code < 500

Init ==
    /\ call \in [provider : Providers, message : Messages, early : BOOLEAN]
    /\ phase = "new"
    /\ ctxDone = call.early
    /\ wire = FALSE
    /\ landed = FALSE
    /\ reply = NoReply
    /\ result = GoesOut

-----------------------------------------------------------------------------

\* Send returns before it contacts the service; a fake keeps the message.
RefuseLocally ==
    /\ phase = "new"
    /\ Refusal # GoesOut
    /\ phase' = "returned"
    /\ result' = Refusal
    /\ landed' = (Kind = "fake" /\ Refusal = Sent)
    /\ UNCHANGED <<call, ctxDone, wire, reply>>

\* The request leaves.  net/http gives up at once on a context that has ended;
\* the SMTP goroutine does not look at it.
GoOut ==
    /\ phase = "new"
    /\ Refusal = GoesOut
    /\ Kind = "smtp" \/ ~ctxDone
    /\ phase' = "out"
    /\ wire' = TRUE
    /\ UNCHANGED <<call, ctxDone, landed, reply, result>>

GiveUpAtOnce ==
    /\ phase = "new"
    /\ Refusal = GoesOut
    /\ Kind # "smtp"
    /\ ctxDone
    /\ phase' = "returned"
    /\ result' = NoAnswerResult(Kind, TRUE)
    /\ UNCHANGED <<call, ctxDone, wire, landed, reply>>

ReturnAnswer ==
    /\ phase = "out"
    /\ reply # NoReply
    /\ phase' = "returned"
    /\ result' = Classify(Kind, reply)
    /\ UNCHANGED <<call, ctxDone, wire, landed, reply>>

\* ctx ended first, or together with the answer: select picks either.
ReturnExpired ==
    /\ phase = "out"
    /\ ctxDone
    /\ phase' = "returned"
    /\ result' = NoAnswerResult(Kind, TRUE)
    /\ UNCHANGED <<call, ctxDone, wire, landed, reply>>

\* The HTTP client's own timeout, or a connection that breaks.
ReturnBroken ==
    /\ phase = "out"
    /\ Kind # "smtp"
    /\ reply = NoReply
    /\ phase' = "returned"
    /\ result' = NoAnswerResult(Kind, FALSE)
    /\ UNCHANGED <<call, ctxDone, wire, landed, reply>>

\* The answer had begun when ctx or the client's timer ended: its body does not
\* decode.  Web Push does not read the body of an answer it understands.
ReturnCutOff ==
    /\ phase = "out"
    /\ Kind \in {"telegram-gateway", "telegram-bot"}
    /\ reply # NoReply
    /\ phase' = "returned"
    /\ result' = Classify(Kind, [reply EXCEPT !.json = FALSE])
    /\ UNCHANGED <<call, ctxDone, wire, landed, reply>>

\* Mutant of CtxEnds: the SMTP call has no timer.
CtxEndsUnlessSMTP ==
    /\ phase # "returned"
    /\ ~ctxDone
    /\ Kind # "smtp"
    /\ ctxDone' = TRUE
    /\ UNCHANGED <<call, phase, wire, landed, reply, result>>

\* The adapter's own timer, or the worker's context.
CtxEnds ==
    /\ phase # "returned"
    /\ ~ctxDone
    /\ ctxDone' = TRUE
    /\ UNCHANGED <<call, phase, wire, landed, reply, result>>

-----------------------------------------------------------------------------
(* The service *)

ServiceTakes ==
    /\ wire
    /\ reply = NoReply
    /\ ~landed
    /\ landed' = TRUE
    /\ UNCHANGED <<call, phase, ctxDone, wire, reply, result>>

ServiceAnswers ==
    /\ wire
    /\ reply = NoReply
    /\ \E r \in Answers :
          /\ Confirms(r) => landed
          /\ Refuses(r) => ~landed
          /\ reply' = r
    /\ UNCHANGED <<call, phase, ctxDone, wire, landed, result>>

Next ==
    \/ RefuseLocally \/ GoOut \/ GiveUpAtOnce
    \/ ReturnAnswer \/ ReturnExpired \/ ReturnBroken \/ ReturnCutOff
    \/ CtxEnds
    \/ ServiceTakes \/ ServiceAnswers

\* A context that has ended is noticed, and every wait has a timer.
Spec == Init /\ [][Next]_vars
             /\ WF_vars(RefuseLocally \/ GoOut \/ GiveUpAtOnce)
             /\ WF_vars(ReturnAnswer \/ ReturnExpired \/ ReturnBroken \/ ReturnCutOff)
             /\ WF_vars(CtxEnds)

-----------------------------------------------------------------------------
(* Properties *)

\* Type invariant; a result is there exactly when Send has returned.
TypeOK ==
    /\ phase \in {"new", "out", "returned"}
    /\ {ctxDone, wire, landed} \subseteq BOOLEAN
    /\ reply \in Answers \cup {NoReply}
    /\ result.status \in {"", "sent", "undeliverable", "failed"}
    /\ (phase = "returned") <=> (result.status # "")

\* An adapter that reports "sent" has the service's own confirmation, whatever
\* the timers did: the message was taken.
SentMeansTaken == result.status = "sent" => landed

\* Falling back after "undeliverable" cannot produce a second copy, now or
\* later, with one exception: the Telegram Gateway reports a call that got no
\* answer as undeliverable, and the message may have been taken.
UndeliverableNotTaken ==
    result.status = "undeliverable" /\ landed => result.code = "telegram_unavailable"

\* What the orchestrator's model assumes of a provider is what the adapters
\* do: status and fate of the message are always among the contract's outcomes.
KeepsContract ==
    phase = "returned" =>
       \E out \in SendContract(call.provider, call.early) :
          out.status = result.status /\ out.landed = landed

\* Send always returns: no wait of an adapter is without a timer.
SendReturns == <>(phase = "returned")
=============================================================================
