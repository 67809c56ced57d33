--------------------------- MODULE TelegramWebhook ---------------------------
(***************************************************************************)
(* The webhook of the Telegram bot (internal/telegrambot/webhook.go) behind*)
(* the HTTP server of cmd/main.go: users' updates come in as HTTP calls, a *)
(* /start with a ticket goes out as a connection event, and the user is    *)
(* greeted before the call is answered.                                    *)
(*                                                                         *)
(* Telegram is external: it repeats an update until one of its calls is    *)
(* answered with 2xx, and has at most one call open for an update.  It may *)
(* stop waiting, and the server's WriteTimeout may cut the answer off; the *)
(* handler does not notice and runs to its end, so that two calls for one  *)
(* update can be in the handler at the same time.                          *)
(***************************************************************************)
EXTENDS Naturals, FiniteSets

CONSTANTS
    Updates,      \* updates Telegram has for the bot
    NoUpdate,     \* the update of a handler that has not run yet
    Update,       \* update -> [post, secret, json, private, text]
    Calls,        \* HTTP calls in progress
    MaxCalls,     \* bound: update -> calls Telegram makes for it
    MaxFaults     \* bound: hang-ups, lost connections and stops together

ASSUME WebhookAssumption ==
    /\ NoUpdate \notin Updates
    /\ \A u \in Updates :
          /\ {Update[u].post, Update[u].secret, Update[u].json, Update[u].private} \subseteq BOOLEAN
          /\ Update[u].text \in {"ticket", "bare", "other"}
    /\ IsFiniteSet(Updates) /\ IsFiniteSet(Calls)
    /\ MaxCalls \in [Updates -> Nat] /\ MaxFaults \in Nat

VARIABLES
    server,       \* "up", "draining", "gone"
    conn,         \* the broker connection: "open" or "closed"
    at,           \* where the handler of a call is
    upd,          \* the update of a call
    code,         \* the HTTP status the handler has decided on
    heard,        \* Telegram still waits for the answer of this call
    made,         \* history: calls made for an update
    confirmed,    \* updates Telegram has a 2xx answer for
    events,       \* history: connection events routed for an update
    welcomes,     \* history: greetings with the "welcome" presentation
    lost,         \* history: events of an update that went down with the connection
    unheard,      \* history: updates with a call whose answer was not heard
    faults

callVars == <<at, upd, code, heard>>
history == <<events, welcomes, lost, unheard>>
vars == <<server, conn, callVars, made, confirmed, history, faults>>

Init ==
    /\ server = "up" /\ conn = "open"
    /\ at = [c \in Calls |-> "free"]
    /\ upd = [c \in Calls |-> NoUpdate]
    /\ code = [c \in Calls |-> 0]
    /\ heard = [c \in Calls |-> FALSE]
    /\ made = [u \in Updates |-> 0]
    /\ confirmed = {}
    /\ events = [u \in Updates |-> 0]
    /\ welcomes = [u \in Updates |-> 0]
    /\ lost = [u \in Updates |-> 0] /\ unheard = {}
    /\ faults = 0

Fault == faults < MaxFaults /\ faults' = faults + 1

-----------------------------------------------------------------------------
(* What the handler makes of an update *)

\* The first refusal of ServeHTTP that applies, or 0.
Refusal(u) ==
    CASE ~Update[u].post -> 405
      [] Update[u].post /\ ~Update[u].secret -> 403
      [] Update[u].post /\ Update[u].secret /\ ~Update[u].json -> 400
      [] OTHER -> 0

IsConnection(u) == Refusal(u) = 0 /\ Update[u].private /\ Update[u].text = "ticket"
IsBareStart(u) == Refusal(u) = 0 /\ Update[u].private /\ Update[u].text = "bare"
Presentation(u) == IF IsConnection(u) THEN "welcome" ELSE "start"

-----------------------------------------------------------------------------
(* Telegram *)

Post(c, u) ==
    /\ server = "up"
    /\ at[c] = "free"
    /\ u \notin confirmed
    /\ made[u] < MaxCalls[u]
    /\ \A d \in Calls : ~(heard[d] /\ upd[d] = u)
    /\ at' = [at EXCEPT ![c] = "decide"]
    /\ upd' = [upd EXCEPT ![c] = u]
    /\ heard' = [heard EXCEPT ![c] = TRUE]
    /\ made' = [made EXCEPT ![u] = @ + 1]
    /\ UNCHANGED <<server, conn, code, confirmed, history, faults>>

\* Telegram gives up on a call, or the server's write deadline passes.
HangUp(c) ==
    /\ heard[c]
    /\ Fault
    /\ heard' = [heard EXCEPT ![c] = FALSE]
    /\ unheard' = unheard \cup {upd[c]}
    /\ UNCHANGED <<server, conn, at, upd, code, made, confirmed, events, welcomes, lost>>

-----------------------------------------------------------------------------
(* ServeHTTP *)

GoTo(c, next) == at' = [at EXCEPT ![c] = next]
Respond(c, status) == GoTo(c, "answer") /\ code' = [code EXCEPT ![c] = status]

\* Mutant of Decide: the comparison of the secret is taken the wrong way round.
DecideWrongSecret(c) ==
    /\ at[c] = "decide"
    /\ \/ ~Update[upd[c]].post /\ Respond(c, 405)
       \/ Update[upd[c]].post /\ Update[upd[c]].secret /\ Respond(c, 403)
    /\ UNCHANGED <<server, conn, upd, heard, made, confirmed, history, faults>>

\* Refuse the call, ignore the update, or go on to publish or greet.
Decide(c) ==
    /\ at[c] = "decide"
    /\ \/ Refusal(upd[c]) # 0 /\ Respond(c, Refusal(upd[c]))
       \/ IsConnection(upd[c]) /\ GoTo(c, "publish") /\ UNCHANGED code
       \/ IsBareStart(upd[c]) /\ GoTo(c, "greet") /\ UNCHANGED code
       \/ /\ Refusal(upd[c]) = 0 /\ ~IsConnection(upd[c]) /\ ~IsBareStart(upd[c])
          /\ Respond(c, 204)
    /\ UNCHANGED <<server, conn, upd, heard, made, confirmed, history, faults>>

\* Mutant of PublishConnection: the error of the publish is not looked at, and
\* the user is greeted whatever it did.
PublishConnectionUnchecked(c) ==
    /\ at[c] = "publish"
    /\ GoTo(c, "greet")
    /\ events' = [events EXCEPT ![upd[c]] = IF conn = "open" THEN @ + 1 ELSE @]
    /\ UNCHANGED <<server, conn, upd, code, heard, made, confirmed, welcomes, lost, unheard, faults>>

\* Mutant of PublishConnection: one call publishes its event twice.
PublishConnectionTwice(c) ==
    /\ at[c] = "publish"
    /\ conn = "open"
    /\ events' = [events EXCEPT ![upd[c]] = @ + 2]
    /\ GoTo(c, "greet")
    /\ UNCHANGED <<server, conn, upd, code, heard, made, confirmed, welcomes, lost, unheard, faults>>

PublishConnection(c) ==
    /\ at[c] = "publish"
    /\ conn = "open"
    /\ GoTo(c, "greet")
    /\ events' = [events EXCEPT ![upd[c]] = @ + 1]
    /\ UNCHANGED <<server, conn, upd, code, heard, made, confirmed, welcomes, lost, unheard, faults>>

\* Mutant of PublishFails: the error is not reported to Telegram.
PublishFailsQuietly(c) ==
    /\ at[c] = "publish"
    /\ IF conn = "closed" THEN UNCHANGED faults ELSE Fault
    /\ Respond(c, 204)
    /\ UNCHANGED <<server, conn, upd, heard, made, confirmed, history>>

PublishFails(c) ==
    /\ at[c] = "publish"
    /\ IF conn = "closed" THEN UNCHANGED faults ELSE Fault
    /\ Respond(c, 503)
    /\ UNCHANGED <<server, conn, upd, heard, made, confirmed, history>>

\* The publish returned nil and the connection died before the broker had it.
PublishLost(c) ==
    /\ at[c] = "publish"
    /\ conn = "open"
    /\ Fault
    /\ conn' = "closed"
    /\ lost' = [lost EXCEPT ![upd[c]] = @ + 1]
    /\ GoTo(c, "greet")
    /\ UNCHANGED <<server, upd, code, heard, made, confirmed, events, welcomes, unheard>>

\* Mutant of Greet: a greeting that fails is reported to Telegram.
GreetReportsFailure(c) ==
    /\ at[c] = "greet"
    /\ \E arrives \in {0, 1} :
          /\ welcomes' = IF Presentation(upd[c]) = "welcome"
                         THEN [welcomes EXCEPT ![upd[c]] = @ + arrives]
                         ELSE welcomes
          /\ Respond(c, IF arrives = 1 THEN 204 ELSE 503)
    /\ UNCHANGED <<server, conn, upd, heard, made, confirmed, events, lost, unheard, faults>>

\* sendBotGreeting; whatever Send reports, the call is answered with 204.
Greet(c) ==
    /\ at[c] = "greet"
    /\ \E arrives \in {0, 1} :
          welcomes' = IF Presentation(upd[c]) = "welcome"
                      THEN [welcomes EXCEPT ![upd[c]] = @ + arrives]
                      ELSE welcomes
    /\ Respond(c, 204)
    /\ UNCHANGED <<server, conn, upd, heard, made, confirmed, events, lost, unheard, faults>>

Answer(c) ==
    /\ at[c] = "answer"
    /\ GoTo(c, "free")
    /\ upd' = [upd EXCEPT ![c] = NoUpdate] /\ code' = [code EXCEPT ![c] = 0]
    /\ confirmed' = IF heard[c] /\ code[c] = 204 THEN confirmed \cup {upd[c]} ELSE confirmed
    /\ heard' = [heard EXCEPT ![c] = FALSE]
    /\ UNCHANGED <<server, conn, made, history, faults>>

-----------------------------------------------------------------------------
(* The server *)

\* Nothing in the code opens a new connection.
LoseConnection ==
    /\ conn = "open"
    /\ Fault
    /\ conn' = "closed"
    /\ UNCHANGED <<server, callVars, made, confirmed, history>>

\* SIGTERM: srv.Shutdown refuses new calls and waits for the open ones.
Drain ==
    /\ server = "up"
    /\ Fault
    /\ server' = "draining"
    /\ UNCHANGED <<conn, callVars, made, confirmed, history>>

\* Shutdown returns, because every call is answered or because its 10 s are
\* over; main closes the connection and exits under the calls still open.
Exit ==
    /\ server = "draining"
    /\ server' = "gone"
    /\ conn' = "closed"
    /\ at' = [c \in Calls |-> "free"]
    /\ upd' = [c \in Calls |-> NoUpdate]
    /\ code' = [c \in Calls |-> 0]
    /\ heard' = [c \in Calls |-> FALSE]
    /\ unheard' = unheard \cup {upd[c] : c \in {d \in Calls : heard[d]}}
    /\ UNCHANGED <<made, confirmed, events, welcomes, lost, faults>>

\* The service manager starts the next process.
Restart ==
    /\ server = "gone"
    /\ server' = "up"
    /\ conn' = "open"
    /\ UNCHANGED <<callVars, made, confirmed, history, faults>>

ServeHTTP(c) ==
    \/ Decide(c)
    \/ PublishConnection(c) \/ PublishFails(c)
    \/ Greet(c)
    \/ Answer(c)

Next ==
    \/ \E c \in Calls :
          \/ \E u \in Updates : Post(c, u)
          \/ ServeHTTP(c)
          \/ HangUp(c)
          \/ PublishLost(c)
    \/ LoseConnection \/ Drain \/ Exit \/ Restart

Spec == Init /\ [][Next]_vars

(***************************************************************************)
(* Handlers run on (their calls are bounded by PublishTimeoutSec), Telegram*)
(* repeats what was not confirmed, and a stopped service is started again. *)
(***************************************************************************)
FairSpec ==
    /\ Spec
    /\ \A c \in Calls : WF_vars(ServeHTTP(c))
    /\ \A u \in Updates : WF_vars(\E c \in Calls : Post(c, u))
    /\ WF_vars(Exit) /\ WF_vars(Restart)

-----------------------------------------------------------------------------
(* Properties *)

\* Type invariant; no call publishes or welcomes twice, and one that Telegram
\* waits for is in the handler.
TypeOK ==
    /\ server \in {"up", "draining", "gone"} /\ conn \in {"open", "closed"}
    /\ at \in [Calls -> {"free", "decide", "publish", "greet", "answer"}]
    /\ upd \in [Calls -> Updates \cup {NoUpdate}]
    /\ code \in [Calls -> {0, 204, 400, 403, 405, 503}]
    /\ heard \in [Calls -> BOOLEAN]
    /\ \A f \in {made, events, welcomes, lost} : f \in [Updates -> Nat]
    /\ \A u \in Updates : welcomes[u] <= made[u] /\ events[u] + lost[u] <= made[u] /\ made[u] <= MaxCalls[u]
    /\ {confirmed, unheard} \subseteq SUBSET Updates
    /\ faults \in 0..MaxFaults
    /\ \A c \in Calls : heard[c] => at[c] # "free"

\* A /start that Telegram will not repeat has produced its connection event,
\* unless the unconfirmed publish went down with the connection; nothing that
\* was refused is ever taken for delivered.
ConfirmedIsPublished ==
    \A u \in confirmed :
       /\ Refusal(u) = 0
       /\ IsConnection(u) => events[u] + lost[u] > 0

\* A user is welcomed as connected only after the event that connects the chat
\* was published, and never for more calls than published one.
WelcomeFollowsEvent ==
    \A u \in Updates : welcomes[u] <= events[u] + lost[u]

\* Consumers of connection events see an update twice only if a call for it
\* ended without Telegram hearing the answer.
DuplicateHasCause ==
    \A u \in Updates : events[u] + lost[u] > 1 => u \in unheard

\* Every acceptable update is confirmed in the end, with fewer faults than
\* Telegram makes attempts, unless Telegram makes its last attempt while the
\* process is up without a connection: a restart in time is enough, however many
\* attempts have failed before.
EventuallyConfirmed ==
    \A u \in Updates :
       Refusal(u) = 0 =>
          <>(\/ u \in confirmed
             \/ made[u] = MaxCalls[u] /\ server = "up" /\ conn = "closed")
=============================================================================
