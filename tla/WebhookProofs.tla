---------------------------- MODULE WebhookProofs ----------------------------
(***************************************************************************)
(* What Telegram takes for delivered was published, nobody is welcomed     *)
(* without an event, and nothing is published twice without a call nobody  *)
(* heard the end of: for any number of updates, of handlers at a time, of  *)
(* calls and of faults.                                                    *)
(*                                                                         *)
(* The argument counts the calls in the handler: each is good for one more *)
(* event until it has published, and for one more welcome until it has     *)
(* greeted.  As long as every answer was heard, an update has at most one  *)
(* call in the handler, and none once it is confirmed.                     *)
(***************************************************************************)
EXTENDS TelegramWebhook, FiniteSetTheorems, TLAPS

Places == {"free", "decide", "publish", "greet", "answer"}
Codes == {0, 204, 400, 403, 405, 503}

\* The calls for an update that are at one of these places.
In(u, places) == {c \in Calls : upd[c] = u /\ at[c] \in places}
Unpublished == {"decide", "publish"}
Ungreeted == {"greet"}
Publishing(u) == Cardinality(In(u, Unpublished))
Greeting(u) == Cardinality(In(u, Ungreeted))

Typed ==
    /\ server \in {"up", "draining", "gone"} /\ conn \in {"open", "closed"}
    /\ at \in [Calls -> Places]
    /\ upd \in [Calls -> Updates \cup {NoUpdate}]
    /\ code \in [Calls -> Codes]
    /\ heard \in [Calls -> BOOLEAN]
    /\ made \in [Updates -> Nat] /\ events \in [Updates -> Nat]
    /\ welcomes \in [Updates -> Nat] /\ lost \in [Updates -> Nat]
    /\ confirmed \subseteq Updates /\ unheard \subseteq Updates
    /\ faults \in 0..MaxFaults

\* A call has an update while it is in the handler; Telegram has one open call
\* for an update.
CallsInv ==
    /\ \A c \in Calls : at[c] = "free" <=> upd[c] = NoUpdate
    /\ \A c \in Calls : heard[c] => at[c] # "free"
    /\ \A c, d \in Calls : heard[c] /\ heard[d] /\ upd[c] = upd[d] => c = d

\* Where a call may be, and what it may answer, follows from its update and
\* from what was published for it.
HandlerInv ==
    /\ \A c \in Calls :
          /\ at[c] = "publish" => IsConnection(upd[c])
          /\ at[c] = "greet" /\ IsConnection(upd[c]) => events[upd[c]] + lost[upd[c]] > 0
          /\ at[c] = "greet" => Refusal(upd[c]) = 0
          /\ at[c] = "answer" /\ code[c] = 204 =>
                /\ Refusal(upd[c]) = 0
                /\ IsConnection(upd[c]) => events[upd[c]] + lost[upd[c]] > 0
    /\ ConfirmedIsPublished

\* Every call publishes once and welcomes once.
CountInv ==
    \A u \in Updates :
       /\ events[u] + lost[u] + Publishing(u) <= made[u]
       /\ made[u] <= MaxCalls[u]
       /\ IsConnection(u) => welcomes[u] + Greeting(u) <= events[u] + lost[u]
       /\ ~IsConnection(u) => welcomes[u] = 0

\* While every answer was heard, the event of an update is with its only call,
\* or confirmed.
OnceInv ==
    \A u \in Updates \ unheard :
       /\ events[u] + lost[u] <= 1
       /\ \A c \in Calls : upd[c] = u => heard[c]
       /\ \A c \in Calls : u \in confirmed => upd[c] # u
       /\ events[u] + lost[u] > 0 =>
             \/ u \in confirmed
             \/ \E c \in Calls : upd[c] = u /\ (at[c] = "greet" \/ (at[c] = "answer" /\ code[c] = 204))

WInv == Typed /\ CallsInv /\ HandlerInv /\ CountInv /\ OnceInv

LEMMA FiniteCalls == IsFiniteSet(Calls) /\ NoUpdate \notin Updates /\ MaxCalls \in [Updates -> Nat] /\ MaxFaults \in Nat
BY WebhookAssumption DEF WebhookAssumption

LEMMA CountIn == \A u, places : IsFiniteSet(In(u, places)) /\ Cardinality(In(u, places)) \in Nat
<1> SUFFICES ASSUME NEW u, NEW places PROVE IsFiniteSet(In(u, places)) /\ Cardinality(In(u, places)) \in Nat
    OBVIOUS
<1>1. In(u, places) \subseteq Calls
    BY DEF In
<1> QED BY <1>1, FiniteCalls, FS_Subset, FS_CardinalityType

Here(c, u, places) == IF upd[c] = u /\ at[c] \in places THEN 1 ELSE 0

\* A step of one call changes a count by that call alone.
LEMMA StepCounts ==
    ASSUME NEW c \in Calls, \A d \in Calls \ {c} : at'[d] = at[d] /\ upd'[d] = upd[d],
           NEW u, NEW places
    PROVE  Cardinality(In(u, places)') = Cardinality(In(u, places)) + Here(c, u, places)' - Here(c, u, places)
<1> DEFINE A == In(u, places)
           B == In(u, places)'
           R == In(u, places) \ {c}
<1>1. IsFiniteSet(A) /\ IsFiniteSet(R) /\ c \notin R
    BY CountIn, FS_Subset
<1>2. A = IF upd[c] = u /\ at[c] \in places THEN R \cup {c} ELSE R
    BY DEF In
<1>3. B = IF upd'[c] = u /\ at'[c] \in places THEN R \cup {c} ELSE R
    BY DEF In
<1>4. Cardinality(R) \in Nat /\ Cardinality(R \cup {c}) = Cardinality(R) + 1
    BY <1>1, FS_CardinalityType, FS_AddElement
<1> HIDE DEF A, B, R
<1>5. Cardinality(A) = Cardinality(R) + Here(c, u, places)
    BY <1>2, <1>4 DEF Here
<1>6. Cardinality(B) = Cardinality(R) + Here(c, u, places)'
    BY <1>3, <1>4 DEF Here
<1>7. Here(c, u, places) \in {0, 1} /\ Here(c, u, places)' \in {0, 1}
    BY DEF Here
<1>8. Cardinality(B) = Cardinality(A) + Here(c, u, places)' - Here(c, u, places)
    BY <1>4, <1>5, <1>6, <1>7
<1> QED BY <1>8 DEF A, B

LEMMA CountsOfStep ==
    ASSUME NEW c \in Calls, \A d \in Calls \ {c} : at'[d] = at[d] /\ upd'[d] = upd[d]
    PROVE  \A u :
              /\ Publishing(u)' = Publishing(u) + Here(c, u, Unpublished)' - Here(c, u, Unpublished)
              /\ Greeting(u)' = Greeting(u) + Here(c, u, Ungreeted)' - Here(c, u, Ungreeted)
              /\ Publishing(u) \in Nat /\ Greeting(u) \in Nat
BY StepCounts, CountIn DEF Publishing, Greeting

LEMMA CountsStay ==
    ASSUME UNCHANGED <<at, upd>>
    PROVE  \A u : Publishing(u)' = Publishing(u) /\ Greeting(u)' = Greeting(u)
BY DEF In, Publishing, Greeting

LEMMA WInvInit == Init => WInv
<1> SUFFICES ASSUME Init PROVE WInv
    OBVIOUS
<1>1. Typed
    BY FiniteCalls DEF Init, Typed, Places, Codes
<1>2. CallsInv /\ HandlerInv /\ OnceInv
    BY FiniteCalls DEF Init, CallsInv, HandlerInv, ConfirmedIsPublished, OnceInv
<1>3. CountInv
    <2> SUFFICES ASSUME NEW u \in Updates
                 PROVE  /\ events[u] + lost[u] + Publishing(u) <= made[u]
                        /\ made[u] <= MaxCalls[u]
                        /\ welcomes[u] + Greeting(u) <= events[u] + lost[u]
                        /\ welcomes[u] = 0
        BY DEF CountInv
    <2>1. In(u, Unpublished) = {} /\ In(u, Ungreeted) = {}
        BY FiniteCalls DEF Init, In
    <2>2. Cardinality({}) = 0
        BY FS_EmptySet
    <2>3. made[u] = 0 /\ events[u] = 0 /\ lost[u] = 0 /\ welcomes[u] = 0 /\ MaxCalls[u] \in Nat
        BY FiniteCalls DEF Init
    <2>4. Publishing(u) = 0 /\ Greeting(u) = 0
        BY <2>1, <2>2 DEF Publishing, Greeting
    <2> QED BY <2>3, <2>4
<1> QED BY <1>1, <1>2, <1>3 DEF WInv

LEMMA PostStep == \A c \in Calls, u \in Updates : WInv /\ Post(c, u) => WInv'
<1> SUFFICES ASSUME NEW c \in Calls, NEW u \in Updates, WInv, Post(c, u) PROVE WInv'
    OBVIOUS
<1>1. /\ at[c] = "free" /\ u \notin confirmed /\ made[u] < MaxCalls[u]
      /\ \A d \in Calls : ~(heard[d] /\ upd[d] = u)
      /\ at' = [at EXCEPT ![c] = "decide"] /\ upd' = [upd EXCEPT ![c] = u]
      /\ heard' = [heard EXCEPT ![c] = TRUE] /\ made' = [made EXCEPT ![u] = @ + 1]
      /\ UNCHANGED <<server, conn, code, confirmed, events, welcomes, lost, unheard, faults>>
    BY DEF Post, history
<1>2. Typed
    BY DEF WInv
<1>3. /\ at'[c] = "decide" /\ upd'[c] = u /\ heard'[c] = TRUE
      /\ \A d \in Calls \ {c} : at'[d] = at[d] /\ upd'[d] = upd[d] /\ heard'[d] = heard[d]
      /\ upd[c] = NoUpdate /\ u # NoUpdate
    BY <1>1, <1>2, FiniteCalls DEF Typed, WInv, CallsInv
<1>4. Typed'
    BY <1>1, <1>2 DEF Typed, Places
<1>5. CallsInv'
    BY <1>1, <1>3 DEF WInv, CallsInv
<1>6. HandlerInv'
    BY <1>1, <1>3 DEF WInv, HandlerInv, ConfirmedIsPublished
<1>7. CountInv'
    <2> SUFFICES ASSUME NEW v \in Updates
                 PROVE  /\ events[v] + lost[v] + Publishing(v)' <= made'[v]
                        /\ made'[v] <= MaxCalls[v]
                        /\ IsConnection(v) => welcomes[v] + Greeting(v)' <= events[v] + lost[v]
                        /\ ~IsConnection(v) => welcomes[v] = 0
        BY <1>1 DEF CountInv
    <2>1. Greeting(v)' = Greeting(v) /\ Publishing(v)' = Publishing(v) + (IF v = u THEN 1 ELSE 0)
        <3>1. /\ Here(c, v, Unpublished) = 0 /\ Here(c, v, Ungreeted) = 0 /\ Here(c, v, Ungreeted)' = 0
              /\ Here(c, v, Unpublished)' = IF v = u THEN 1 ELSE 0
            BY <1>1, <1>3, FiniteCalls DEF Here, Unpublished, Ungreeted
        <3> QED BY <1>3, <3>1, CountsOfStep
    <2>2. made'[v] = made[v] + (IF v = u THEN 1 ELSE 0) /\ made[v] \in Nat /\ MaxCalls[v] \in Nat
        BY <1>1, <1>2, FiniteCalls DEF Typed
    <2>3. events[v] \in Nat /\ lost[v] \in Nat /\ welcomes[v] \in Nat /\ Publishing(v) \in Nat /\ Greeting(v) \in Nat
        BY <1>2, CountIn DEF Typed, Publishing, Greeting
    <2> QED BY <1>1, <2>1, <2>2, <2>3 DEF WInv, CountInv
<1>8. OnceInv'
    BY <1>1, <1>3 DEF WInv, OnceInv
<1> QED BY <1>4, <1>5, <1>6, <1>7, <1>8 DEF WInv

LEMMA HangUpStep == \A c \in Calls : WInv /\ HangUp(c) => WInv'
<1> SUFFICES ASSUME NEW c \in Calls, WInv, HangUp(c) PROVE WInv'
    OBVIOUS
<1>1. /\ heard[c] /\ heard' = [heard EXCEPT ![c] = FALSE]
      /\ unheard' = unheard \cup {upd[c]}
      /\ faults < MaxFaults /\ faults' = faults + 1
      /\ UNCHANGED <<server, conn, at, upd, code, made, confirmed, events, welcomes, lost>>
    BY DEF HangUp, Fault
<1>2. Typed
    BY DEF WInv
<1>3. heard'[c] = FALSE /\ \A d \in Calls \ {c} : heard'[d] = heard[d]
    BY <1>1, <1>2 DEF Typed
<1>4. upd[c] \in Updates
    BY <1>1, <1>2 DEF Typed, WInv, CallsInv
<1>5. Typed'
    BY <1>1, <1>2, <1>4, FiniteCalls DEF Typed
<1>6. CallsInv' /\ HandlerInv'
    BY <1>1, <1>3 DEF WInv, CallsInv, HandlerInv, ConfirmedIsPublished
<1>7. CountInv'
    BY <1>1, CountsStay DEF WInv, CountInv
<1>8. OnceInv'
    BY <1>1, <1>3 DEF WInv, OnceInv
<1> QED BY <1>5, <1>6, <1>7, <1>8 DEF WInv

\* Decide and PublishFails: the call moves on, and nothing is published.
LEMMA DecisionStep ==
    ASSUME WInv, NEW c \in Calls, at[c] \in Unpublished, NEW next \in {"publish", "greet", "answer"},
           at' = [at EXCEPT ![c] = next], NEW status \in Codes, code' = [code EXCEPT ![c] = status],
           next = "publish" => IsConnection(upd[c]),
           next = "greet" => Refusal(upd[c]) = 0 /\ ~IsConnection(upd[c]),
           next = "answer" /\ status = 204 => Refusal(upd[c]) = 0 /\ ~IsConnection(upd[c]),
           UNCHANGED <<server, conn, upd, heard, made, confirmed, history>>, faults' \in 0..MaxFaults
    PROVE  WInv'
<1>1. Typed
    BY DEF WInv
<1>2. /\ at'[c] = next /\ code'[c] = status /\ at[c] \notin {"free", "greet", "answer"}
      /\ \A d \in Calls \ {c} : at'[d] = at[d] /\ code'[d] = code[d]
    BY <1>1 DEF Typed, Unpublished
<1>3. Typed'
    BY <1>1 DEF Typed, Places, history
<1>4. CallsInv'
    BY <1>2 DEF WInv, CallsInv
<1>5. HandlerInv'
    BY <1>2 DEF WInv, HandlerInv, ConfirmedIsPublished, history
<1>6. CountInv'
    <2> SUFFICES ASSUME NEW u \in Updates
                 PROVE  /\ events[u] + lost[u] + Publishing(u)' <= made[u]
                        /\ made[u] <= MaxCalls[u]
                        /\ IsConnection(u) => welcomes[u] + Greeting(u)' <= events[u] + lost[u]
                        /\ ~IsConnection(u) => welcomes[u] = 0
        BY DEF CountInv, history
    <2>1. /\ Here(c, u, Unpublished)' <= Here(c, u, Unpublished)
          /\ IsConnection(u) => Here(c, u, Ungreeted)' = Here(c, u, Ungreeted)
          /\ {Here(c, u, Unpublished), Here(c, u, Unpublished)', Here(c, u, Ungreeted), Here(c, u, Ungreeted)'} \subseteq {0, 1}
        BY <1>2 DEF Here, Ungreeted
    <2>2. /\ Publishing(u)' <= Publishing(u)
          /\ IsConnection(u) => Greeting(u)' = Greeting(u)
          /\ Publishing(u) \in Nat /\ Greeting(u) \in Nat /\ Publishing(u)' \in Int
        BY <1>2, <2>1, CountsOfStep
    <2>3. events[u] \in Nat /\ lost[u] \in Nat /\ welcomes[u] \in Nat /\ made[u] \in Nat
        BY <1>1 DEF Typed
    <2> QED BY <2>2, <2>3 DEF WInv, CountInv
<1>7. OnceInv'
    BY <1>2 DEF WInv, OnceInv, history
<1> QED BY <1>3, <1>4, <1>5, <1>6, <1>7 DEF WInv

LEMMA DecideStep == \A c \in Calls : WInv /\ Decide(c) => WInv'
<1> SUFFICES ASSUME NEW c \in Calls, WInv, Decide(c) PROVE WInv'
    OBVIOUS
<1>1. /\ at[c] \in Unpublished /\ UNCHANGED <<server, conn, upd, heard, made, confirmed, history, faults>>
      /\ faults' \in 0..MaxFaults
    BY DEF Decide, Unpublished, WInv, Typed
<1>2. code[c] \in Codes /\ code = [code EXCEPT ![c] = code[c]]
    BY DEF WInv, Typed
<1>3. \A u : Refusal(u) \in {0, 400, 403, 405}
    BY DEF Refusal
<1>4. CASE Refusal(upd[c]) # 0 /\ Respond(c, Refusal(upd[c]))
    <2> DEFINE status == Refusal(upd[c])
    <2>1. status \in Codes /\ status # 204 /\ at' = [at EXCEPT ![c] = "answer"] /\ code' = [code EXCEPT ![c] = status]
        BY <1>3, <1>4 DEF Respond, GoTo, Codes
    <2> HIDE DEF status
    <2> QED BY <1>1, <2>1, DecisionStep
<1>5. CASE IsConnection(upd[c]) /\ GoTo(c, "publish") /\ UNCHANGED code
    BY <1>1, <1>2, <1>5, DecisionStep DEF GoTo
<1>6. CASE IsBareStart(upd[c]) /\ GoTo(c, "greet") /\ UNCHANGED code
    <2>1. Refusal(upd[c]) = 0 /\ ~IsConnection(upd[c])
        BY <1>6 DEF IsBareStart, IsConnection
    <2> QED BY <1>1, <1>2, <1>6, <2>1, DecisionStep DEF GoTo
<1>7. CASE Refusal(upd[c]) = 0 /\ ~IsConnection(upd[c]) /\ ~IsBareStart(upd[c]) /\ Respond(c, 204)
    <2>1. 204 \in Codes /\ at' = [at EXCEPT ![c] = "answer"] /\ code' = [code EXCEPT ![c] = 204]
        BY <1>7 DEF Respond, GoTo, Codes
    <2> QED BY <1>1, <1>7, <2>1, DecisionStep
<1> QED BY <1>4, <1>5, <1>6, <1>7 DEF Decide

LEMMA PublishFailsStep == \A c \in Calls : WInv /\ PublishFails(c) => WInv'
<1> SUFFICES ASSUME NEW c \in Calls, WInv, PublishFails(c) PROVE WInv'
    OBVIOUS
<1>1. at[c] \in Unpublished /\ UNCHANGED <<server, conn, upd, heard, made, confirmed, history>>
    BY DEF PublishFails, Unpublished
<1>2. faults' \in 0..MaxFaults
    <2>1. faults \in 0..MaxFaults /\ MaxFaults \in Nat
        BY FiniteCalls DEF WInv, Typed
    <2>2. faults' = faults \/ (faults < MaxFaults /\ faults' = faults + 1)
        BY DEF PublishFails, Fault
    <2> QED BY <2>1, <2>2
<1> DEFINE status == 503
<1>3. status \in Codes /\ status # 204 /\ at' = [at EXCEPT ![c] = "answer"] /\ code' = [code EXCEPT ![c] = status]
    BY DEF PublishFails, Respond, GoTo, Codes
<1> HIDE DEF status
<1> QED BY <1>1, <1>2, <1>3, DecisionStep

\* PublishConnection and PublishLost: one more event, and the greeting is next.
LEMMA PublishedStep == \A c \in Calls : WInv /\ (PublishConnection(c) \/ PublishLost(c)) => WInv'
<1> SUFFICES ASSUME NEW c \in Calls, WInv, PublishConnection(c) \/ PublishLost(c) PROVE WInv'
    OBVIOUS
<1> DEFINE u == upd[c]
<1>1. /\ at[c] = "publish" /\ at' = [at EXCEPT ![c] = "greet"]
      /\ UNCHANGED <<server, upd, code, heard, made, confirmed, welcomes, unheard>>
      /\ conn' \in {"open", "closed"} /\ faults' \in 0..MaxFaults
      /\ \/ events' = [events EXCEPT ![u] = @ + 1] /\ lost' = lost
         \/ lost' = [lost EXCEPT ![u] = @ + 1] /\ events' = events
    <2>1. CASE PublishConnection(c)
        BY <2>1 DEF PublishConnection, GoTo, WInv, Typed
    <2>2. CASE PublishLost(c)
        <3>1. faults' \in 0..MaxFaults
            BY <2>2, FiniteCalls DEF PublishLost, Fault, WInv, Typed
        <3> QED BY <2>2, <3>1 DEF PublishLost, GoTo
    <2> QED BY <2>1, <2>2
<1>2. Typed
    BY DEF WInv
<1>3. IsConnection(u) /\ u \in Updates /\ Refusal(u) = 0
    BY <1>1, <1>2 DEF Typed, WInv, CallsInv, HandlerInv, IsConnection
<1>4. /\ events' \in [Updates -> Nat] /\ lost' \in [Updates -> Nat]
      /\ events'[u] + lost'[u] = events[u] + lost[u] + 1
      /\ \A v \in Updates \ {u} : events'[v] = events[v] /\ lost'[v] = lost[v]
    BY <1>1, <1>2, <1>3 DEF Typed
<1>5. at'[c] = "greet" /\ \A d \in Calls \ {c} : at'[d] = at[d]
    BY <1>1, <1>2 DEF Typed
<1>6. \A v \in Updates : events[v] \in Nat /\ lost[v] \in Nat /\ welcomes[v] \in Nat /\ made[v] \in Nat
    BY <1>2 DEF Typed
<1>7. \A v \in Updates : events[v] + lost[v] > 0 => events'[v] + lost'[v] > 0
    BY <1>3, <1>4, <1>6
<1>8. Typed'
    BY <1>1, <1>2, <1>4 DEF Typed, Places
<1>9. CallsInv'
    BY <1>1, <1>5 DEF WInv, CallsInv
<1>10. HandlerInv'
    <2>1. \A d \in Calls : at[d] # "free" => upd[d] \in Updates
        BY <1>2 DEF Typed, WInv, CallsInv
    <2>2. events'[u] + lost'[u] > 0
        BY <1>3, <1>4, <1>6
    <2>3. ConfirmedIsPublished'
        BY <1>1, <1>2, <1>7 DEF WInv, HandlerInv, ConfirmedIsPublished, Typed
    <2> QED BY <1>1, <1>3, <1>5, <1>7, <2>1, <2>2, <2>3 DEF WInv, HandlerInv
<1>11. CountInv'
    <2> SUFFICES ASSUME NEW v \in Updates
                 PROVE  /\ events'[v] + lost'[v] + Publishing(v)' <= made[v]
                        /\ made[v] <= MaxCalls[v]
                        /\ IsConnection(v) => welcomes[v] + Greeting(v)' <= events'[v] + lost'[v]
                        /\ ~IsConnection(v) => welcomes[v] = 0
        BY <1>1 DEF CountInv
    <2>1. /\ Here(c, v, Unpublished) = (IF v = u THEN 1 ELSE 0) /\ Here(c, v, Unpublished)' = 0
          /\ Here(c, v, Ungreeted)' = (IF v = u THEN 1 ELSE 0) /\ Here(c, v, Ungreeted) = 0
        BY <1>1, <1>5 DEF Here, Unpublished, Ungreeted
    <2>2. /\ Publishing(v)' = Publishing(v) - (IF v = u THEN 1 ELSE 0)
          /\ Greeting(v)' = Greeting(v) + (IF v = u THEN 1 ELSE 0)
          /\ Publishing(v) \in Nat /\ Greeting(v) \in Nat
        BY <1>1, <1>5, <2>1, CountsOfStep
    <2>3. events'[v] + lost'[v] = events[v] + lost[v] + (IF v = u THEN 1 ELSE 0)
        BY <1>4, <1>6
    <2> HIDE DEF u
    <2> QED BY <1>6, <2>2, <2>3 DEF WInv, CountInv
<1>12. OnceInv'
    <2>1. u \notin unheard => events[u] + lost[u] = 0
        BY <1>1, <1>3, <1>6 DEF WInv, OnceInv, CallsInv
    <2> SUFFICES ASSUME NEW v \in Updates \ unheard
                 PROVE  /\ events'[v] + lost'[v] <= 1
                        /\ \A d \in Calls : upd[d] = v => heard[d]
                        /\ \A d \in Calls : v \in confirmed => upd[d] # v
                        /\ events'[v] + lost'[v] > 0 =>
                              \/ v \in confirmed
                              \/ \E d \in Calls : upd[d] = v /\ (at'[d] = "greet" \/ (at'[d] = "answer" /\ code[d] = 204))
        BY <1>1 DEF OnceInv
    <2>2. CASE v = u
        BY <1>4, <1>5, <2>1, <2>2 DEF WInv, OnceInv
    <2>3. CASE v # u
        BY <1>1, <1>4, <1>5, <2>3 DEF WInv, OnceInv
    <2> QED BY <2>2, <2>3
<1> QED BY <1>8, <1>9, <1>10, <1>11, <1>12 DEF WInv

LEMMA GreetStep == \A c \in Calls : WInv /\ Greet(c) => WInv'
<1> SUFFICES ASSUME NEW c \in Calls, WInv, Greet(c) PROVE WInv'
    OBVIOUS
<1> DEFINE u == upd[c]
           status == 204
<1>1. /\ at[c] = "greet" /\ at' = [at EXCEPT ![c] = "answer"] /\ code' = [code EXCEPT ![c] = status]
      /\ status \in Codes
      /\ UNCHANGED <<server, conn, upd, heard, made, confirmed, events, lost, unheard, faults>>
      /\ \E arrives \in {0, 1} :
            welcomes' = IF IsConnection(u) THEN [welcomes EXCEPT ![u] = @ + arrives] ELSE welcomes
    BY DEF Greet, Respond, GoTo, Presentation, Codes
<1> HIDE DEF status
<1>2. Typed
    BY DEF WInv
<1>3. u \in Updates /\ Refusal(u) = 0 /\ (IsConnection(u) => events[u] + lost[u] > 0)
    BY <1>1, <1>2 DEF Typed, WInv, CallsInv, HandlerInv
<1>4. /\ welcomes' \in [Updates -> Nat]
      /\ \A v \in Updates : welcomes'[v] <= welcomes[v] + (IF v = u /\ IsConnection(u) THEN 1 ELSE 0)
      /\ ~IsConnection(u) => welcomes' = welcomes
    BY <1>1, <1>2, <1>3 DEF Typed
<1>5. /\ at'[c] = "answer" /\ code'[c] = status
      /\ \A d \in Calls \ {c} : at'[d] = at[d] /\ code'[d] = code[d]
    BY <1>1, <1>2 DEF Typed
<1>6. Typed'
    BY <1>1, <1>2, <1>4 DEF Typed, Places
<1>7. CallsInv'
    BY <1>1, <1>5 DEF WInv, CallsInv
<1>8. HandlerInv'
    BY <1>1, <1>3, <1>5 DEF WInv, HandlerInv, ConfirmedIsPublished
<1>9. CountInv'
    <2> SUFFICES ASSUME NEW v \in Updates
                 PROVE  /\ events[v] + lost[v] + Publishing(v)' <= made[v]
                        /\ made[v] <= MaxCalls[v]
                        /\ IsConnection(v) => welcomes'[v] + Greeting(v)' <= events[v] + lost[v]
                        /\ ~IsConnection(v) => welcomes'[v] = 0
        BY <1>1 DEF CountInv
    <2>1. /\ Here(c, v, Unpublished) = 0 /\ Here(c, v, Unpublished)' = 0 /\ Here(c, v, Ungreeted)' = 0
          /\ Here(c, v, Ungreeted) = IF v = u THEN 1 ELSE 0
        BY <1>1, <1>5 DEF Here, Unpublished, Ungreeted
    <2>2. /\ Publishing(v)' = Publishing(v)
          /\ Greeting(v)' = Greeting(v) - (IF v = u THEN 1 ELSE 0)
          /\ Publishing(v) \in Nat /\ Greeting(v) \in Nat
        BY <1>1, <1>5, <2>1, CountsOfStep
    <2>3. events[v] \in Nat /\ lost[v] \in Nat /\ welcomes[v] \in Nat /\ welcomes'[v] \in Nat /\ made[v] \in Nat
        BY <1>2, <1>4 DEF Typed
    <2>4. welcomes'[v] <= welcomes[v] + (IF v = u /\ IsConnection(u) THEN 1 ELSE 0)
        BY <1>4
    <2>5. CASE IsConnection(v)
        <3>1. welcomes'[v] <= welcomes[v] + (IF v = u THEN 1 ELSE 0)
            BY <2>3, <2>4
        <3>2. welcomes'[v] + Greeting(v)' <= welcomes[v] + Greeting(v)
            <4> HIDE DEF u
            <4> QED BY <2>2, <2>3, <3>1
        <3>3. /\ welcomes[v] + Greeting(v) <= events[v] + lost[v]
              /\ events[v] + lost[v] + Publishing(v) <= made[v] /\ made[v] <= MaxCalls[v]
            BY <2>5 DEF WInv, CountInv
        <3>4. Greeting(v)' \in Int
            BY <2>2
        <3> QED BY <2>2, <2>3, <2>5, <3>2, <3>3, <3>4
    <2>6. CASE ~IsConnection(v)
        <3>1. welcomes'[v] <= welcomes[v]
            BY <2>3, <2>4, <2>6
        <3> QED BY <2>2, <2>3, <2>6, <3>1 DEF WInv, CountInv
    <2> QED BY <2>5, <2>6
<1>10. OnceInv'
    BY <1>1, <1>5 DEF WInv, OnceInv, status
<1> QED BY <1>6, <1>7, <1>8, <1>9, <1>10 DEF WInv

LEMMA AnswerStep == \A c \in Calls : WInv /\ Answer(c) => WInv'
<1> SUFFICES ASSUME NEW c \in Calls, WInv, Answer(c) PROVE WInv'
    OBVIOUS
<1> DEFINE u == upd[c]
<1>1. /\ at[c] = "answer" /\ at' = [at EXCEPT ![c] = "free"]
      /\ upd' = [upd EXCEPT ![c] = NoUpdate] /\ code' = [code EXCEPT ![c] = 0]
      /\ confirmed' = IF heard[c] /\ code[c] = 204 THEN confirmed \cup {u} ELSE confirmed
      /\ heard' = [heard EXCEPT ![c] = FALSE]
      /\ UNCHANGED <<server, conn, made, events, welcomes, lost, unheard, faults>>
    BY DEF Answer, GoTo, history
<1>2. Typed
    BY DEF WInv
<1>3. u \in Updates /\ (code[c] = 204 => Refusal(u) = 0 /\ (IsConnection(u) => events[u] + lost[u] > 0))
    BY <1>1, <1>2 DEF Typed, WInv, CallsInv, HandlerInv
<1>4. /\ at'[c] = "free" /\ upd'[c] = NoUpdate /\ heard'[c] = FALSE
      /\ \A d \in Calls \ {c} : at'[d] = at[d] /\ upd'[d] = upd[d] /\ code'[d] = code[d] /\ heard'[d] = heard[d]
    BY <1>1, <1>2 DEF Typed
<1>5. Typed'
    BY <1>1, <1>2, <1>3 DEF Typed, Places, Codes
<1>6. CallsInv'
    BY <1>1, <1>4 DEF WInv, CallsInv
<1>7. HandlerInv'
    BY <1>1, <1>3, <1>4 DEF WInv, HandlerInv, ConfirmedIsPublished
<1>8. CountInv'
    <2>1. \A v \in Updates : /\ Here(c, v, Unpublished) = 0 /\ Here(c, v, Unpublished)' = 0
                             /\ Here(c, v, Ungreeted) = 0 /\ Here(c, v, Ungreeted)' = 0
        BY <1>1, <1>4 DEF Here, Unpublished, Ungreeted
    <2>2. \A v \in Updates : Publishing(v)' = Publishing(v) /\ Greeting(v)' = Greeting(v)
        BY <1>4, <2>1, CountsOfStep
    <2> QED BY <1>1, <2>2 DEF WInv, CountInv
<1>9. OnceInv'
    <2> SUFFICES ASSUME NEW v \in Updates \ unheard
                 PROVE  /\ events[v] + lost[v] <= 1
                        /\ \A d \in Calls : upd'[d] = v => heard'[d]
                        /\ \A d \in Calls : v \in confirmed' => upd'[d] # v
                        /\ events[v] + lost[v] > 0 =>
                              \/ v \in confirmed'
                              \/ \E d \in Calls : upd'[d] = v /\ (at'[d] = "greet" \/ (at'[d] = "answer" /\ code'[d] = 204))
        BY <1>1 DEF OnceInv
    <2>1. NoUpdate # v
        BY FiniteCalls
    <2>2. \A d \in Calls \ {c} : v = u => upd[d] # v
        BY <1>3 DEF WInv, OnceInv, CallsInv
    <2>3. events[v] + lost[v] <= 1 /\ \A d \in Calls : upd'[d] = v => heard'[d]
        BY <1>4, <2>1 DEF WInv, OnceInv
    <2>4. \A d \in Calls : v \in confirmed' => upd'[d] # v
        BY <1>1, <1>4, <2>1, <2>2 DEF WInv, OnceInv
    <2>5. ASSUME events[v] + lost[v] > 0, v \notin confirmed'
          PROVE  \E d \in Calls : upd'[d] = v /\ (at'[d] = "greet" \/ (at'[d] = "answer" /\ code'[d] = 204))
        <3>1. v \notin confirmed
            BY <1>1, <2>5
        <3>2. PICK d \in Calls : upd[d] = v /\ (at[d] = "greet" \/ (at[d] = "answer" /\ code[d] = 204))
            BY <2>5, <3>1 DEF WInv, OnceInv
        <3>3. d # c
            <4>1. SUFFICES ASSUME d = c PROVE FALSE
                OBVIOUS
            <4>2. heard[c] /\ code[c] = 204 /\ u = v
                BY <1>1, <3>2, <4>1 DEF WInv, OnceInv
            <4> QED BY <1>1, <2>5, <4>2
        <3> QED BY <1>4, <3>2, <3>3
    <2> QED BY <2>3, <2>4, <2>5
<1> QED BY <1>5, <1>6, <1>7, <1>8, <1>9 DEF WInv

LEMMA ExitStep == WInv /\ Exit => WInv'
<1> SUFFICES ASSUME WInv, Exit PROVE WInv'
    OBVIOUS
<1>1. /\ server' = "gone" /\ conn' = "closed"
      /\ at' = [c \in Calls |-> "free"] /\ upd' = [c \in Calls |-> NoUpdate]
      /\ code' = [c \in Calls |-> 0] /\ heard' = [c \in Calls |-> FALSE]
      /\ unheard' = unheard \cup {upd[c] : c \in {d \in Calls : heard[d]}}
      /\ UNCHANGED <<made, confirmed, events, welcomes, lost, faults>>
    BY DEF Exit
<1>2. Typed
    BY DEF WInv
<1>3. \A c \in Calls : at'[c] = "free" /\ upd'[c] = NoUpdate /\ ~heard'[c]
    BY <1>1
<1>4. Typed'
    <2>1. unheard' \subseteq Updates
        BY <1>1, <1>2 DEF Typed, WInv, CallsInv
    <2> QED BY <1>1, <1>2, <2>1 DEF Typed, Places, Codes
<1>5. CallsInv' /\ HandlerInv'
    BY <1>1, <1>3 DEF WInv, CallsInv, HandlerInv, ConfirmedIsPublished
<1>6. CountInv'
    <2> SUFFICES ASSUME NEW v \in Updates
                 PROVE  /\ events[v] + lost[v] + Publishing(v)' <= made[v]
                        /\ made[v] <= MaxCalls[v]
                        /\ IsConnection(v) => welcomes[v] + Greeting(v)' <= events[v] + lost[v]
                        /\ ~IsConnection(v) => welcomes[v] = 0
        BY <1>1 DEF CountInv
    <2>1. In(v, Unpublished)' = {} /\ In(v, Ungreeted)' = {}
        BY <1>3, FiniteCalls DEF In
    <2>2. Publishing(v)' = 0 /\ Greeting(v)' = 0
        BY <2>1, FS_EmptySet DEF Publishing, Greeting
    <2>3. Publishing(v) \in Nat /\ Greeting(v) \in Nat
        BY CountIn DEF Publishing, Greeting
    <2>4. events[v] \in Nat /\ lost[v] \in Nat /\ welcomes[v] \in Nat /\ made[v] \in Nat
        BY <1>2 DEF Typed
    <2> QED BY <2>2, <2>3, <2>4 DEF WInv, CountInv
<1>7. OnceInv'
    <2> SUFFICES ASSUME NEW v \in Updates, v \notin unheard'
                 PROVE  events[v] + lost[v] <= 1 /\ (events[v] + lost[v] > 0 => v \in confirmed)
        BY <1>1, <1>3, FiniteCalls DEF OnceInv
    <2>1. v \notin unheard /\ \A c \in Calls : heard[c] => upd[c] # v
        BY <1>1
    <2> QED BY <2>1 DEF WInv, OnceInv
<1> QED BY <1>4, <1>5, <1>6, <1>7 DEF WInv

\* The server, the connection and the bound on faults are nobody else's business.
LEMMA ServerStep ==
    ASSUME WInv, UNCHANGED <<callVars, made, confirmed, history>>,
           server' \in {"up", "draining", "gone"}, conn' \in {"open", "closed"}, faults' \in 0..MaxFaults
    PROVE  WInv'
<1>1. UNCHANGED <<at, upd, code, heard, made, confirmed, events, welcomes, lost, unheard>>
    BY DEF callVars, history
<1>2. Typed'
    BY <1>1 DEF WInv, Typed
<1>3. CountInv'
    BY <1>1, CountsStay DEF WInv, CountInv
<1>4. CallsInv' /\ HandlerInv' /\ OnceInv'
    BY <1>1 DEF WInv, CallsInv, HandlerInv, ConfirmedIsPublished, OnceInv
<1> QED BY <1>2, <1>3, <1>4 DEF WInv

LEMMA WInvStep == WInv /\ [Next]_vars => WInv'
<1> SUFFICES ASSUME WInv, [Next]_vars PROVE WInv'
    OBVIOUS
<1>1. ASSUME NEW c \in Calls,
             \/ \E u \in Updates : Post(c, u)
             \/ ServeHTTP(c)
             \/ HangUp(c)
             \/ PublishLost(c)
      PROVE  WInv'
    BY <1>1, PostStep, HangUpStep, DecideStep, PublishedStep, PublishFailsStep, GreetStep, AnswerStep DEF ServeHTTP
<1>2. faults \in 0..MaxFaults /\ MaxFaults \in Nat /\ server \in {"up", "draining", "gone"} /\ conn \in {"open", "closed"}
    BY FiniteCalls DEF WInv, Typed
<1>3. Fault => faults' \in 0..MaxFaults
    BY <1>2 DEF Fault
<1>4. CASE LoseConnection
    BY <1>2, <1>3, <1>4, ServerStep DEF LoseConnection
<1>5. CASE Drain
    BY <1>2, <1>3, <1>5, ServerStep DEF Drain
<1>6. CASE Restart
    BY <1>2, <1>6, ServerStep DEF Restart
<1>7. CASE UNCHANGED vars
    BY <1>2, <1>7, ServerStep DEF vars
<1> QED BY <1>1, <1>4, <1>5, <1>6, <1>7, ExitStep DEF Next

\* The strengthening holds throughout: a call in ServeHTTP is good for one event
\* and one welcome, and an update all of whose answers were heard has one call.
THEOREM WInvHolds == Spec => []WInv
BY WInvInit, WInvStep, PTL DEF Spec

\* Types; however many calls overlap, none publishes or welcomes twice.
THEOREM WebhookTypes == Spec => []TypeOK
<1>1. WInv => TypeOK
    <2> SUFFICES ASSUME WInv PROVE TypeOK
        OBVIOUS
    <2>1. Typed
        BY DEF WInv
    <2>2. ASSUME NEW u \in Updates
          PROVE  welcomes[u] <= made[u] /\ events[u] + lost[u] <= made[u] /\ made[u] <= MaxCalls[u]
        <3>1. /\ events[u] \in Nat /\ lost[u] \in Nat /\ welcomes[u] \in Nat /\ made[u] \in Nat
              /\ Publishing(u) \in Nat /\ Greeting(u) \in Nat
            BY <2>1, CountIn DEF Typed, Publishing, Greeting
        <3> QED BY <3>1 DEF WInv, CountInv
    <2>3. \A c \in Calls : heard[c] => at[c] # "free"
        BY DEF WInv, CallsInv
    <2> QED BY <2>1, <2>2, <2>3 DEF TypeOK, Typed, Places, Codes
<1> QED BY <1>1, WInvHolds, PTL

\* Telegram stops repeating a /start only when its event was published, or went
\* down with a connection whose publish had been reported as done.
THEOREM ConfirmedWasPublished == Spec => []ConfirmedIsPublished
<1>1. WInv => ConfirmedIsPublished
    BY DEF WInv, HandlerInv
<1> QED BY <1>1, WInvHolds, PTL

\* Never more welcomes than events (publish before sendBotGreeting, in every call).
THEOREM WelcomeNeedsEvent == Spec => []WelcomeFollowsEvent
<1>1. WInv => WelcomeFollowsEvent
    <2> SUFFICES ASSUME WInv, NEW u \in Updates PROVE welcomes[u] <= events[u] + lost[u]
        BY DEF WelcomeFollowsEvent
    <2>1. /\ events[u] \in Nat /\ lost[u] \in Nat /\ welcomes[u] \in Nat /\ Greeting(u) \in Nat
        BY CountIn DEF WInv, Typed, Greeting
    <2>2. /\ IsConnection(u) => welcomes[u] + Greeting(u) <= events[u] + lost[u]
          /\ ~IsConnection(u) => welcomes[u] = 0
        BY DEF WInv, CountInv
    <2> QED BY <2>1, <2>2
<1> QED BY <1>1, WInvHolds, PTL

\* A second event for one update takes a call whose answer Telegram did not hear.
THEOREM DuplicatesAreUnheard == Spec => []DuplicateHasCause
<1>1. WInv => DuplicateHasCause
    <2> SUFFICES ASSUME WInv, NEW u \in Updates, u \notin unheard, events[u] + lost[u] > 1 PROVE FALSE
        BY DEF DuplicateHasCause
    <2>1. events[u] + lost[u] <= 1
        BY DEF WInv, OnceInv
    <2>2. events[u] \in Nat /\ lost[u] \in Nat
        BY DEF WInv, Typed
    <2> QED BY <2>1, <2>2
<1> QED BY <1>1, WInvHolds, PTL
=============================================================================
