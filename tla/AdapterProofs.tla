---------------------------- MODULE AdapterProofs ----------------------------
(***************************************************************************)
(* What Send of an adapter may report, for every provider, message, status *)
(* code and answer of an honest service, and whenever the context ends.    *)
(*                                                                         *)
(* A chain of early returns is a sequence of rules, and FirstRule says     *)
(* what the first of them that holds returns; the classification of the    *)
(* answers follows by cases.  The invariant then tells, for a call that    *)
(* has returned, whether the message may still be taken afterwards.        *)
(***************************************************************************)
EXTENDS AdapterCall, WellFoundedInduction, TLAPS

-----------------------------------------------------------------------------
(* Chains of early returns *)

LEMMA LeastExists ==
    ASSUME NEW I, I \subseteq Nat, I # {}
    PROVE  Min(I) \in I /\ \A i \in I : Min(I) <= i
<1>1. PICK x \in I : \A y \in I : ~(<<y, x>> \in OpToRel(<, Nat))
    BY NatLessThanWellFounded, WFMin
<1>2. \A y \in I : x <= y
    <2> SUFFICES ASSUME NEW y \in I, y < x PROVE FALSE
        OBVIOUS
    <2>1. <<y, x>> \in Nat \X Nat /\ <<y, x>>[1] < <<y, x>>[2]
        OBVIOUS
    <2>2. <<y, x>> \in {ss \in Nat \X Nat : ss[1] < ss[2]}
        BY ONLY <2>1
    <2> QED BY <1>1, <2>2 DEF OpToRel
<1> QED BY <1>2 DEF Min

\* FirstMatch returns the result of the first rule that holds.
LEMMA FirstRule ==
    ASSUME NEW rules, NEW n \in Nat, Len(rules) = n, \E i \in 1..n : rules[i][1]
    PROVE  \E i \in 1..n :
              /\ rules[i][1] /\ \A j \in 1..n : j < i => ~rules[j][1]
              /\ FirstMatch(rules) = rules[i][2]
<1> DEFINE I == {i \in 1..n : rules[i][1]}
<1>1. I # {} /\ I \subseteq Nat /\ Min(I) \in I /\ \A i \in I : Min(I) <= i
    <2>1. I # {} /\ I \subseteq Nat
        OBVIOUS
    <2> HIDE DEF I
    <2> QED BY <2>1, LeastExists
<1>2. FirstMatch(rules) = rules[Min(I)][2]
    BY <1>1 DEF FirstMatch, SelectInSeq
<1>3. \A j \in 1..n : j < Min(I) => ~rules[j][1]
    <2> SUFFICES ASSUME NEW j \in 1..n, j < Min(I), rules[j][1] PROVE FALSE
        OBVIOUS
    <2>1. j \in I /\ Min(I) \in Nat
        BY <1>1
    <2> HIDE DEF I
    <2> QED BY <1>1, <2>1
<1> QED BY <1>1, <1>2, <1>3

LEMMA GatewayRule ==
    ASSUME NEW r, r.code \in Nat
    PROVE  \/ ~r.json /\ GatewayAnswer(r) = Failed("telegram_bad_response")
           \/ r.json /\ \E c : GatewayAnswer(r) = Failed(c)
           \/ r.json /\ r.code < 500 /\ ~r.ok /\ GatewayAnswer(r) = Undeliverable("telegram_refused")
           \/ r.json /\ r.ok /\ GatewayAnswer(r) = Sent
<1> DEFINE rules == <<
      <<~r.json, Failed("telegram_bad_response")>>,
      <<r.code \in {401, 403}, Failed("telegram_auth_failed")>>,
      <<r.code >= 500, Failed("telegram_server_error")>>,
      <<~r.ok, Undeliverable("telegram_refused")>>,
      <<TRUE, Sent>> >>
<1>1. GatewayAnswer(r) = FirstMatch(rules)
    BY DEF GatewayAnswer
<1>2. Len(rules) = 5
    OBVIOUS
<1>3. /\ rules[1][1] <=> ~r.json
      /\ rules[2][1] <=> r.code \in {401, 403}
      /\ rules[3][1] <=> r.code >= 500
      /\ rules[4][1] <=> ~r.ok
      /\ rules[5][1]
    OBVIOUS
<1>4. /\ rules[1][2] = Failed("telegram_bad_response")
      /\ rules[2][2] = Failed("telegram_auth_failed")
      /\ rules[3][2] = Failed("telegram_server_error")
      /\ rules[4][2] = Undeliverable("telegram_refused")
      /\ rules[5][2] = Sent
    OBVIOUS
<1> HIDE DEF rules
<1>5. \E i \in 1..5 :
         /\ rules[i][1] /\ \A j \in 1..5 : j < i => ~rules[j][1]
         /\ FirstMatch(rules) = rules[i][2]
    <2>1. 5 \in Nat /\ \E i \in 1..5 : rules[i][1]
        BY <1>3, 5 \in 1..5
    <2> QED BY <1>2, <2>1, FirstRule
<1> QED BY <1>1, <1>3, <1>4, <1>5

LEMMA BotRule ==
    ASSUME NEW r, r.code \in Nat
    PROVE  \/ ~r.json /\ BotAnswer(r) = Failed("telegram_bot_bad_response")
           \/ r.json /\ Success(r.code) /\ r.ok /\ BotAnswer(r) = Sent
           \/ r.json /\ \E c : BotAnswer(r) = Failed(c)
           \/ /\ r.json /\ r.code < 500 /\ (r.code = 403 \/ r.gone)
              /\ BotAnswer(r) = Undeliverable("telegram_bot_chat_unavailable")
<1> DEFINE rules == <<
      <<~r.json, Failed("telegram_bot_bad_response")>>,
      <<Success(r.code) /\ r.ok, Sent>>,
      <<r.code = 401, Failed("telegram_bot_auth_failed")>>,
      <<r.code = 429 \/ r.code >= 500, Failed("telegram_bot_service_unavailable")>>,
      <<r.code = 403 \/ r.gone, Undeliverable("telegram_bot_chat_unavailable")>>,
      <<TRUE, Failed("telegram_bot_rejected")>> >>
<1>1. BotAnswer(r) = FirstMatch(rules)
    BY DEF BotAnswer
<1>2. Len(rules) = 6
    OBVIOUS
<1>3. /\ rules[1][1] <=> ~r.json
      /\ rules[2][1] <=> Success(r.code) /\ r.ok
      /\ rules[3][1] <=> r.code = 401
      /\ rules[4][1] <=> r.code = 429 \/ r.code >= 500
      /\ rules[5][1] <=> r.code = 403 \/ r.gone
      /\ rules[6][1]
    OBVIOUS
<1>4. /\ rules[1][2] = Failed("telegram_bot_bad_response")
      /\ rules[2][2] = Sent
      /\ rules[3][2] = Failed("telegram_bot_auth_failed")
      /\ rules[4][2] = Failed("telegram_bot_service_unavailable")
      /\ rules[5][2] = Undeliverable("telegram_bot_chat_unavailable")
      /\ rules[6][2] = Failed("telegram_bot_rejected")
    OBVIOUS
<1> HIDE DEF rules
<1>5. \E i \in 1..6 :
         /\ rules[i][1] /\ \A j \in 1..6 : j < i => ~rules[j][1]
         /\ FirstMatch(rules) = rules[i][2]
    <2>1. 6 \in Nat /\ \E i \in 1..6 : rules[i][1]
        BY <1>3, 6 \in 1..6
    <2> QED BY <1>2, <2>1, FirstRule
<1> QED BY <1>1, <1>3, <1>4, <1>5

LEMMA WebPushRule ==
    ASSUME NEW r, r.code \in Nat
    PROVE  \/ Success(r.code) /\ WebPushAnswer(r) = Sent
           \/ r.code \in {404, 410} /\ WebPushAnswer(r) = Undeliverable("webpush_subscription_expired")
           \/ \E c : WebPushAnswer(r) = Failed(c)
<1> DEFINE rules == <<
      <<Success(r.code), Sent>>,
      <<r.code \in {404, 410}, Undeliverable("webpush_subscription_expired")>>,
      <<r.code = 429 \/ r.code >= 500, Failed("webpush_service_unavailable")>>,
      <<TRUE, Failed("webpush_rejected")>> >>
<1>1. WebPushAnswer(r) = FirstMatch(rules)
    BY DEF WebPushAnswer
<1>2. Len(rules) = 4
    OBVIOUS
<1>3. /\ rules[1][1] <=> Success(r.code)
      /\ rules[2][1] <=> r.code \in {404, 410}
      /\ rules[4][1]
    OBVIOUS
<1>4. /\ rules[1][2] = Sent
      /\ rules[2][2] = Undeliverable("webpush_subscription_expired")
      /\ rules[3][2] = Failed("webpush_service_unavailable")
      /\ rules[4][2] = Failed("webpush_rejected")
    OBVIOUS
<1> HIDE DEF rules
<1>5. \E i \in 1..4 :
         /\ rules[i][1] /\ \A j \in 1..4 : j < i => ~rules[j][1]
         /\ FirstMatch(rules) = rules[i][2]
    <2>1. 4 \in Nat /\ \E i \in 1..4 : rules[i][1]
        BY <1>3, 4 \in 1..4
    <2> QED BY <1>2, <2>1, FirstRule
<1> QED BY <1>1, <1>3, <1>4, <1>5

-----------------------------------------------------------------------------
(* What Send refuses by itself *)

\* The result of a local refusal: nothing, or "undeliverable" or "failed".
IsRefusal(res) == res = GoesOut \/ (\E c : res = Undeliverable(c)) \/ (\E c : res = Failed(c))

LEMMA SMTPRefused ==
    ASSUME NEW p, NEW msg
    PROVE  SMTPRefusal(p, msg) = GoesOut \/ \E c : SMTPRefusal(p, msg) = Failed(c)
<1> DEFINE rules == <<
      <<~p.configured, Failed("smtp_not_configured")>>,
      <<p.auth \notin {"auto", "plain"}, Failed("smtp_auth_method_invalid")>>,
      <<~msg.mail_ok, Failed("smtp_invalid_message")>>,
      <<TRUE, GoesOut>> >>
<1>1. SMTPRefusal(p, msg) = FirstMatch(rules)
    BY DEF SMTPRefusal
<1>2. Len(rules) = 4 /\ rules[4][1]
    OBVIOUS
<1>3. /\ rules[1][2] = Failed("smtp_not_configured")
      /\ rules[2][2] = Failed("smtp_auth_method_invalid")
      /\ rules[3][2] = Failed("smtp_invalid_message")
      /\ rules[4][2] = GoesOut
    OBVIOUS
<1> HIDE DEF rules
<1>4. \E i \in 1..4 : FirstMatch(rules) = rules[i][2]
    <2>1. 4 \in Nat /\ \E i \in 1..4 : rules[i][1]
        BY <1>2, 4 \in 1..4
    <2> QED BY <1>2, <2>1, FirstRule
<1>5. \/ FirstMatch(rules) = rules[1][2] \/ FirstMatch(rules) = rules[2][2]
      \/ FirstMatch(rules) = rules[3][2] \/ FirstMatch(rules) = rules[4][2]
    BY <1>4
<1> QED BY <1>1, <1>3, <1>5

LEMMA GatewayRefused ==
    ASSUME NEW p, NEW msg
    PROVE  IsRefusal(GatewayRefusal(p, msg))
<1> DEFINE rules == <<
      <<~p.configured, Undeliverable("telegram_token_missing")>>,
      <<~msg.code_valid, Failed("telegram_code_invalid")>>,
      <<~msg.url_ok, Failed("telegram_request_invalid")>>,
      <<TRUE, GoesOut>> >>
<1>1. GatewayRefusal(p, msg) = FirstMatch(rules)
    BY DEF GatewayRefusal
<1>2. Len(rules) = 4 /\ rules[4][1]
    OBVIOUS
<1>3. /\ rules[1][2] = Undeliverable("telegram_token_missing")
      /\ rules[2][2] = Failed("telegram_code_invalid")
      /\ rules[3][2] = Failed("telegram_request_invalid")
      /\ rules[4][2] = GoesOut
    OBVIOUS
<1> HIDE DEF rules
<1>4. \E i \in 1..4 : FirstMatch(rules) = rules[i][2]
    <2>1. 4 \in Nat /\ \E i \in 1..4 : rules[i][1]
        BY <1>2, 4 \in 1..4
    <2> QED BY <1>2, <2>1, FirstRule
<1>5. \/ FirstMatch(rules) = rules[1][2] \/ FirstMatch(rules) = rules[2][2]
      \/ FirstMatch(rules) = rules[3][2] \/ FirstMatch(rules) = rules[4][2]
    BY <1>4
<1> QED BY <1>1, <1>3, <1>5 DEF IsRefusal

LEMMA BotRefused ==
    ASSUME NEW p, NEW msg
    PROVE  IsRefusal(BotRefusal(p, msg))
<1> DEFINE rules == <<
      <<~p.configured, Undeliverable("telegram_bot_not_configured")>>,
      <<~msg.chat_valid, Undeliverable("telegram_bot_chat_invalid")>>,
      <<~msg.url_ok, Failed("telegram_bot_request_invalid")>>,
      <<TRUE, GoesOut>> >>
<1>1. BotRefusal(p, msg) = FirstMatch(rules)
    BY DEF BotRefusal
<1>2. Len(rules) = 4 /\ rules[4][1]
    OBVIOUS
<1>3. /\ rules[1][2] = Undeliverable("telegram_bot_not_configured")
      /\ rules[2][2] = Undeliverable("telegram_bot_chat_invalid")
      /\ rules[3][2] = Failed("telegram_bot_request_invalid")
      /\ rules[4][2] = GoesOut
    OBVIOUS
<1> HIDE DEF rules
<1>4. \E i \in 1..4 : FirstMatch(rules) = rules[i][2]
    <2>1. 4 \in Nat /\ \E i \in 1..4 : rules[i][1]
        BY <1>2, 4 \in 1..4
    <2> QED BY <1>2, <2>1, FirstRule
<1>5. \/ FirstMatch(rules) = rules[1][2] \/ FirstMatch(rules) = rules[2][2]
      \/ FirstMatch(rules) = rules[3][2] \/ FirstMatch(rules) = rules[4][2]
    BY <1>4
<1> QED BY <1>1, <1>3, <1>5 DEF IsRefusal

LEMMA WebPushRefused ==
    ASSUME NEW p, NEW msg
    PROVE  IsRefusal(WebPushRefusal(p, msg))
<1> DEFINE rules == <<
      <<~p.configured, Undeliverable("webpush_not_configured")>>,
      <<~msg.keys_present, Failed("webpush_subscription_invalid")>>,
      <<~msg.endpoint_allowed, Undeliverable("webpush_endpoint_rejected")>>,
      <<TRUE, GoesOut>> >>
<1>1. WebPushRefusal(p, msg) = FirstMatch(rules)
    BY DEF WebPushRefusal
<1>2. Len(rules) = 4 /\ rules[4][1]
    OBVIOUS
<1>3. /\ rules[1][2] = Undeliverable("webpush_not_configured")
      /\ rules[2][2] = Failed("webpush_subscription_invalid")
      /\ rules[3][2] = Undeliverable("webpush_endpoint_rejected")
      /\ rules[4][2] = GoesOut
    OBVIOUS
<1> HIDE DEF rules
<1>4. \E i \in 1..4 : FirstMatch(rules) = rules[i][2]
    <2>1. 4 \in Nat /\ \E i \in 1..4 : rules[i][1]
        BY <1>2, 4 \in 1..4
    <2> QED BY <1>2, <2>1, FirstRule
<1>5. \/ FirstMatch(rules) = rules[1][2] \/ FirstMatch(rules) = rules[2][2]
      \/ FirstMatch(rules) = rules[3][2] \/ FirstMatch(rules) = rules[4][2]
    BY <1>4
<1> QED BY <1>1, <1>3, <1>5 DEF IsRefusal

LEMMA FakeRule ==
    ASSUME NEW p
    PROVE  \/ p.status = "sent" /\ FakeSend(p) = Sent
           \/ p.status = "undeliverable" /\ FakeSend(p) = Undeliverable("provider_not_available")
           \/ p.status \notin {"sent", "undeliverable"} /\ FakeSend(p) = Failed("provider_failed")
<1> DEFINE rules == <<
      <<p.status = "sent", Sent>>,
      <<p.status = "undeliverable", Undeliverable("provider_not_available")>>,
      <<TRUE, Failed("provider_failed")>> >>
<1>1. FakeSend(p) = FirstMatch(rules)
    BY DEF FakeSend
<1>2. Len(rules) = 3
    OBVIOUS
<1>3. /\ rules[1][1] <=> p.status = "sent"
      /\ rules[2][1] <=> p.status = "undeliverable"
      /\ rules[3][1]
    OBVIOUS
<1>4. /\ rules[1][2] = Sent
      /\ rules[2][2] = Undeliverable("provider_not_available")
      /\ rules[3][2] = Failed("provider_failed")
    OBVIOUS
<1> HIDE DEF rules
<1>5. \E i \in 1..3 :
         /\ rules[i][1] /\ \A j \in 1..3 : j < i => ~rules[j][1]
         /\ FirstMatch(rules) = rules[i][2]
    <2>1. 3 \in Nat /\ \E i \in 1..3 : rules[i][1]
        BY <1>3, 3 \in 1..3
    <2> QED BY <1>2, <2>1, FirstRule
<1> QED BY <1>1, <1>3, <1>4, <1>5

-----------------------------------------------------------------------------
(* The classification of an answer and of its absence *)

\* Adapters that contact a service.
RealKinds == {"smtp", "telegram-gateway", "telegram-bot", "webpush"}

LEMMA ClassifyRule ==
    ASSUME Kind \in RealKinds, NEW r \in Answers
    PROVE  \/ Confirms(r) /\ Classify(Kind, r) = Sent
           \/ Refuses(r) /\ Kind # "smtp" /\ \E c : Classify(Kind, r) = Undeliverable(c)
           \/ \E c : Classify(Kind, r) = Failed(c)
<1>1. CASE Kind = "smtp"
    BY <1>1 DEF Confirms, Classify, SMTPAnswer
<1> SUFFICES ASSUME Kind # "smtp"
             PROVE  \/ Confirms(r) /\ Classify(Kind, r) = Sent
                    \/ Refuses(r) /\ \E c : Classify(Kind, r) = Undeliverable(c)
                    \/ \E c : Classify(Kind, r) = Failed(c)
    BY <1>1
<1>2. /\ r.code \in Nat
      /\ r.ok => r.json /\ Success(r.code)
      /\ r.gone => r.json /\ ~r.ok
    BY AdaptersAssumption DEF Answers
<1>3. CASE Kind = "telegram-gateway"
    <2>1. Classify(Kind, r) = GatewayAnswer(r)
        BY <1>3 DEF Classify
    <2>2. r.json /\ r.ok => Confirms(r)
        BY <1>2, <1>3 DEF Confirms
    <2>3. r.json /\ r.code < 500 /\ ~r.ok => Refuses(r)
        BY <1>3 DEF Refuses
    <2> QED BY <1>2, <2>1, <2>2, <2>3, GatewayRule
<1>4. CASE Kind = "telegram-bot"
    <2>1. Classify(Kind, r) = BotAnswer(r)
        BY <1>4 DEF Classify
    <2>2. r.json /\ Success(r.code) /\ r.ok => Confirms(r)
        BY <1>4 DEF Confirms
    <2>3. r.json /\ r.code < 500 /\ (r.code = 403 \/ r.gone) => Refuses(r)
        BY <1>2, <1>4 DEF Refuses
    <2> QED BY <1>2, <2>1, <2>2, <2>3, BotRule
<1>5. CASE Kind = "webpush"
    <2>1. Classify(Kind, r) = WebPushAnswer(r)
        BY <1>5 DEF Classify
    <2>2. Success(r.code) => Confirms(r)
        BY <1>5 DEF Confirms
    <2>3. r.code \in {404, 410} => Refuses(r)
        BY <1>5 DEF Refuses
    <2> QED BY <1>2, <2>1, <2>2, <2>3, WebPushRule
<1> QED BY <1>3, <1>4, <1>5 DEF RealKinds

LEMMA CutOffFails ==
    ASSUME Kind \in {"telegram-gateway", "telegram-bot"}, NEW r \in Answers
    PROVE  \E c : Classify(Kind, [r EXCEPT !.json = FALSE]) = Failed(c)
<1> DEFINE cut == [r EXCEPT !.json = FALSE]
<1>1. r.code \in Nat
    BY AdaptersAssumption DEF Answers
<1>2. "code" \in DOMAIN r /\ "json" \in DOMAIN r
    BY AdaptersAssumption DEF Answers
<1>3. cut.code = r.code /\ ~cut.json
    BY <1>2
<1> HIDE DEF cut
<1>4. Classify(Kind, cut) = GatewayAnswer(cut) \/ Classify(Kind, cut) = BotAnswer(cut)
    BY DEF Classify
<1>5. GatewayAnswer(cut) = Failed("telegram_bad_response")
    BY <1>1, <1>3, GatewayRule
<1>6. BotAnswer(cut) = Failed("telegram_bot_bad_response")
    BY <1>1, <1>3, BotRule
<1>7. \E c : Classify(Kind, cut) = Failed(c)
    BY <1>4, <1>5, <1>6
<1> QED BY <1>7 DEF cut

-----------------------------------------------------------------------------
(* The inductive invariant *)

\* What Send has returned, and what may still become of the message.
Returned ==
    /\ result.status \in {"sent", "undeliverable", "failed"}
    /\ result.status = "sent" => landed
    /\ result.status = "undeliverable" =>
          \/ ~landed /\ (wire => reply # NoReply)
          \/ Kind = "telegram-gateway" /\ result.code = "telegram_unavailable"
    /\ Kind = "smtp" => result.status # "undeliverable"
    /\ Kind = "unavailable" => result.status = "undeliverable"
    /\ Kind = "fake" =>
          result.status = IF call.provider.status = "sent" THEN "sent"
                          ELSE IF call.provider.status = "undeliverable" THEN "undeliverable"
                          ELSE "failed"
    /\ ~wire => (landed <=> result.status = "sent") /\ (landed => Kind = "fake")

\* Only an adapter that contacts a service goes out, and an HTTP request never
\* leaves under a context that had ended; an answer agrees with the service.
AInv ==
    /\ call \in [provider : Providers, message : Messages, early : BOOLEAN]
    /\ phase \in {"new", "out", "returned"}
    /\ ctxDone \in BOOLEAN /\ wire \in BOOLEAN /\ landed \in BOOLEAN
    /\ reply \in Answers \cup {NoReply}
    /\ phase = "new" => ~wire /\ ~landed
    /\ phase = "out" => wire
    /\ phase # "returned" => result = GoesOut
    /\ wire => Kind \in RealKinds /\ (Kind = "smtp" \/ ~call.early)
    /\ call.early => ctxDone
    /\ ~wire => reply = NoReply
    /\ reply # NoReply => (Confirms(reply) => landed) /\ (Refuses(reply) => ~landed)
    /\ phase = "returned" => Returned

LEMMA Statuses ==
    /\ Sent.status = "sent" /\ GoesOut.status = ""
    /\ \A c : Undeliverable(c).status = "undeliverable" /\ Undeliverable(c).code = c
    /\ \A c : Failed(c).status = "failed"
BY DEF Sent, GoesOut, Undeliverable, Failed, Result

LEMMA KnownKinds ==
    ASSUME AInv
    PROVE  Kind \in RealKinds \cup {"fake", "unavailable"}
BY AdaptersAssumption DEF AInv, Kind, Kinds, RealKinds

\* What a local refusal reports, adapter by adapter.
LEMMA RefusalStatus ==
    ASSUME AInv, Refusal # GoesOut
    PROVE  /\ Refusal.status \in {"sent", "undeliverable", "failed"}
           /\ Refusal = Sent \/ Refusal.status # "sent"
           /\ Refusal.status = "sent" => Kind = "fake"
           /\ Kind = "smtp" => Refusal.status # "undeliverable"
           /\ Kind = "unavailable" => Refusal.status = "undeliverable"
           /\ Kind = "fake" =>
                 Refusal.status = IF call.provider.status = "sent" THEN "sent"
                                  ELSE IF call.provider.status = "undeliverable" THEN "undeliverable"
                                  ELSE "failed"
<1> DEFINE p == call.provider
           msg == call.message
<1>1. CASE Kind = "unavailable"
    <2>1. Refusal = Undeliverable(p.code)
        BY <1>1 DEF Refusal, LocalRefusal, Kind, UnavailableSend
    <2> QED BY <1>1, <2>1, Statuses
<1>2. CASE Kind = "fake"
    <2>1. Refusal = FakeSend(p)
        BY <1>2 DEF Refusal, LocalRefusal, Kind
    <2> HIDE DEF p
    <2>2. Refusal.status = IF p.status = "sent" THEN "sent"
                           ELSE IF p.status = "undeliverable" THEN "undeliverable"
                           ELSE "failed"
        BY <2>1, FakeRule, Statuses
    <2>3. Refusal = Sent \/ Refusal.status # "sent"
        BY <2>1, FakeRule, Statuses
    <2> QED BY <1>2, <2>2, <2>3 DEF p
<1>3. CASE Kind = "smtp"
    <2>1. Refusal = SMTPRefusal(p, msg)
        BY <1>3 DEF Refusal, LocalRefusal, Kind
    <2>2. \E c : Refusal = Failed(c)
        BY <2>1, SMTPRefused
    <2> QED BY <1>3, <2>2, Statuses
<1>4. CASE Kind \in RealKinds \ {"smtp"}
    <2>1. \/ Refusal = GatewayRefusal(p, msg)
          \/ Refusal = BotRefusal(p, msg)
          \/ Refusal = WebPushRefusal(p, msg)
        BY <1>4 DEF Refusal, LocalRefusal, Kind, RealKinds
    <2>2. (\E c : Refusal = Undeliverable(c)) \/ (\E c : Refusal = Failed(c))
        BY <2>1, GatewayRefused, BotRefused, WebPushRefused DEF IsRefusal
    <2> QED BY <1>4, <2>2, Statuses DEF RealKinds
<1> QED BY <1>1, <1>2, <1>3, <1>4, KnownKinds

\* An adapter with a service is the only one whose local checks let it go out.
LEMMA GoingOutIsReal ==
    ASSUME AInv, Refusal = GoesOut
    PROVE  Kind \in RealKinds
<1>1. Kind # "unavailable"
    <2> SUFFICES ASSUME Kind = "unavailable" PROVE FALSE
        OBVIOUS
    <2>1. Refusal = Undeliverable(call.provider.code)
        BY DEF Refusal, LocalRefusal, Kind, UnavailableSend
    <2> QED BY <2>1, Statuses
<1>2. Kind # "fake"
    <2> SUFFICES ASSUME Kind = "fake" PROVE FALSE
        OBVIOUS
    <2> DEFINE p == call.provider
    <2>1. Refusal = FakeSend(p)
        BY DEF Refusal, LocalRefusal, Kind
    <2> QED BY <2>1, FakeRule, Statuses
<1> QED BY <1>1, <1>2, KnownKinds

LEMMA AInvInit == Init => AInv
<1> SUFFICES ASSUME Init PROVE AInv
    OBVIOUS
<1>1. call.early \in BOOLEAN
    BY DEF Init
<1> QED BY <1>1 DEF Init, AInv

\* A call, its kind and its adapter's local checks never change.
LEMMA CallStays ==
    ASSUME call' = call
    PROVE  /\ Kind' = Kind /\ Answers' = Answers /\ Refusal' = Refusal
           /\ \A r : Confirms(r)' = Confirms(r) /\ Refuses(r)' = Refuses(r)
BY DEF Kind, Answers, Refusal, Confirms, Refuses

LEMMA RefuseLocallyStep ==
    ASSUME AInv, RefuseLocally
    PROVE  AInv'
<1> USE DEF RefuseLocally
<1>1. /\ Kind' = Kind /\ Answers' = Answers
      /\ \A r : Confirms(r)' = Confirms(r) /\ Refuses(r)' = Refuses(r)
    BY CallStays
<1>2. ~wire' /\ ctxDone' = ctxDone /\ reply' = reply /\ ~wire /\ phase' = "returned"
    BY DEF AInv
<1>3. landed' \in BOOLEAN /\ (landed' <=> result'.status = "sent") /\ (landed' => Kind = "fake")
    BY RefusalStatus, Statuses
<1>4. Returned'
    BY <1>1, <1>2, <1>3, RefusalStatus DEF Returned
<1> QED BY <1>1, <1>2, <1>3, <1>4 DEF AInv

LEMMA GoOutStep ==
    ASSUME AInv, GoOut
    PROVE  AInv'
<1>1. /\ Kind' = Kind /\ Answers' = Answers
      /\ \A r : Confirms(r)' = Confirms(r) /\ Refuses(r)' = Refuses(r)
    BY CallStays DEF GoOut
<1>2. Kind \in RealKinds /\ (Kind = "smtp" \/ ~call.early)
    BY GoingOutIsReal DEF GoOut, AInv
<1> QED BY <1>1, <1>2 DEF GoOut, AInv

\* A result without an answer: nothing is known, except that only the Gateway
\* calls it undeliverable.
LEMMA NoAnswerRule ==
    ASSUME Kind \in RealKinds, NEW expired
    PROVE  \/ \E c : NoAnswerResult(Kind, expired) = Failed(c)
           \/ /\ Kind = "telegram-gateway"
              /\ NoAnswerResult(Kind, expired) = Undeliverable("telegram_unavailable")
BY DEF NoAnswerResult, RealKinds

\* A call that returns while nothing else happens.
LEMMA ReturnStep ==
    ASSUME AInv, phase' = "returned", UNCHANGED <<call, ctxDone, wire, landed, reply>>,
           Kind \in RealKinds, ~wire => ~landed,
           \/ \E c : result' = Failed(c)
           \/ Kind = "telegram-gateway" /\ result' = Undeliverable("telegram_unavailable")
           \/ landed /\ wire /\ result' = Sent
           \/ ~landed /\ reply # NoReply /\ Kind # "smtp" /\ \E c : result' = Undeliverable(c)
    PROVE  AInv'
<1>1. /\ Kind' = Kind /\ Answers' = Answers
      /\ \A r : Confirms(r)' = Confirms(r) /\ Refuses(r)' = Refuses(r)
    BY CallStays
<1>2. Kind # "fake" /\ Kind # "unavailable"
    BY DEF RealKinds
<1>3. \/ result'.status = "failed"
      \/ /\ Kind = "telegram-gateway" /\ result'.status = "undeliverable"
         /\ result'.code = "telegram_unavailable"
      \/ landed /\ wire /\ result'.status = "sent"
      \/ ~landed /\ reply # NoReply /\ Kind # "smtp" /\ result'.status = "undeliverable"
    BY Statuses
<1>4. Returned'
    BY <1>1, <1>2, <1>3 DEF Returned
<1> QED BY <1>1, <1>4 DEF AInv

LEMMA SendSteps ==
    ASSUME AInv,
           GiveUpAtOnce \/ ReturnAnswer \/ ReturnExpired \/ ReturnBroken \/ ReturnCutOff
    PROVE  AInv'
<1>1. CASE GiveUpAtOnce
    <2>1. Kind \in RealKinds /\ ~landed
        BY <1>1, GoingOutIsReal DEF GiveUpAtOnce, AInv
    <2>2. \/ \E c : result' = Failed(c)
          \/ Kind = "telegram-gateway" /\ result' = Undeliverable("telegram_unavailable")
        BY <1>1, <2>1, NoAnswerRule DEF GiveUpAtOnce
    <2> QED BY <1>1, <2>1, <2>2, ReturnStep DEF GiveUpAtOnce
<1>2. ASSUME phase = "out" PROVE Kind \in RealKinds /\ wire
    BY <1>2 DEF AInv
<1>3. CASE ReturnAnswer
    <2>1. Kind \in RealKinds /\ wire /\ reply \in Answers
        BY <1>2, <1>3 DEF ReturnAnswer, AInv
    <2>2. (Confirms(reply) => landed) /\ (Refuses(reply) => ~landed)
        BY <1>3 DEF ReturnAnswer, AInv
    <2>3. \/ landed /\ result' = Sent
          \/ ~landed /\ Kind # "smtp" /\ \E c : result' = Undeliverable(c)
          \/ \E c : result' = Failed(c)
        BY <1>3, <2>1, <2>2, ClassifyRule DEF ReturnAnswer
    <2> QED BY <1>3, <2>1, <2>3, ReturnStep DEF ReturnAnswer
<1>4. CASE ReturnExpired \/ ReturnBroken
    <2>1. Kind \in RealKinds /\ wire
        BY <1>2, <1>4 DEF ReturnExpired, ReturnBroken
    <2>2. \/ \E c : result' = Failed(c)
          \/ Kind = "telegram-gateway" /\ result' = Undeliverable("telegram_unavailable")
        BY <1>4, <2>1, NoAnswerRule DEF ReturnExpired, ReturnBroken
    <2> QED BY <1>4, <2>1, <2>2, ReturnStep DEF ReturnExpired, ReturnBroken
<1>5. CASE ReturnCutOff
    <2>1. Kind \in RealKinds /\ wire /\ reply \in Answers
        BY <1>2, <1>5 DEF ReturnCutOff, AInv
    <2>2. \E c : result' = Failed(c)
        BY <1>5, <2>1, CutOffFails DEF ReturnCutOff
    <2> QED BY <1>5, <2>1, <2>2, ReturnStep DEF ReturnCutOff
<1> QED BY <1>1, <1>3, <1>4, <1>5

LEMMA CtxEndsStep ==
    ASSUME AInv, CtxEnds
    PROVE  AInv'
<1>1. /\ Kind' = Kind /\ Answers' = Answers
      /\ \A r : Confirms(r)' = Confirms(r) /\ Refuses(r)' = Refuses(r)
    BY CallStays DEF CtxEnds
<1> QED BY <1>1 DEF CtxEnds, AInv

\* The service works on, whether Send still waits or not.
LEMMA ServiceStep ==
    ASSUME AInv, ServiceTakes \/ ServiceAnswers
    PROVE  AInv'
<1>1. call' = call
    BY DEF ServiceTakes, ServiceAnswers
<1>2. /\ Kind' = Kind /\ Answers' = Answers
      /\ \A r : Confirms(r)' = Confirms(r) /\ Refuses(r)' = Refuses(r)
    BY <1>1, CallStays
<1>3. /\ wire /\ reply = NoReply
      /\ UNCHANGED <<call, phase, ctxDone, wire, result>>
    BY DEF ServiceTakes, ServiceAnswers
<1>4. Kind # "fake" /\ Kind # "unavailable"
    BY <1>3 DEF AInv, RealKinds
<1>5. CASE ServiceTakes
    <2>1. landed' = TRUE /\ reply' = reply
        BY <1>5 DEF ServiceTakes
    <2>2. phase = "returned" => Returned'
        BY <1>2, <1>3, <1>4, <2>1 DEF AInv, Returned
    <2> QED BY <1>2, <1>3, <2>1, <2>2 DEF AInv
<1>6. CASE ServiceAnswers
    <2>1. PICK r \in Answers : /\ Confirms(r) => landed
                               /\ Refuses(r) => ~landed
                               /\ reply' = r /\ landed' = landed
        BY <1>6 DEF ServiceAnswers
    <2>2. phase = "returned" => Returned'
        BY <1>2, <1>3, <1>4, <2>1 DEF AInv, Returned
    <2> QED BY <1>2, <1>3, <2>1, <2>2 DEF AInv
<1> QED BY <1>5, <1>6

LEMMA AInvStep == AInv /\ [Next]_vars => AInv'
<1> SUFFICES ASSUME AInv, [Next]_vars PROVE AInv'
    OBVIOUS
<1>1. CASE UNCHANGED vars
    <2>1. /\ Kind' = Kind /\ Answers' = Answers
          /\ \A r : Confirms(r)' = Confirms(r) /\ Refuses(r)' = Refuses(r)
        BY <1>1, CallStays DEF vars
    <2>2. Returned => Returned'
        BY <1>1, <2>1 DEF vars, Returned
    <2> QED BY <1>1, <2>1, <2>2 DEF vars, AInv
<1>2. CASE RefuseLocally
    BY <1>2, RefuseLocallyStep
<1>3. CASE GoOut
    BY <1>3, GoOutStep
<1>4. CASE GiveUpAtOnce \/ ReturnAnswer \/ ReturnExpired \/ ReturnBroken \/ ReturnCutOff
    BY <1>4, SendSteps
<1>5. CASE CtxEnds
    BY <1>5, CtxEndsStep
<1>6. CASE ServiceTakes \/ ServiceAnswers
    BY <1>6, ServiceStep
<1> QED BY <1>1, <1>2, <1>3, <1>4, <1>5, <1>6 DEF Next

-----------------------------------------------------------------------------
(* The theorems *)

\* The invariant: an HTTP request never leaves under a context that had ended,
\* an answer agrees with the service, and a result says no more than is known.
THEOREM AInvHolds == Spec => []AInv
<1>1. Init => AInv
    BY AInvInit
<1>2. AInv /\ [Next]_vars => AInv'
    BY AInvStep
<1> QED BY <1>1, <1>2, PTL DEF Spec

\* Every variable keeps its type, and a result is there exactly when Send has
\* returned.
THEOREM AdapterTypes == Spec => []TypeOK
<1>1. AInv => TypeOK
    <2> SUFFICES ASSUME AInv PROVE TypeOK
        OBVIOUS
    <2>1. result.status \in {"", "sent", "undeliverable", "failed"}
        BY Statuses DEF AInv, Returned
    <2>2. (phase = "returned") <=> (result.status # "")
        BY Statuses DEF AInv, Returned
    <2> QED BY <2>1, <2>2 DEF TypeOK, AInv
<1> QED BY <1>1, AInvHolds, PTL

\* "sent" is the service's own confirmation, whatever the timers did, for every
\* adapter, status code and answer.
THEOREM SentWasTaken == Spec => []SentMeansTaken
<1>1. AInv => SentMeansTaken
    BY Statuses DEF AInv, Returned, SentMeansTaken
<1> QED BY <1>1, AInvHolds, PTL

\* After "undeliverable" the message has not been taken and never will be, so
\* the next provider does not make a second copy; a Telegram Gateway that gave
\* no answer is the one exception.
THEOREM UndeliverableWasNotTaken == Spec => []UndeliverableNotTaken
<1>1. AInv => UndeliverableNotTaken
    BY Statuses DEF AInv, Returned, UndeliverableNotTaken
<1> QED BY <1>1, AInvHolds, PTL

LEMMA ContractKept == AInv => KeepsContract
<1> SUFFICES ASSUME AInv, phase = "returned"
             PROVE  \E out \in SendContract(call.provider, call.early) :
                       out.status = result.status /\ out.landed = landed
    BY DEF KeepsContract
<1> DEFINE out(l) == [status |-> result.status, code |-> "error", landed |-> l]
           sent == [status |-> "sent", code |-> "", landed |-> TRUE]
<1>1. Returned /\ landed \in BOOLEAN
    BY DEF AInv
<1>2. result.status = "sent" => sent.status = result.status /\ sent.landed = landed
    BY <1>1 DEF Returned
<1>3. result.status # "sent" => out(landed).status = result.status /\ out(landed).landed = landed
    OBVIOUS
<1>4. ~landed => out(FALSE).status = result.status /\ out(FALSE).landed = landed
    BY <1>1
<1>5. CASE Kind = "unavailable"
    <2>1. result.status = "undeliverable" /\ ~landed
        BY <1>1, <1>5 DEF Returned, AInv, RealKinds
    <2>2. SendContract(call.provider, call.early) = {out(FALSE)}
        BY <1>5, <2>1 DEF SendContract, Kind
    <2> QED BY <1>4, <2>1, <2>2
<1>6. CASE Kind = "fake"
    <2>1. ~wire
        BY <1>6 DEF AInv, RealKinds
    <2>2. landed <=> result.status = "sent"
        BY <1>1, <2>1 DEF Returned
    <2>3. CASE call.provider.status = "sent"
        <3>1. result.status = "sent"
            BY <1>1, <1>6, <2>3 DEF Returned
        <3>2. SendContract(call.provider, call.early) = {sent}
            BY <1>6, <2>3 DEF SendContract, Kind
        <3> QED BY <1>2, <3>1, <3>2
    <2>4. CASE call.provider.status # "sent"
        <3>1. /\ result.status # "sent" /\ ~landed
              /\ result.status = IF call.provider.status = "undeliverable"
                                 THEN "undeliverable" ELSE "failed"
            BY <1>1, <1>6, <2>2, <2>4 DEF Returned
        <3>2. SendContract(call.provider, call.early) = {out(FALSE)}
            BY <1>6, <2>4, <3>1 DEF SendContract, Kind
        <3> QED BY <1>4, <3>1, <3>2
    <2> QED BY <2>3, <2>4
<1>7. CASE Kind = "smtp"
    <2>1. result.status = "sent" \/ result.status = "failed"
        BY <1>1, <1>7 DEF Returned
    <2>2. sent \in SendContract(call.provider, call.early)
        BY <1>7 DEF SendContract, Kind
    <2>3. result.status = "failed" => out(landed) \in SendContract(call.provider, call.early)
        BY <1>1, <1>7 DEF SendContract, Kind
    <2> QED BY <1>2, <1>3, <2>1, <2>2, <2>3
<1>8. CASE Kind \in RealKinds \ {"smtp"}
    <2>1. Kind # "smtp" /\ Kind # "fake" /\ Kind # "unavailable"
        BY <1>8 DEF RealKinds
    <2>2. CASE call.early
        <3>1. ~landed /\ result.status # "sent"
            BY <1>1, <2>1, <2>2 DEF AInv, Returned
        <3>2. result.status = "undeliverable" \/ result.status = "failed"
            BY <1>1, <3>1 DEF Returned
        <3>3. out(FALSE) \in SendContract(call.provider, call.early)
            BY <2>1, <2>2, <3>2 DEF SendContract, Kind
        <3> QED BY <1>4, <3>1, <3>3
    <2>3. CASE ~call.early
        <3>1. sent \in SendContract(call.provider, call.early)
            BY <2>1, <2>3 DEF SendContract, Kind
        <3>2. result.status = "failed" => out(landed) \in SendContract(call.provider, call.early)
            BY <1>1, <2>1, <2>3 DEF SendContract, Kind
        <3>3. result.status = "undeliverable" => out(landed) \in SendContract(call.provider, call.early)
            <4>1. CASE Kind = "telegram-gateway"
                BY <1>1, <4>1, <2>3 DEF SendContract, Kind
            <4>2. CASE Kind # "telegram-gateway"
                <5>1. result.status = "undeliverable" => ~landed
                    BY <1>1, <4>2 DEF Returned
                <5> QED BY <1>1, <4>2, <5>1, <2>1, <2>3 DEF SendContract, Kind
            <4> QED BY <4>1, <4>2
        <3>4. result.status \in {"sent", "undeliverable", "failed"}
            BY <1>1 DEF Returned
        <3> QED BY <1>2, <1>3, <3>1, <3>2, <3>3, <3>4
    <2> QED BY <2>2, <2>3 DEF AInv
<1> QED BY <1>5, <1>6, <1>7, <1>8, KnownKinds

\* The outcomes the orchestrator reckons with are all that an adapter has: the
\* provider of the composed model is a sound abstraction of Send.
THEOREM ContractHolds == Spec => []KeepsContract
BY AInvHolds, ContractKept, PTL
=============================================================================
