------------------------- MODULE OrchestratorProofs -------------------------
(***************************************************************************)
(* Safety of Handle and its idempotency store for every set of requests,   *)
(* channel configuration and provider behaviour.  PolicyProofs says what   *)
(* the plan of a request is; the variable it declares is not used here.    *)
(***************************************************************************)
EXTENDS Orchestrator, PolicyProofs

(***************************************************************************)
(* The inductive invariant.  A worker that walks the plan handles an event *)
(* that its store has not seen (only one request is handled at a time), so *)
(* the one successful Send that ends the walk is the first of its event;   *)
(* and a worker that handles nothing has no trail of Sends.                *)
(***************************************************************************)
WalksUnseen == \A p \in Procs : pc[p] = "walk" => req[p].event_id \notin seen[p]
IdleHasNoTrail == \A p \in Procs : pc[p] \in {"idle", "stopped"} => tried[p] = <<>>

IInv ==
    /\ OrchTypeOK
    /\ OncePerIncarnation
    /\ WalksUnseen
    /\ SentIsTruthful
    /\ IdleHasNoTrail
    /\ StopAtFirstAnswer

-----------------------------------------------------------------------------
(* Lemmas *)

\* A request that is being handled has an event id, and so has a decodable one.
LEMMA EventOfRequest ==
    ASSUME NEW r \in Decodable
    PROVE  r.event_id \in EventIds /\ r \in Requests
  BY DEF Decodable, EventIds

\* Every request asks for names, so its plan is a sequence of names.
LEMMA RequestPlan ==
    ASSUME NEW r \in Requests
    PROVE  Asks(r) /\ Plan(r) \in Seq(STRING)
<1>1. Asks(r)
  BY RequestsAssumption, Zenon DEF Asks
<1> QED BY <1>1, PlanType

\* Reply keeps the shape of the answer: Handle publishes names and statuses.
LEMMA ReplyType ==
    ASSUME NEW p \in Procs, answer \in [Procs -> Answer],
           NEW provider \in Names, NEW attempt \in Nat,
           NEW status \in Statuses, NEW code \in Codes,
           Reply(p, provider, attempt, status, code)
    PROVE  /\ answer' \in [Procs -> Answer]
           /\ pc' = [pc EXCEPT ![p] = "publish"]
           /\ answer'[p].status = status
           /\ \A q \in Procs \ {p} : answer'[q] = answer[q]
  BY DEF Reply, Answer

\* Appending a Send to a trail of undeliverable ones keeps StopAtFirstAnswer's
\* reading of the trail.
LEMMA AppendTrail ==
    ASSUME NEW s \in Seq(Attempt), NEW x \in Attempt,
           \A k \in 1..Len(s) : s[k].status = "undeliverable"
    PROVE  /\ Append(s, x) \in Seq(Attempt)
           /\ \A k \in 1..Len(Append(s, x)) :
                 Append(s, x)[k].status # "undeliverable" => k = Len(Append(s, x))
           /\ x.status = "undeliverable" =>
                 \A k \in 1..Len(Append(s, x)) : Append(s, x)[k].status = "undeliverable"
  OBVIOUS

-----------------------------------------------------------------------------
(* Every step of an incarnation preserves the invariant *)

\* Entering Handle keeps the invariant: the duplicate answer is the only "sent"
\* one, and the store vouches for it.
LEMMA HandlePreserves ==
    ASSUME IInv, NEW p \in Procs, NEW r \in Decodable, Handle(p, r)
    PROVE  IInv'
<1>1. r # NoRequest /\ r.event_id \in EventIds
  BY EventOfRequest, RequestsAssumption
<1>2. CASE HandleDuplicate(p, r)
  <2>1. Reply(p, NoName, 0, "sent", "duplicate_ignored")
    BY <1>2 DEF HandleDuplicate
  <2>2. NoName \in Names /\ "duplicate_ignored" \in Codes /\ "sent" \in Statuses
    BY DEF Names, Codes, Statuses
  <2>3. /\ answer' \in [Procs -> Answer]
        /\ pc' = [pc EXCEPT ![p] = "publish"]
        /\ \A q \in Procs \ {p} : answer'[q] = answer[q]
    BY <2>1, <2>2, ReplyType DEF IInv, OrchTypeOK
  <2>4. OrchTypeOK'
    BY <1>1, <1>2, <2>3 DEF HandleDuplicate, IInv, OrchTypeOK
  <2>5. /\ OncePerIncarnation' /\ WalksUnseen' /\ IdleHasNoTrail' /\ StopAtFirstAnswer'
    BY <1>2, <2>3 DEF HandleDuplicate, IInv, OrchTypeOK, OncePerIncarnation, WalksUnseen,
         IdleHasNoTrail, StopAtFirstAnswer
  <2>6. SentIsTruthful'
    BY <1>1, <1>2, <2>3 DEF HandleDuplicate, Seen, IInv, OrchTypeOK, OncePerIncarnation,
         SentIsTruthful, Answered
  <2> QED BY <2>4, <2>5, <2>6 DEF IInv
<1>3. CASE HandleAborts(p, r)
  <2>1. PICK code \in PreludeErrors(r) : Reply(p, NoName, 0, "failed", code)
    BY <1>3 DEF HandleAborts
  <2>2. NoName \in Names /\ code \in Codes /\ "failed" \in Statuses
    BY DEF Names, Codes, Statuses, PreludeErrors
  <2>3. /\ answer' \in [Procs -> Answer]
        /\ pc' = [pc EXCEPT ![p] = "publish"]
        /\ answer'[p].status = "failed"
        /\ \A q \in Procs \ {p} : answer'[q] = answer[q]
    BY <2>1, <2>2, ReplyType DEF IInv, OrchTypeOK
  <2>4. OrchTypeOK'
    BY <1>1, <1>3, <2>3 DEF HandleAborts, IInv, OrchTypeOK
  <2>5. /\ OncePerIncarnation' /\ WalksUnseen' /\ IdleHasNoTrail' /\ StopAtFirstAnswer'
    BY <1>3, <2>3 DEF HandleAborts, IInv, OrchTypeOK, OncePerIncarnation, WalksUnseen,
         IdleHasNoTrail, StopAtFirstAnswer
  <2>6. SentIsTruthful'
    BY <1>1, <1>3, <2>3 DEF HandleAborts, IInv, OrchTypeOK, SentIsTruthful, Answered
  <2> QED BY <2>4, <2>5, <2>6 DEF IInv
<1>4. CASE HandleBegins(p, r)
  <2>1. OrchTypeOK'
    BY <1>1, <1>4 DEF HandleBegins, IInv, OrchTypeOK
  <2>2. OncePerIncarnation' /\ WalksUnseen' /\ SentIsTruthful'
    BY <1>1, <1>4 DEF HandleBegins, Seen, IInv, OrchTypeOK, OncePerIncarnation, WalksUnseen,
         SentIsTruthful, Answered
  <2>3. IdleHasNoTrail' /\ StopAtFirstAnswer'
    BY <1>1, <1>4 DEF HandleBegins, IInv, OrchTypeOK, IdleHasNoTrail, StopAtFirstAnswer
  <2> QED BY <2>1, <2>2, <2>3 DEF IInv
<1> QED BY <1>2, <1>3, <1>4 DEF Handle

\* Looking at a provider without sending to it: the trail and the memory stay.
LEMMA PassPreserves ==
    ASSUME IInv, NEW p \in Procs, Refuse(p) \/ Skip(p) \/ Exhausted(p)
    PROVE  IInv'
<1>0. /\ pc[p] = "walk" /\ req[p] \in Decodable /\ idx[p] \in Nat
      /\ req[p] \in Requests /\ req[p].selected \in Names /\ Plan(req[p]) \in Seq(STRING)
  BY EventOfRequest, RequestPlan
     DEF IInv, OrchTypeOK, Refuse, Skip, Exhausted, Walking, Decodable, Names
<1>1. CASE Skip(p)
  <2>1. OrchTypeOK'
    BY <1>1 DEF Skip, NextProvider, IInv, OrchTypeOK
  <2>2. /\ OncePerIncarnation' /\ WalksUnseen' /\ SentIsTruthful'
        /\ IdleHasNoTrail' /\ StopAtFirstAnswer'
    BY <1>1 DEF Skip, NextProvider, IInv, OncePerIncarnation, WalksUnseen, SentIsTruthful,
         Answered, IdleHasNoTrail, StopAtFirstAnswer
  <2> QED BY <2>1, <2>2 DEF IInv
<1>2. CASE Refuse(p) \/ Exhausted(p)
  <2>1. \E provider \in Names, attempt \in Nat, status \in Statuses \ {"sent"}, code \in Codes :
           Reply(p, provider, attempt, status, code)
    <3>1. CASE Refuse(p)
      <4>1. Reply(p, Current(p), idx[p], "failed", RefusalCode(req[p], Current(p)))
        BY <3>1 DEF Refuse
      <4>2. Current(p) \in Names /\ RefusalCode(req[p], Current(p)) \in Codes
        BY <1>0, <3>1 DEF Refuse, RefusalCode, Codes
      <4>3. "failed" \in Statuses \ {"sent"}
        BY DEF Statuses
      <4> QED BY <1>0, <4>1, <4>2, <4>3
    <3>2. CASE Exhausted(p)
      <4>1. Reply(p, NoName, Len(Plan(req[p])), "undeliverable", "all_providers_undeliverable")
        BY <3>2 DEF Exhausted
      <4>2. /\ NoName \in Names /\ Len(Plan(req[p])) \in Nat
            /\ "undeliverable" \in Statuses \ {"sent"}
            /\ "all_providers_undeliverable" \in Codes
        BY <1>0 DEF Names, Statuses, Codes
      <4> QED BY <4>1, <4>2
    <3> QED BY <1>2, <3>1, <3>2
  <2>2. /\ answer' \in [Procs -> Answer]
        /\ pc' = [pc EXCEPT ![p] = "publish"]
        /\ answer'[p].status # "sent"
        /\ \A q \in Procs \ {p} : answer'[q] = answer[q]
    <3>1. PICK provider \in Names, attempt \in Nat, status \in Statuses \ {"sent"},
               code \in Codes : Reply(p, provider, attempt, status, code)
      BY <2>1
    <3>2. answer \in [Procs -> Answer]
      BY DEF IInv, OrchTypeOK
    <3> QED BY <3>1, <3>2, ReplyType
  <2>3. UNCHANGED <<req, idx, tried, seen, accepts, copies>>
    BY <1>2 DEF Refuse, Exhausted
  <2>4. OrchTypeOK'
    BY <1>0, <2>2, <2>3 DEF IInv, OrchTypeOK
  <2>5. OncePerIncarnation' /\ WalksUnseen' /\ SentIsTruthful'
    BY <2>2, <2>3 DEF IInv, OrchTypeOK, OncePerIncarnation, WalksUnseen, SentIsTruthful, Answered
  <2>6. IdleHasNoTrail' /\ StopAtFirstAnswer'
    BY <2>2, <2>3 DEF IInv, OrchTypeOK, IdleHasNoTrail, StopAtFirstAnswer
  <2> QED BY <2>4, <2>5, <2>6 DEF IInv
<1> QED BY <1>1, <1>2


\* What RecordSend leaves behind when Send returned with this status.
LEMMA RecordSendFacts ==
    ASSUME IInv, NEW p \in Procs, NEW c \in BOOLEAN, NEW status \in Statuses,
           Walking(p), Usable(req[p], Current(p)),
           NEW out \in SendResults(p, c, status), RecordSend(p, out)
    PROVE  /\ out.code \in Codes
           /\ req' = req
           /\ tried' \in [Procs -> Seq(Attempt)]
           /\ \A q \in Procs \ {p} : tried'[q] = tried[q]
           /\ \A k \in 1..Len(tried'[p]) :
                 tried'[p][k].status # "undeliverable" => k = Len(tried'[p])
           /\ status = "undeliverable" =>
                 \A k \in 1..Len(tried'[p]) : tried'[p][k].status = "undeliverable"
           /\ accepts' = IF status = "sent"
                         THEN [accepts EXCEPT ![p][req[p].event_id] = 1]
                         ELSE accepts
           /\ copies' \in [Procs -> [EventIds -> 0..MaxCopies]]
<1> DEFINE e == req[p].event_id
           x == [at |-> idx[p], provider |-> Current(p), status |-> out.status]
<1>1. /\ req[p] \in Decodable /\ e \in EventIds /\ idx[p] \in Nat
      /\ tried[p] \in Seq(Attempt)
      /\ \A k \in 1..Len(tried[p]) : tried[p][k].status = "undeliverable"
      /\ accepts[p][e] = 0
  BY EventOfRequest DEF IInv, OrchTypeOK, Walking, StopAtFirstAnswer, WalksUnseen,
     OncePerIncarnation
<1>2. out.status = status /\ out \in Registry[Current(p)][c] /\ Current(p) \in DOMAIN Registry
  BY DEF SendResults, Usable
<1>3. out.code \in Codes
  <2>1. out \in Outcomes(Current(p))
    BY <1>2 DEF Outcomes
  <2>2. out.code \in ProviderCodes
    BY <1>2, <2>1 DEF ProviderCodes
  <2> QED BY <2>2 DEF Codes
<1>4. out.landed \in BOOLEAN
  BY <1>2, RegistryAssumption DEF Outcome
<1>5. x \in Attempt /\ x.status = status
  BY <1>1, <1>2 DEF Attempt
<1>6. tried' = [tried EXCEPT ![p] = Append(tried[p], x)] /\ req' = req
  BY DEF RecordSend
<1>7. tried' \in [Procs -> Seq(Attempt)] /\ tried'[p] = Append(tried[p], x)
  BY <1>1, <1>5, <1>6, AppendTrail DEF IInv, OrchTypeOK
<1>8. /\ \A k \in 1..Len(tried'[p]) :
            tried'[p][k].status # "undeliverable" => k = Len(tried'[p])
      /\ status = "undeliverable" =>
            \A k \in 1..Len(tried'[p]) : tried'[p][k].status = "undeliverable"
  BY <1>1, <1>5, <1>7, AppendTrail
<1>9. accepts' = IF status = "sent" THEN [accepts EXCEPT ![p][e] = 1] ELSE accepts
  <2>1. accepts' = [accepts EXCEPT ![p][e] = IF out.status = "sent" THEN @ + 1 ELSE @]
    BY DEF RecordSend
  <2>2. accepts \in [Procs -> [EventIds -> Nat]]
    BY DEF IInv, OrchTypeOK
  <2>3. CASE status = "sent"
    BY <1>1, <1>2, <2>1, <2>2, <2>3
  <2>4. CASE status # "sent"
    <3>1. accepts' = [accepts EXCEPT ![p] = [accepts[p] EXCEPT ![e] = accepts[p][e]]]
      BY <1>2, <2>1, <2>4
    <3>2. [accepts[p] EXCEPT ![e] = accepts[p][e]] = accepts[p]
      BY <1>1, <2>2
    <3>3. accepts' = accepts
      BY <2>2, <3>1, <3>2
    <3> QED BY <2>4, <3>3
  <2> QED BY <2>3, <2>4
<1>10. copies' \in [Procs -> [EventIds -> 0..MaxCopies]]
  BY <1>1, <1>4 DEF RecordSend, IInv, OrchTypeOK, MaxCopies
<1> QED BY <1>3, <1>6, <1>7, <1>8, <1>9, <1>10 DEF IInv, OrchTypeOK

\* After a Send that ends the walk nothing else changes what the trails say.
LEMMA TrailPublished ==
    ASSUME IInv, NEW p \in Procs,
           pc' = [pc EXCEPT ![p] = "publish"],
           \A q \in Procs \ {p} : tried'[q] = tried[q],
           \A k \in 1..Len(tried'[p]) :
              tried'[p][k].status # "undeliverable" => k = Len(tried'[p])
    PROVE  IdleHasNoTrail' /\ StopAtFirstAnswer'
<1>1. pc'[p] = "publish" /\ \A q \in Procs \ {p} : pc'[q] = pc[q]
  BY DEF IInv, OrchTypeOK
<1>2. IdleHasNoTrail'
  BY <1>1 DEF IInv, IdleHasNoTrail
<1>3. ASSUME NEW q \in Procs
      PROVE  /\ \A k \in 1..Len(tried'[q]) :
                   tried'[q][k].status # "undeliverable" => k = Len(tried'[q])
             /\ pc'[q] = "walk" =>
                   \A k \in 1..Len(tried'[q]) : tried'[q][k].status = "undeliverable"
  <2>1. CASE q = p
    BY <1>1, <2>1
  <2>2. CASE q # p
    <3>1. pc'[q] = pc[q] /\ tried'[q] = tried[q]
      BY <1>1, <2>2
    <3> QED BY <3>1 DEF IInv, StopAtFirstAnswer
  <2> QED BY <2>1, <2>2
<1>4. StopAtFirstAnswer'
  BY <1>3 DEF StopAtFirstAnswer
<1> QED BY <1>2, <1>4

\* A turn of the loop that sends keeps the invariant: an event is marked exactly
\* when a Send reported it as sent.
LEMMA SendPreserves ==
    ASSUME IInv, NEW p \in Procs, NEW c \in BOOLEAN,
           SendSent(p, c) \/ SendUndeliverable(p, c) \/ SendFailed(p, c)
    PROVE  IInv'
<1> DEFINE e == req[p].event_id
<1>0. /\ pc[p] = "walk" /\ req[p] \in Decodable /\ e \in EventIds /\ idx[p] \in Nat
      /\ e \notin seen[p] /\ accepts[p][e] = 0
      /\ Walking(p) /\ Usable(req[p], Current(p)) /\ Current(p) \in Names
      /\ {"sent", "undeliverable", "failed"} = Statuses
  BY EventOfRequest DEF IInv, OrchTypeOK, SendSent, SendUndeliverable, SendFailed, Walking,
     Usable, WalksUnseen, OncePerIncarnation, Names, Statuses
<1>1. CASE SendSent(p, c)
  <2>1. PICK out \in SendResults(p, c, "sent") : RecordSend(p, out)
    BY <1>1 DEF SendSent
  <2>2. Reply(p, Current(p), idx[p], "sent", "") /\ idx' = idx
        /\ seen' = [seen EXCEPT ![p] = @ \cup {e}] /\ "" \in Codes
    BY <1>1 DEF SendSent, Mark, Codes
  <2>3. /\ answer' \in [Procs -> Answer]
        /\ pc' = [pc EXCEPT ![p] = "publish"]
        /\ \A q \in Procs \ {p} : answer'[q] = answer[q]
    BY <1>0, <2>2, ReplyType DEF IInv, OrchTypeOK
  <2>4. /\ req' = req
        /\ tried' \in [Procs -> Seq(Attempt)]
        /\ \A q \in Procs \ {p} : tried'[q] = tried[q]
        /\ \A k \in 1..Len(tried'[p]) :
              tried'[p][k].status # "undeliverable" => k = Len(tried'[p])
        /\ accepts' = [accepts EXCEPT ![p][e] = 1]
        /\ copies' \in [Procs -> [EventIds -> 0..MaxCopies]]
    BY <1>0, <2>1, RecordSendFacts
  <2>5. OrchTypeOK'
    BY <1>0, <2>2, <2>3, <2>4 DEF IInv, OrchTypeOK
  <2>6. OncePerIncarnation'
    <3>1. /\ seen'[p] = seen[p] \cup {e}
          /\ accepts'[p] = [accepts[p] EXCEPT ![e] = 1]
          /\ \A q \in Procs \ {p} : seen'[q] = seen[q] /\ accepts'[q] = accepts[q]
          /\ accepts[p] \in [EventIds -> Nat]
      BY <2>2, <2>4 DEF IInv, OrchTypeOK
    <3>2. \A d \in EventIds : accepts'[p][d] = IF d \in seen'[p] THEN 1 ELSE 0
      BY <3>1 DEF IInv, OncePerIncarnation
    <3>3. \A q \in Procs \ {p}, d \in EventIds :
             accepts'[q][d] = IF d \in seen'[q] THEN 1 ELSE 0
      BY <3>1 DEF IInv, OncePerIncarnation
    <3> QED BY <3>2, <3>3 DEF OncePerIncarnation
  <2>7. WalksUnseen'
    <3>1. ASSUME NEW q \in Procs, pc'[q] = "walk"
          PROVE  req'[q].event_id \notin seen'[q]
      <4>1. q # p /\ pc[q] = "walk"
        BY <2>3, <3>1 DEF IInv, OrchTypeOK
      <4>2. seen'[q] = seen[q]
        BY <2>2, <4>1 DEF IInv, OrchTypeOK
      <4> QED BY <2>4, <4>1, <4>2 DEF IInv, WalksUnseen
    <3> QED BY <3>1 DEF WalksUnseen
  <2>8. SentIsTruthful'
    <3>1. accepts'[p][e] = 1 /\ \A q \in Procs \ {p} : accepts'[q] = accepts[q]
      BY <1>0, <2>4 DEF IInv, OrchTypeOK
    <3>2. \A q \in Procs \ {p} : pc'[q] = pc[q]
      BY <2>3 DEF IInv, OrchTypeOK
    <3> QED BY <2>3, <2>4, <3>1, <3>2 DEF IInv, SentIsTruthful, Answered
  <2>9. IdleHasNoTrail' /\ StopAtFirstAnswer'
    BY <2>3, <2>4, TrailPublished
  <2> QED BY <2>5, <2>6, <2>7, <2>8, <2>9 DEF IInv
<1>2. CASE SendUndeliverable(p, c) \/ SendFailed(p, c)
  <2>0. PICK status \in {"undeliverable", "failed"} :
           \E out \in SendResults(p, c, status) :
              /\ RecordSend(p, out)
              /\ \/ status = "undeliverable" /\ NextProvider(p)
                 \/ Reply(p, Current(p), idx[p], status, out.code) /\ UNCHANGED idx
    BY <1>2 DEF SendUndeliverable, SendFailed
  <2>1. PICK out \in SendResults(p, c, status) :
           /\ RecordSend(p, out)
           /\ \/ status = "undeliverable" /\ NextProvider(p)
              \/ Reply(p, Current(p), idx[p], status, out.code) /\ UNCHANGED idx
    BY <2>0
  <2>2. seen' = seen
    BY <1>2 DEF SendUndeliverable, SendFailed
  <2>3. /\ out.code \in Codes /\ req' = req
        /\ tried' \in [Procs -> Seq(Attempt)]
        /\ \A q \in Procs \ {p} : tried'[q] = tried[q]
        /\ \A k \in 1..Len(tried'[p]) :
              tried'[p][k].status # "undeliverable" => k = Len(tried'[p])
        /\ status = "undeliverable" =>
              \A k \in 1..Len(tried'[p]) : tried'[p][k].status = "undeliverable"
        /\ accepts' = accepts
        /\ copies' \in [Procs -> [EventIds -> 0..MaxCopies]]
    BY <1>0, <2>1, RecordSendFacts
  <2>4. CASE NextProvider(p) /\ status = "undeliverable"
    <3>1. pc' = pc /\ answer' = answer /\ idx' \in [Procs -> Nat]
      BY <2>4 DEF NextProvider, IInv, OrchTypeOK
    <3>2. OrchTypeOK'
      BY <2>2, <2>3, <3>1 DEF IInv, OrchTypeOK
    <3>3. OncePerIncarnation' /\ WalksUnseen' /\ SentIsTruthful'
      BY <2>2, <2>3, <3>1 DEF IInv, OncePerIncarnation, WalksUnseen, SentIsTruthful, Answered
    <3>4. IdleHasNoTrail'
      BY <1>0, <2>3, <3>1 DEF IInv, OrchTypeOK, IdleHasNoTrail
    <3>5. StopAtFirstAnswer'
      <4>1. \A k \in 1..Len(tried'[p]) : tried'[p][k].status = "undeliverable"
        BY <2>3, <2>4
      <4>2. \A q \in Procs \ {p} : pc'[q] = pc[q] /\ tried'[q] = tried[q]
        BY <2>3, <3>1
      <4> QED BY <4>1, <4>2 DEF IInv, StopAtFirstAnswer
    <3> QED BY <3>2, <3>3, <3>4, <3>5 DEF IInv
  <2>5. CASE Reply(p, Current(p), idx[p], status, out.code) /\ UNCHANGED idx
    <3>1. /\ answer' \in [Procs -> Answer]
          /\ pc' = [pc EXCEPT ![p] = "publish"]
          /\ answer'[p].status # "sent"
          /\ \A q \in Procs \ {p} : answer'[q] = answer[q]
      <4>1. /\ status \in Statuses /\ status # "sent" /\ Current(p) \in Names
            /\ idx[p] \in Nat /\ out.code \in Codes /\ answer \in [Procs -> Answer]
        BY <1>0, <2>0, <2>3 DEF IInv, OrchTypeOK
      <4> QED BY <2>5, <4>1, ReplyType
    <3>2. OrchTypeOK'
      BY <1>0, <2>2, <2>3, <2>5, <3>1 DEF IInv, OrchTypeOK
    <3>3. OncePerIncarnation' /\ WalksUnseen' /\ SentIsTruthful'
      BY <2>2, <2>3, <3>1 DEF IInv, OrchTypeOK, OncePerIncarnation, WalksUnseen,
         SentIsTruthful, Answered
    <3>4. IdleHasNoTrail' /\ StopAtFirstAnswer'
      BY <2>3, <3>1, TrailPublished
    <3> QED BY <3>2, <3>3, <3>4 DEF IInv
  <2> QED BY <2>1, <2>4, <2>5
<1> QED BY <1>1, <1>2

\* Publishing changes where Handle is and nothing else.
LEMMA PublishPreserves ==
    ASSUME IInv, NEW p \in Procs, NEW ok \in BOOLEAN, PublishReturns(p, ok)
    PROVE  IInv'
<1>1. pc' \in [Procs -> {"idle", "walk", "publish", "done", "error", "stopped"}]
      /\ pc[p] = "publish" /\ pc'[p] \in {"done", "error"}
      /\ \A q \in Procs \ {p} : pc'[q] = pc[q]
  BY DEF PublishReturns, IInv, OrchTypeOK
<1>2. UNCHANGED <<req, idx, tried, answer, seen, accepts, copies>>
  BY DEF PublishReturns
<1>3. OrchTypeOK'
  BY <1>1, <1>2 DEF IInv, OrchTypeOK
<1>4. OncePerIncarnation'
  BY <1>2 DEF IInv, OncePerIncarnation
<1>5. WalksUnseen'
  BY <1>1, <1>2 DEF IInv, WalksUnseen
<1>6. SentIsTruthful'
  BY <1>1, <1>2 DEF IInv, SentIsTruthful, Answered
<1>7. IdleHasNoTrail'
  BY <1>1, <1>2 DEF IInv, IdleHasNoTrail
<1>8. StopAtFirstAnswer'
  <2>1. \A q \in Procs : pc'[q] = "walk" => pc[q] = "walk"
    BY <1>1
  <2> QED BY <1>2, <2>1 DEF IInv, StopAtFirstAnswer
<1> QED BY <1>3, <1>4, <1>5, <1>6, <1>7, <1>8 DEF IInv

\* Returning to the caller or dying clears the stack and keeps the memory.
LEMMA ForgetPreserves ==
    ASSUME IInv, NEW p \in Procs, NEW next \in {"idle", "stopped"}, Forget(p, next)
    PROVE  IInv'
<1>1. NoAnswer \in Answer
  BY DEF NoAnswer, Answer, Names, Codes
<1>2. OrchTypeOK'
  BY <1>1 DEF Forget, IInv, OrchTypeOK
<1>3. OncePerIncarnation' /\ WalksUnseen' /\ SentIsTruthful'
  BY DEF Forget, IInv, OrchTypeOK, OncePerIncarnation, WalksUnseen, SentIsTruthful, Answered
<1>4. IdleHasNoTrail' /\ StopAtFirstAnswer'
  BY DEF Forget, IInv, OrchTypeOK, IdleHasNoTrail, StopAtFirstAnswer
<1> QED BY <1>2, <1>3, <1>4 DEF IInv

-----------------------------------------------------------------------------
(* The invariant, and what follows *)

\* Nothing has been sent and nothing is marked when the incarnations start.
LEMMA InitEstablishes ==
    ASSUME OrchInit
    PROVE  IInv
<1>1. NoAnswer \in Answer
  BY DEF NoAnswer, Answer, Names, Codes
<1>2. OrchTypeOK
  BY <1>1 DEF OrchInit, OrchTypeOK, MaxCopies
<1>3. /\ OncePerIncarnation /\ WalksUnseen /\ SentIsTruthful
      /\ IdleHasNoTrail /\ StopAtFirstAnswer
  BY DEF OrchInit, OncePerIncarnation, WalksUnseen, SentIsTruthful, Answered, IdleHasNoTrail,
     StopAtFirstAnswer
<1> QED BY <1>2, <1>3 DEF IInv

\* Every action of the orchestrator's machine preserves the invariant.
LEMMA NextPreserves ==
    ASSUME IInv, [OrchNext]_orchVars
    PROVE  IInv'
<1>1. CASE UNCHANGED orchVars
  BY <1>1 DEF orchVars, IInv, OrchTypeOK, OncePerIncarnation, WalksUnseen, SentIsTruthful,
     Answered, IdleHasNoTrail, StopAtFirstAnswer
<1>2. CASE OrchNext
  <2>1. PICK p \in Procs : \/ \E r \in Decodable : Handle(p, r)
                           \/ Progress(p)
                           \/ Stop(p)
    BY <1>2 DEF OrchNext
  <2>2. CASE \E r \in Decodable : Handle(p, r)
    BY <2>2, HandlePreserves
  <2>3. CASE \E c \in BOOLEAN : Walk(p, c)
    BY <2>3, PassPreserves, SendPreserves DEF Walk
  <2>4. CASE \E ok \in BOOLEAN : PublishReturns(p, ok)
    BY <2>4, PublishPreserves
  <2>5. CASE Return(p)
    BY <2>5, ForgetPreserves DEF Return
  <2>6. CASE Stop(p)
    BY <2>6, ForgetPreserves DEF Stop
  <2> QED BY <2>1, <2>2, <2>3, <2>4, <2>5, <2>6 DEF Progress
<1> QED BY <1>1, <1>2

\* The inductive invariant holds: every step of every incarnation preserves it.
THEOREM Invariance == OrchSpec => []IInv
  BY InitEstablishes, NextPreserves, PTL DEF OrchSpec

\* What is published always has one of the three statuses.
StatusGiven == \A p \in Procs : Answered(p) => answer[p].status \in Statuses

\* Handle never publishes an answer without one of the three statuses.
LEMMA StatusStep ==
    ASSUME IInv, StatusGiven, [OrchNext]_orchVars
    PROVE  StatusGiven'
<1>1. CASE UNCHANGED orchVars
  BY <1>1 DEF orchVars, StatusGiven, Answered
<1>2. ASSUME NEW p \in Procs, NEW provider, NEW attempt, NEW status \in Statuses, NEW code,
             Reply(p, provider, attempt, status, code)
      PROVE  StatusGiven'
  BY <1>2 DEF Reply, StatusGiven, Answered, IInv, OrchTypeOK
<1>3. ASSUME NEW p \in Procs, answer' = answer, ~Answered(p)' \/ Answered(p),
             \A q \in Procs \ {p} : pc'[q] = pc[q]
      PROVE  StatusGiven'
  BY <1>3 DEF StatusGiven, Answered
<1>4. ASSUME NEW p \in Procs, NEW r \in Decodable, Handle(p, r)
      PROVE  StatusGiven'
  <2>1. {"sent", "failed"} \subseteq Statuses
    BY DEF Statuses
  <2>2. CASE HandleBegins(p, r)
    BY <1>3, <2>2 DEF HandleBegins, Answered, IInv, OrchTypeOK
  <2> QED BY <1>2, <1>4, <2>1, <2>2 DEF Handle, HandleDuplicate, HandleAborts
<1>5. ASSUME NEW p \in Procs, NEW c \in BOOLEAN, Walk(p, c)
      PROVE  StatusGiven'
  <2>1. Statuses = {"sent", "undeliverable", "failed"}
    BY DEF Statuses
  <2>2. CASE NextProvider(p)
    BY <1>3, <2>2 DEF NextProvider, Answered, IInv, OrchTypeOK
  <2> QED BY <1>2, <1>5, <2>1, <2>2 DEF Walk, Refuse, Skip, SendSent, SendUndeliverable,
             SendFailed, Exhausted
<1>6. ASSUME NEW p \in Procs, NEW ok \in BOOLEAN, PublishReturns(p, ok)
      PROVE  StatusGiven'
  BY <1>3, <1>6 DEF PublishReturns, Answered, IInv, OrchTypeOK
<1>7. ASSUME NEW p \in Procs, NEW next \in {"idle", "stopped"}, Forget(p, next)
      PROVE  StatusGiven'
  BY <1>7 DEF Forget, StatusGiven, Answered, IInv, OrchTypeOK
<1> QED BY <1>1, <1>4, <1>5, <1>6, <1>7 DEF OrchNext, Progress, Return, Stop

\* No result is published with an empty or unknown status.
THEOREM StatusInvariance == OrchSpec => []StatusGiven
<1>1. OrchInit => StatusGiven
  BY DEF OrchInit, StatusGiven, Answered
<1> QED BY <1>1, Invariance, StatusStep, PTL DEF OrchSpec

\* Every variable of Handle and of the idempotency store keeps its shape, for
\* any requests, channels and providers.
THEOREM TypeCorrect == OrchSpec => []OrchTypeOK
  BY Invariance, PTL DEF IInv

\* One incarnation reports an event as sent by a provider at most once, for any
\* number of redeliveries, publish failures and fallbacks.
THEOREM DeliveredOncePerIncarnation == OrchSpec => []OncePerIncarnation
  BY Invariance, PTL DEF IInv

\* A "sent" result is only given for an event that a provider accepted.
THEOREM SentResultsAreTruthful == OrchSpec => []SentIsTruthful
  BY Invariance, PTL DEF IInv

\* Nothing but "undeliverable" makes Handle go on to a further provider.
THEOREM FallbackOnlyAfterUndeliverable == OrchSpec => []StopAtFirstAnswer
  BY Invariance, PTL DEF IInv

-----------------------------------------------------------------------------
(***************************************************************************)
(* The walk through the provider plan and the result that is published of  *)
(* it agree, for every plan, policy, registry and provider behaviour:      *)
(* nobody usable is passed over, nobody else is contacted, and the result  *)
(* tells what the last Send said.  The trail of Sends is compared with the *)
(* plan position by position.                                              *)
(***************************************************************************)
Active(p) == pc[p] \notin {"idle", "stopped"}

\* Every usable position that was passed has its Send.
Complete(p) ==
    \A i \in 1..Len(Plan(req[p])) :
       i < idx[p] /\ Usable(req[p], Plan(req[p])[i]) =>
          \E k \in 1..Len(tried[p]) : tried[p][k].at = i

\* Every Send was to a usable position, in order, and ahead of the next one.
Sound(p) ==
    /\ \A k \in 1..Len(tried[p]) :
          LET i == tried[p][k].at IN
          /\ i \in 1..Len(Plan(req[p])) /\ i <= idx[p]
          /\ pc[p] = "walk" => i < idx[p]
          /\ tried[p][k].provider = Plan(req[p])[i]
          /\ Usable(req[p], tried[p][k].provider)
    /\ \A j, k \in 1..Len(tried[p]) : j < k => tried[p][j].at < tried[p][k].at

\* What the published result says of the trail.
Agrees(p) ==
    LET a == answer[p]
        n == Len(tried[p])
    IN /\ a.attempt > 0 /\ a.provider # NoName => a.provider = Plan(req[p])[a.attempt]
       /\ n > 0 /\ tried[p][n].status # "undeliverable" =>
             /\ a.status = tried[p][n].status
             /\ a.attempt = tried[p][n].at
       /\ a.status = "sent" /\ a.code # "duplicate_ignored" =>
             n > 0 /\ tried[p][n].status = "sent"

PositionStarted(p) == IF Active(p) THEN pc[p] = "walk" => idx[p] >= 1 ELSE idx[p] = 0

TrailInv(p) ==
    /\ PositionStarted(p)
    /\ Active(p) => Complete(p) /\ Sound(p)
    /\ Answered(p) => Agrees(p)

Trails == \A p \in Procs : TrailInv(p)

-----------------------------------------------------------------------------
(* Steps *)

\* What is left of one incarnation's state says nothing of another's.
LEMMA OthersKeepTrail ==
    ASSUME NEW q \in Procs, TrailInv(q), pc'[q] = pc[q], req'[q] = req[q], idx'[q] = idx[q],
           tried'[q] = tried[q], answer'[q] = answer[q]
    PROVE  TrailInv(q)'
  BY DEF TrailInv, Active, PositionStarted, Complete, Sound, Agrees, Answered

LEMMA HandleKeepsTrail ==
    ASSUME IInv, Trails, NEW p \in Procs, NEW r \in Decodable, Handle(p, r)
    PROVE  Trails'
<1>1. /\ pc[p] = "idle" /\ tried' = tried /\ tried[p] = <<>> /\ idx[p] = 0
      /\ req' = [req EXCEPT ![p] = r]
  BY DEF Handle, HandleDuplicate, HandleAborts, HandleBegins, IInv, IdleHasNoTrail, Trails, TrailInv, Active, PositionStarted
<1>2. /\ \A q \in Procs \ {p} : req'[q] = req[q] /\ tried'[q] = tried[q]
      /\ req'[p] = r /\ Plan(r) \in Seq(STRING)
  BY <1>1, EventOfRequest, RequestPlan DEF IInv, OrchTypeOK
<1>3. CASE HandleBegins(p, r)
  <2>1. /\ pc'[p] = "walk" /\ idx'[p] = 1
        /\ \A q \in Procs \ {p} : pc'[q] = pc[q] /\ idx'[q] = idx[q] /\ answer'[q] = answer[q]
    BY <1>3 DEF HandleBegins, IInv, OrchTypeOK
  <2>2. TrailInv(p)'
    BY <1>1, <1>2, <2>1 DEF TrailInv, Active, PositionStarted, Complete, Sound, Answered
  <2>3. \A q \in Procs \ {p} : TrailInv(q)'
    BY <1>2, <2>1, OthersKeepTrail DEF Trails
  <2> QED BY <2>2, <2>3 DEF Trails
<1>4. CASE HandleDuplicate(p, r) \/ HandleAborts(p, r)
  <2>1. PICK status, code :
           /\ Reply(p, NoName, 0, status, code)
           /\ status = "sent" => code = "duplicate_ignored"
    BY <1>4 DEF HandleDuplicate, HandleAborts
  <2>2. /\ pc'[p] = "publish" /\ idx' = idx
        /\ answer'[p] = [provider |-> NoName, attempt |-> 0, status |-> status, code |-> code]
        /\ \A q \in Procs \ {p} : pc'[q] = pc[q] /\ answer'[q] = answer[q]
    BY <1>4, <2>1 DEF HandleDuplicate, HandleAborts, Reply, IInv, OrchTypeOK
  <2>3. Len(tried'[p]) = 0
    BY <1>1
  <2>4. TrailInv(p)'
    BY <1>1, <1>2, <2>1, <2>2, <2>3 DEF TrailInv, Active, PositionStarted, Complete, Sound, Answered, Agrees
  <2>5. \A q \in Procs \ {p} : TrailInv(q)'
    BY <1>2, <2>2, OthersKeepTrail DEF Trails
  <2> QED BY <2>4, <2>5 DEF Trails
<1> QED BY <1>3, <1>4 DEF Handle

\* A turn of the loop without a Send: the position is passed because nobody
\* usable is there, or the walk ends with a result of its own.
LEMMA PassKeepsTrail ==
    ASSUME IInv, Trails, NEW p \in Procs, Refuse(p) \/ Skip(p) \/ Exhausted(p)
    PROVE  Trails'
<1>1. /\ pc[p] = "walk" /\ UNCHANGED <<req, tried>> /\ idx[p] \in Nat
      /\ \A k \in 1..Len(tried[p]) : tried[p][k].status = "undeliverable"
      /\ Complete(p) /\ Sound(p) /\ Len(tried[p]) \in Nat
  <2>1. pc[p] = "walk" /\ UNCHANGED <<req, tried>>
    BY DEF Refuse, Skip, Exhausted, Walking
  <2>2. /\ idx[p] \in Nat /\ tried[p] \in Seq(Attempt)
        /\ \A k \in 1..Len(tried[p]) : tried[p][k].status = "undeliverable"
    BY <2>1 DEF IInv, OrchTypeOK, StopAtFirstAnswer
  <2>3. Complete(p) /\ Sound(p)
    BY <2>1 DEF Trails, TrailInv, Active
  <2> QED BY <2>1, <2>2, <2>3
<1>2. CASE Skip(p)
  <2>1. /\ pc' = pc /\ answer' = answer /\ idx'[p] = idx[p] + 1 /\ ~Usable(req[p], Plan(req[p])[idx[p]])
        /\ \A q \in Procs \ {p} : idx'[q] = idx[q]
    BY <1>2 DEF Skip, NextProvider, Current, IInv, OrchTypeOK
  <2>2. TrailInv(p)'
    <3>1. Complete(p)'
      <4> SUFFICES ASSUME NEW i \in 1..Len(Plan(req[p])), i < idx[p] + 1, Usable(req[p], Plan(req[p])[i])
                   PROVE  \E k \in 1..Len(tried[p]) : tried[p][k].at = i
        BY <1>1, <2>1 DEF Complete
      <4>1. i # idx[p] /\ i < idx[p]
        BY <1>1, <2>1
      <4> QED BY <1>1, <4>1 DEF Complete
    <3>2. Sound(p)'
      <4> SUFFICES ASSUME NEW k \in 1..Len(tried[p])
                   PROVE  LET i == tried[p][k].at IN
                          /\ i \in 1..Len(Plan(req[p])) /\ i <= idx[p] + 1 /\ i < idx[p] + 1
                          /\ tried[p][k].provider = Plan(req[p])[i]
                          /\ Usable(req[p], tried[p][k].provider)
        BY <1>1, <2>1 DEF Sound
      <4> QED BY <1>1 DEF Sound
    <3> QED BY <1>1, <2>1, <3>1, <3>2 DEF TrailInv, Active, Answered, PositionStarted
  <2>3. \A q \in Procs \ {p} : TrailInv(q)'
    BY <1>1, <2>1, OthersKeepTrail DEF Trails
  <2> QED BY <2>2, <2>3 DEF Trails
<1>3. CASE Refuse(p) \/ Exhausted(p)
  <2>1. PICK provider, attempt, status, code :
           /\ Reply(p, provider, attempt, status, code)
           /\ status # "sent"
           /\ provider # NoName => provider = Plan(req[p])[attempt]
    <3>2. CASE Refuse(p)
      <4>1. /\ Reply(p, Current(p), idx[p], "failed", RefusalCode(req[p], Current(p)))
            /\ Current(p) = Plan(req[p])[idx[p]]
        BY <3>2 DEF Refuse, Current
      <4> QED BY <4>1
    <3>3. CASE Exhausted(p)
      <4>1. Reply(p, NoName, Len(Plan(req[p])), "undeliverable", "all_providers_undeliverable")
        BY <3>3 DEF Exhausted
      <4> QED BY <4>1
    <3> QED BY <1>3, <3>2, <3>3
  <2>2. /\ pc'[p] = "publish" /\ idx' = idx
        /\ answer'[p] = [provider |-> provider, attempt |-> attempt, status |-> status, code |-> code]
        /\ \A q \in Procs \ {p} : pc'[q] = pc[q] /\ answer'[q] = answer[q]
    BY <1>3, <2>1 DEF Refuse, Exhausted, Reply, IInv, OrchTypeOK
  <2>3. Complete(p)' /\ Sound(p)'
    BY <1>1, <2>2 DEF Complete, Sound
  <2>4. Agrees(p)'
    BY <1>1, <2>1, <2>2 DEF Agrees
  <2>5. TrailInv(p)'
    BY <2>2, <2>3, <2>4 DEF TrailInv, Active, PositionStarted
  <2>6. \A q \in Procs \ {p} : TrailInv(q)'
    BY <1>1, <2>2, OthersKeepTrail DEF Trails
  <2> QED BY <2>5, <2>6 DEF Trails
<1> QED BY <1>2, <1>3

\* The Send at the current position is the last entry of a trail that stays
\* sound, and closes the gap at that position.
LEMMA SendExtendsTrail ==
    ASSUME IInv, Trails, NEW p \in Procs, Walking(p), Usable(req[p], Current(p)), NEW out, RecordSend(p, out)
    PROVE  LET t == tried'[p]
               n == Len(t)
               plan == Plan(req[p])
           IN /\ req' = req /\ n > 0 /\ n \in Nat
              /\ t[n].at = idx[p] /\ t[n].status = out.status
              /\ \A q \in Procs \ {p} : tried'[q] = tried[q]
              /\ \A k \in 1..n :
                    /\ t[k].at \in 1..Len(plan) /\ t[k].at <= idx[p]
                    /\ t[k].provider = plan[t[k].at] /\ Usable(req[p], t[k].provider)
              /\ \A j, k \in 1..n : j < k => t[j].at < t[k].at
              /\ \A i \in 1..Len(plan) : i <= idx[p] /\ Usable(req[p], plan[i]) =>
                    \E k \in 1..n : t[k].at = i
<1> DEFINE plan == Plan(req[p])
           s == tried[p]
           x == [at |-> idx[p], provider |-> Current(p), status |-> out.status]
           t == tried'[p]
<1>1. s \in Seq(Attempt) /\ idx[p] \in Nat /\ req[p] \in Decodable
  BY EventOfRequest DEF IInv, OrchTypeOK, Walking
<1>2. idx[p] \in 1..Len(plan)
  <2>1. plan \in Seq(STRING)
    BY <1>1, EventOfRequest, RequestPlan
  <2>2. idx[p] >= 1
    <3>1. pc[p] = "walk"
      BY DEF Walking
    <3> QED BY <1>1, <3>1 DEF Trails, TrailInv, PositionStarted, Active
  <2> QED BY <1>1, <2>1, <2>2 DEF Walking
<1>3. Complete(p) /\ Sound(p) /\ pc[p] = "walk"
  BY DEF Walking, Trails, TrailInv, Active
<1>4. t = Append(s, x) /\ req' = req /\ \A q \in Procs \ {p} : tried'[q] = tried[q]
  BY DEF RecordSend, IInv, OrchTypeOK
<1>5. /\ Len(t) = Len(s) + 1 /\ Len(s) \in Nat
      /\ t[Len(t)] = x /\ \A k \in 1..Len(s) : t[k] = s[k]
  BY <1>1, <1>4
<1>6. Current(p) = plan[idx[p]]
  BY DEF Current
<1>7. x.at = idx[p] /\ x.provider = Current(p) /\ x.status = out.status
  OBVIOUS
<1> HIDE DEF x, t, s, plan
<1>8. /\ \A k \in 1..Len(s) : /\ s[k].at \in 1..Len(plan) /\ s[k].at < idx[p]
                              /\ s[k].provider = plan[s[k].at] /\ Usable(req[p], s[k].provider)
      /\ \A j, k \in 1..Len(s) : j < k => s[j].at < s[k].at
  BY <1>3 DEF Sound, s, plan
<1>9. \A i \in 1..Len(plan) : i < idx[p] /\ Usable(req[p], plan[i]) => \E k \in 1..Len(s) : s[k].at = i
  BY <1>3 DEF Complete, s, plan
<1>10. \A k \in 1..Len(t) : k = Len(t) \/ k \in 1..Len(s)
  BY <1>5
<1>11. /\ \A k \in 1..Len(t) : /\ t[k].at \in 1..Len(plan) /\ t[k].at <= idx[p]
                               /\ t[k].provider = plan[t[k].at] /\ Usable(req[p], t[k].provider)
  BY <1>1, <1>2, <1>5, <1>6, <1>7, <1>8, <1>10
<1>12. \A j, k \in 1..Len(t) : j < k => t[j].at < t[k].at
  <2> SUFFICES ASSUME NEW j \in 1..Len(t), NEW k \in 1..Len(t), j < k PROVE t[j].at < t[k].at
    OBVIOUS
  <2>1. j \in 1..Len(s)
    BY <1>5
  <2>2. CASE k = Len(t)
    <3>1. t[k].at = idx[p] /\ t[j].at = s[j].at
      BY <1>5, <1>7, <2>1, <2>2
    <3> QED BY <1>8, <2>1, <3>1
  <2>3. CASE k \in 1..Len(s)
    BY <1>5, <1>8, <2>1, <2>3
  <2> QED BY <1>10, <2>2, <2>3
<1>13. \A i \in 1..Len(plan) : i <= idx[p] /\ Usable(req[p], plan[i]) => \E k \in 1..Len(t) : t[k].at = i
  <2> SUFFICES ASSUME NEW i \in 1..Len(plan), i <= idx[p], Usable(req[p], plan[i])
               PROVE  \E k \in 1..Len(t) : t[k].at = i
    OBVIOUS
  <2>1. CASE i = idx[p]
    <3>1. Len(t) \in 1..Len(t) /\ t[Len(t)].at = i
      BY <1>5, <1>7, <2>1
    <3> QED BY <3>1
  <2>2. CASE i # idx[p]
    <3>1. PICK k \in 1..Len(s) : s[k].at = i
      BY <1>1, <1>9, <2>2
    <3>2. k \in 1..Len(t) /\ t[k].at = i
      BY <1>5, <3>1
    <3> QED BY <3>2
  <2> QED BY <2>1, <2>2
<1> QED BY <1>4, <1>5, <1>7, <1>11, <1>12, <1>13 DEF t, plan

LEMMA SendKeepsTrail ==
    ASSUME IInv, Trails, NEW p \in Procs, NEW c \in BOOLEAN,
           SendSent(p, c) \/ SendUndeliverable(p, c) \/ SendFailed(p, c)
    PROVE  Trails'
<1>1. PICK status, out :
         /\ out.status = status /\ RecordSend(p, out)
         /\ \/ status = "undeliverable" /\ NextProvider(p)
            \/ \E code : Reply(p, Current(p), idx[p], status, code) /\ UNCHANGED idx
  BY DEF SendSent, SendUndeliverable, SendFailed, SendResults
<1>2. Walking(p) /\ Usable(req[p], Current(p)) /\ idx[p] \in Nat /\ pc[p] = "walk"
  BY DEF SendSent, SendUndeliverable, SendFailed, Walking, IInv, OrchTypeOK
<1> DEFINE t == tried'[p]
           plan == Plan(req[p])
<1>3. /\ req' = req /\ Len(t) > 0 /\ Len(t) \in Nat
      /\ t[Len(t)].at = idx[p] /\ t[Len(t)].status = status
      /\ \A q \in Procs \ {p} : tried'[q] = tried[q]
      /\ \A k \in 1..Len(t) :
            /\ t[k].at \in 1..Len(plan) /\ t[k].at <= idx[p]
            /\ t[k].provider = plan[t[k].at] /\ Usable(req[p], t[k].provider)
      /\ \A j, k \in 1..Len(t) : j < k => t[j].at < t[k].at
      /\ \A i \in 1..Len(plan) : i <= idx[p] /\ Usable(req[p], plan[i]) => \E k \in 1..Len(t) : t[k].at = i
  BY <1>1, <1>2, SendExtendsTrail
<1>4. CASE status = "undeliverable" /\ NextProvider(p)
  <2>1. /\ pc' = pc /\ answer' = answer /\ idx'[p] = idx[p] + 1
        /\ \A q \in Procs \ {p} : idx'[q] = idx[q]
    BY <1>4 DEF NextProvider, IInv, OrchTypeOK
  <2>2. Complete(p)'
    BY <1>2, <1>3, <2>1 DEF Complete
  <2>3. Sound(p)'
    <3>1. \A k \in 1..Len(t) : t[k].at <= idx[p] + 1 /\ t[k].at < idx[p] + 1
      BY <1>2, <1>3
    <3> QED BY <1>3, <2>1, <3>1 DEF Sound
  <2>4. TrailInv(p)'
    BY <1>2, <2>1, <2>2, <2>3 DEF TrailInv, Active, Answered, PositionStarted
  <2>5. \A q \in Procs \ {p} : TrailInv(q)'
    BY <1>3, <2>1, OthersKeepTrail DEF Trails
  <2> QED BY <2>4, <2>5 DEF Trails
<1>5. CASE \E code : Reply(p, Current(p), idx[p], status, code) /\ UNCHANGED idx
  <2>1. PICK code : Reply(p, Current(p), idx[p], status, code) /\ UNCHANGED idx
    BY <1>5
  <2>2. /\ pc'[p] = "publish"
        /\ answer'[p] = [provider |-> Current(p), attempt |-> idx[p], status |-> status, code |-> code]
        /\ \A q \in Procs \ {p} : pc'[q] = pc[q] /\ answer'[q] = answer[q]
    BY <2>1 DEF Reply, IInv, OrchTypeOK
  <2>3. Complete(p)' /\ Sound(p)'
    <3>1. Complete(p)'
      BY <1>2, <1>3, <2>1 DEF Complete
    <3>2. Sound(p)'
      BY <1>3, <2>1, <2>2 DEF Sound
    <3> QED BY <3>1, <3>2
  <2>4. Agrees(p)'
    BY <1>3, <2>2 DEF Agrees, Current
  <2>5. TrailInv(p)'
    BY <2>2, <2>3, <2>4 DEF TrailInv, Active, PositionStarted
  <2>6. \A q \in Procs \ {p} : TrailInv(q)'
    BY <1>3, <2>1, <2>2, OthersKeepTrail DEF Trails
  <2> QED BY <2>5, <2>6 DEF Trails
<1> QED BY <1>1, <1>4, <1>5

\* Publishing and forgetting: the trail stays as it is, or goes with its request.
LEMMA LeaveKeepsTrail ==
    ASSUME IInv, Trails, NEW p \in Procs,
           (\E ok \in BOOLEAN : PublishReturns(p, ok)) \/ Return(p) \/ Stop(p)
    PROVE  Trails'
<1>1. CASE \E ok \in BOOLEAN : PublishReturns(p, ok)
  <2>1. /\ pc[p] = "publish" /\ pc'[p] \in {"done", "error"}
        /\ \A q \in Procs \ {p} : pc'[q] = pc[q]
        /\ UNCHANGED <<req, idx, tried, answer>>
    BY <1>1 DEF PublishReturns, IInv, OrchTypeOK
  <2>2. TrailInv(p)'
    BY <2>1 DEF Trails, TrailInv, Active, Complete, Sound, Agrees, Answered, PositionStarted
  <2>3. \A q \in Procs \ {p} : TrailInv(q)'
    BY <2>1, OthersKeepTrail DEF Trails
  <2> QED BY <2>2, <2>3 DEF Trails
<1>2. CASE Return(p) \/ Stop(p)
  <2>1. PICK next \in {"idle", "stopped"} : Forget(p, next)
    BY <1>2 DEF Return, Stop
  <2>2. /\ pc'[p] = next /\ idx'[p] = 0
        /\ \A q \in Procs \ {p} :
              pc'[q] = pc[q] /\ req'[q] = req[q] /\ idx'[q] = idx[q] /\ tried'[q] = tried[q] /\ answer'[q] = answer[q]
    BY <2>1 DEF Forget, IInv, OrchTypeOK
  <2>3. TrailInv(p)'
    BY <2>2 DEF TrailInv, Active, Answered, PositionStarted
  <2>4. \A q \in Procs \ {p} : TrailInv(q)'
    BY <2>2, OthersKeepTrail DEF Trails
  <2> QED BY <2>3, <2>4 DEF Trails
<1> QED BY <1>1, <1>2

LEMMA TrailsStep ==
    ASSUME IInv, Trails, [OrchNext]_orchVars
    PROVE  Trails'
<1>1. CASE UNCHANGED orchVars
  BY <1>1, OthersKeepTrail DEF orchVars, Trails
<1>2. CASE OrchNext
  BY <1>2, HandleKeepsTrail, PassKeepsTrail, SendKeepsTrail, LeaveKeepsTrail DEF OrchNext, Progress, Walk
<1> QED BY <1>1, <1>2

-----------------------------------------------------------------------------
(* What follows *)

\* Plan, trail and answer agree whenever a request is being handled.
THEOREM TrailsHold == OrchSpec => []Trails
<1>1. OrchInit => Trails
  BY DEF OrchInit, Trails, TrailInv, Active, Answered, PositionStarted
<1> QED BY <1>1, Invariance, TrailsStep, PTL DEF OrchSpec

\* The result Handle publishes tells what the last Send said, of whom and at
\* which place of the plan.
THEOREM ResultsMatchTheTrail == OrchSpec => []AnswerMatchesTrail
<1>1. Trails => AnswerMatchesTrail
  BY DEF Trails, TrailInv, Agrees, AnswerMatchesTrail
<1> QED BY <1>1, TrailsHold, PTL

\* Every usable provider of the plan has its turn, in order, and nobody else:
\* the loop of Handle skips what is not allowed or not registered, only that.
THEOREM EverybodyHasTheirTurn == OrchSpec => []NobodyPassedOver
<1>1. IInv /\ Trails => NobodyPassedOver
  <2> SUFFICES ASSUME IInv, Trails, NEW p \in Procs, Active(p)
               PROVE  LET plan == Plan(req[p])
                          Done == {i \in 1..Len(plan) : i < idx[p] /\ Usable(req[p], plan[i])}
                          At == {tried[p][k].at : k \in 1..Len(tried[p])}
                      IN /\ Done \subseteq At
                         /\ At \subseteq Done \cup {idx[p]}
                         /\ \A k \in 1..Len(tried[p]) :
                               /\ tried[p][k].provider = plan[tried[p][k].at]
                               /\ Usable(req[p], tried[p][k].provider)
                               /\ \A j \in 1..(k - 1) : tried[p][j].at < tried[p][k].at
    BY DEF NobodyPassedOver, Active
  <2>1. Complete(p) /\ Sound(p) /\ idx[p] \in Nat /\ Len(tried[p]) \in Nat
    BY DEF Trails, TrailInv, IInv, OrchTypeOK
  <2>2. {i \in 1..Len(Plan(req[p])) : i < idx[p] /\ Usable(req[p], Plan(req[p])[i])}
           \subseteq {tried[p][k].at : k \in 1..Len(tried[p])}
    BY <2>1 DEF Complete
  <2>3. ASSUME NEW k \in 1..Len(tried[p])
        PROVE  /\ tried[p][k].provider = Plan(req[p])[tried[p][k].at]
               /\ Usable(req[p], tried[p][k].provider)
               /\ tried[p][k].at \in 1..Len(Plan(req[p]))
               /\ tried[p][k].at < idx[p] \/ tried[p][k].at = idx[p]
               /\ \A j \in 1..(k - 1) : tried[p][j].at < tried[p][k].at
    <3>1. /\ tried[p][k].at \in 1..Len(Plan(req[p])) /\ tried[p][k].at <= idx[p]
          /\ tried[p][k].provider = Plan(req[p])[tried[p][k].at]
          /\ Usable(req[p], tried[p][k].provider)
      BY <2>1 DEF Sound
    <3>2. \A j \in 1..(k - 1) : j \in 1..Len(tried[p]) /\ j < k
      BY <2>1
    <3>3. \A j \in 1..(k - 1) : tried[p][j].at < tried[p][k].at
      BY <2>1, <3>2 DEF Sound
    <3> QED BY <2>1, <3>1, <3>3
  <2> QED BY <2>2, <2>3
<1> QED BY <1>1, Invariance, TrailsHold, PTL

-----------------------------------------------------------------------------
(***************************************************************************)
(* The plan of a selection names nobody twice and starts with the selected *)
(* provider.  The walk leaves its first position only after a Send, since  *)
(* an unusable selection is refused and not skipped; so whoever else is    *)
(* contacted comes after the selected provider.                            *)
(***************************************************************************)
SelectionUsable(p) ==
    Active(p) /\ req[p].selected # NoName /\ idx[p] > 1 => Usable(req[p], req[p].selected)

SelectionsUsable == \A p \in Procs : SelectionUsable(p)

\* A request that is being handled is decodable, so its plan is known.
LEMMA ActiveRequest ==
    ASSUME IInv, NEW p \in Procs, Active(p)
    PROVE  req[p] \in Requests /\ req[p] # NoRequest /\ Asks(req[p])
<1>1. req[p] \in Decodable
  BY DEF IInv, OrchTypeOK, Active
<1> QED BY <1>1, EventOfRequest, RequestPlan, RequestsAssumption

\* At its first position the walk looks at the selected provider, so it goes on
\* only if that one is usable; afterwards the request does not change.
LEMMA SelectionUsableStep ==
    ASSUME IInv, Trails, SelectionsUsable, [OrchNext]_orchVars
    PROVE  SelectionsUsable'
<1>1. CASE UNCHANGED orchVars
  BY <1>1 DEF orchVars, SelectionsUsable, SelectionUsable, Active
<1>2. ASSUME NEW p \in Procs, NEW q \in Procs, q # p, NEW next,
             pc' = [pc EXCEPT ![p] = next] \/ pc' = pc, req'[q] = req[q], idx'[q] = idx[q]
      PROVE  SelectionUsable(q)'
  BY <1>2 DEF SelectionsUsable, SelectionUsable, Active, IInv, OrchTypeOK
<1>3. ASSUME NEW p \in Procs, NEW r \in Decodable, Handle(p, r)
      PROVE  SelectionsUsable'
  <2>1. /\ req' = [req EXCEPT ![p] = r]
        /\ idx' = idx \/ idx' = [idx EXCEPT ![p] = 1]
        /\ pc[p] = "idle" /\ \E next : pc' = [pc EXCEPT ![p] = next]
    BY <1>3 DEF Handle, HandleDuplicate, HandleAborts, HandleBegins, Reply
  <2>2. idx[p] = 0
    BY <2>1 DEF Trails, TrailInv, Active, PositionStarted
  <2>3. ~(idx'[p] > 1)
    BY <2>1, <2>2 DEF IInv, OrchTypeOK
  <2>4. \A q \in Procs \ {p} : req'[q] = req[q] /\ idx'[q] = idx[q]
    BY <2>1 DEF IInv, OrchTypeOK
  <2>5. \A q \in Procs \ {p} : SelectionUsable(q)'
    BY <1>2, <2>1, <2>4
  <2> QED BY <2>3, <2>5 DEF SelectionsUsable, SelectionUsable
<1>4. ASSUME NEW p \in Procs, NEW c \in BOOLEAN, Walk(p, c)
      PROVE  SelectionsUsable'
  <2>1. /\ req' = req /\ pc[p] = "walk"
        /\ \E next : pc' = [pc EXCEPT ![p] = next] \/ pc' = pc
        /\ \/ idx' = idx
           \/ /\ NextProvider(p) /\ Walking(p)
              /\ Usable(req[p], Current(p)) \/ req[p].selected # Current(p)
    BY <1>4 DEF Walk, Refuse, Skip, SendSent, SendUndeliverable, SendFailed, Exhausted, Reply,
       RecordSend, NextProvider, Walking
  <2>2. /\ \A q \in Procs \ {p} : idx'[q] = idx[q]
        /\ \A q \in Procs \ {p} : SelectionUsable(q)'
    <3>1. \A q \in Procs \ {p} : idx'[q] = idx[q]
      BY <2>1 DEF NextProvider, IInv, OrchTypeOK
    <3> QED BY <1>2, <2>1, <3>1
  <2>3. SelectionUsable(p)'
    <3>1. CASE idx' = idx
      BY <2>1, <3>1 DEF SelectionsUsable, SelectionUsable, Active
    <3>2. CASE /\ NextProvider(p)
               /\ Usable(req[p], Current(p)) \/ req[p].selected # Current(p)
      <4>1. idx'[p] = idx[p] + 1 /\ idx[p] \in Nat /\ idx[p] >= 1
        BY <2>1, <3>2 DEF NextProvider, IInv, OrchTypeOK, Trails, TrailInv, PositionStarted, Active
      <4>2. SUFFICES ASSUME req[p].selected # NoName PROVE Usable(req[p], req[p].selected)
        BY <2>1 DEF SelectionUsable
      <4>3. CASE idx[p] = 1
        <5>1. Plan(req[p])[1] = req[p].selected
          BY <2>1, <4>2, ActiveRequest, SelectedComesFirst DEF Active
        <5> QED BY <3>2, <4>3, <5>1 DEF Current
      <4>4. CASE idx[p] > 1
        BY <2>1, <4>2, <4>4 DEF SelectionsUsable, SelectionUsable, Active
      <4> QED BY <4>1, <4>3, <4>4
    <3> QED BY <2>1, <3>1, <3>2
  <2> QED BY <2>2, <2>3 DEF SelectionsUsable
<1>5. ASSUME NEW p \in Procs, NEW ok \in BOOLEAN, PublishReturns(p, ok)
      PROVE  SelectionsUsable'
  BY <1>5 DEF PublishReturns, SelectionsUsable, SelectionUsable, Active, IInv, OrchTypeOK
<1>6. ASSUME NEW p \in Procs, NEW next, Forget(p, next)
      PROVE  SelectionsUsable'
  <2>1. /\ pc' = [pc EXCEPT ![p] = next] /\ idx'[p] = 0
        /\ \A q \in Procs \ {p} : req'[q] = req[q] /\ idx'[q] = idx[q]
    BY <1>6 DEF Forget, IInv, OrchTypeOK
  <2>2. \A q \in Procs \ {p} : SelectionUsable(q)'
    BY <1>2, <2>1
  <2> QED BY <2>1, <2>2 DEF SelectionsUsable, SelectionUsable
<1> QED BY <1>1, <1>3, <1>4, <1>5, <1>6 DEF OrchNext, Progress, Return, Stop

\* The selected provider of a request is the first to be contacted and, without
\* allow_fallback, the only one; nobody is contacted twice.
THEOREM SelectionsAreRespected == OrchSpec => []SelectionRespected
<1>1. OrchInit => SelectionsUsable
  BY DEF OrchInit, SelectionsUsable, SelectionUsable, Active
<1>2. IInv /\ Trails /\ SelectionsUsable => SelectionRespected
  <2> SUFFICES ASSUME IInv, Trails, SelectionsUsable,
                      NEW p \in Procs, req[p] # NoRequest, req[p].selected # NoName
               PROVE  /\ \A j, k \in 1..Len(tried[p]) :
                            j # k => tried[p][j].provider # tried[p][k].provider
                      /\ tried[p] # <<>> => tried[p][1].provider = req[p].selected
                      /\ ~req[p].fallback => Len(tried[p]) <= 1
    BY DEF SelectionRespected
  <2> DEFINE plan == Plan(req[p])
             t == tried[p]
  <2>1. Active(p) /\ t \in Seq(Attempt) /\ Len(t) \in Nat /\ idx[p] \in Nat
    BY DEF Active, IInv, OrchTypeOK
  <2>2. /\ Len(plan) \in Nat \ {0} /\ plan[1] = req[p].selected
        /\ \A i, j \in 1..Len(plan) : i # j => plan[i] # plan[j]
        /\ ~req[p].fallback => Len(plan) = 1
    BY <2>1, ActiveRequest, SelectedComesFirst
  <2>3. /\ \A k \in 1..Len(t) :
              /\ t[k].at \in 1..Len(plan) /\ t[k].at <= idx[p]
              /\ t[k].provider = plan[t[k].at]
        /\ \A j, k \in 1..Len(t) : j < k => t[j].at < t[k].at
    BY <2>1 DEF Trails, TrailInv, Sound
  <2>4. Usable(req[p], plan[1]) /\ 1 < idx[p] => \E k \in 1..Len(t) : t[k].at = 1
    BY <2>1, <2>2 DEF Trails, TrailInv, Complete
  <2>5. idx[p] > 1 => Usable(req[p], plan[1])
    BY <2>1, <2>2 DEF SelectionsUsable, SelectionUsable
  <2> HIDE DEF plan, t
  <2>6. \A j, k \in 1..Len(t) : j # k => t[j].at # t[k].at
    <3>1. ASSUME NEW j \in 1..Len(t), NEW k \in 1..Len(t), j # k
          PROVE  t[j].at # t[k].at
      <4>1. j < k \/ k < j
        BY <2>1, <3>1
      <4> QED BY <2>2, <2>3, <4>1
    <3> QED BY <3>1
  <2>7. \A j, k \in 1..Len(t) : j # k => t[j].provider # t[k].provider
    BY <2>2, <2>3, <2>6
  <2>8. t # <<>> => t[1].provider = req[p].selected
    <3> SUFFICES ASSUME t # <<>> PROVE t[1].at = 1
      <4>1. t # <<>> => 1 \in 1..Len(t)
        BY <2>1
      <4> QED BY <2>2, <2>3, <4>1
    <3>1. 1 \in 1..Len(t)
      BY <2>1
    <3>2. CASE idx[p] > 1
      <4>1. PICK k \in 1..Len(t) : t[k].at = 1
        BY <2>1, <2>4, <2>5, <3>2
      <4>2. k = 1 \/ 1 < k
        BY <2>1
      <4>3. t[1].at \in Nat /\ t[1].at >= 1
        BY <2>2, <2>3, <3>1
      <4>4. CASE 1 < k
        <5>1. t[1].at < 1
          BY <2>3, <3>1, <4>1, <4>4
        <5> QED BY <4>3, <5>1
      <4> QED BY <4>1, <4>2, <4>4
    <3>3. CASE ~(idx[p] > 1)
      BY <2>1, <2>2, <2>3, <3>1, <3>3
    <3> QED BY <3>2, <3>3
  <2>9. ~req[p].fallback => Len(t) <= 1
    <3> SUFFICES ASSUME Len(plan) = 1, Len(t) > 1 PROVE FALSE
      BY <2>1, <2>2
    <3>1. 1 \in 1..Len(t) /\ 2 \in 1..Len(t) /\ 1 < 2
      BY <2>1
    <3>2. t[1].at \in 1..1 /\ t[2].at \in 1..1
      BY <2>3, <3>1
    <3> QED BY <2>6, <3>1, <3>2
  <2> QED BY <2>7, <2>8, <2>9 DEF t
<1> QED BY <1>1, <1>2, Invariance, TrailsHold, SelectionUsableStep, PTL DEF OrchSpec
=============================================================================
