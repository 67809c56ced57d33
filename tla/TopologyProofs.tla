--------------------------- MODULE TopologyProofs ----------------------------
(***************************************************************************)
(* No request is dropped, no result missed and nothing dead comes back, for*)
(* any number of services, clients and producers and any number of faults. *)
(*                                                                         *)
(* The three promises hang together: a request is kept because whoever     *)
(* publishes has declared the queue before and because no client publishes *)
(* what a worker would reject; a result is not missed because it cannot    *)
(* have been produced before the request was; a rejected request stays     *)
(* dead because its key is none of the request queue's.                    *)
(***************************************************************************)
EXTENDS BrokerTopology, TLAPS

Senders == Clients \cup Foreign
Keys == {RequestKey, ResultKey, DeadLetterKey}

\* What a declaration has left behind is there for good: services and clients
\* only ever take away the clients' own queues.
DeclaredInv ==
    \A a \in Actors :
       /\ setup[a] >= 1 => exchange
       /\ setup[a] >= 2 => "dlq" \in queues
       /\ setup[a] >= 3 => <<"dlq", DeadLetterKey>> \in bindings
       /\ setup[a] >= 4 => "requests" \in queues
       /\ setup[a] >= 5 => <<"requests", RequestKey>> \in bindings

\* The request queue is bound under one key.
OneKey == \A b \in bindings : b[1] = "requests" => b[2] = RequestKey

\* Who has been through what: a request is published at most once, before it is
\* answered or rejected, and by a client only if a worker will decode it.
HistoryInv ==
    /\ answered \subseteq published /\ rejected \subseteq published /\ published \subseteq Senders
    /\ \A c \in Clients : at[c] \in {"start", "setup", "publish"} => c \notin published
    /\ \A c \in Clients : at[c] \in {"setup", "publish"} \/ c \in published => Decodes(c)
    /\ \A r \in rejected : ~Decodes(r)

\* A client that will wait, or waits, has its queue bound.
BoundInv ==
    \A c \in Clients : at[c] \in {"publish", "wait"} => c \in queues /\ <<c, ResultKey>> \in bindings

\* With a fanout exchange a dead letter is a request again, keys or no keys.
DeadInv == ExchangeKind # "fanout" => DeadLettersStayDead

Promises == RequestIsKept /\ NoResultMissed /\ DeadInv
TInv == TypeOK /\ DeclaredInv /\ OneKey /\ HistoryInv /\ BoundInv /\ Promises

LEMMA KeysDiffer == RequestKey # ResultKey /\ RequestKey # DeadLetterKey
BY DEF RequestKey, ResultKey, DeadLetterKey

LEMMA AcceptedDecodes == \A c \in Clients : Accepted(Options[c]) => Decodes(c)
BY DEF Accepted, Decodes, Policy!DecodeRequest, BuildRequest

LEMMA ActorsDiffer ==
    /\ \A c \in Clients : c \notin Services /\ c \notin Foreign /\ c # "requests" /\ c # "dlq"
    /\ Waiting \subseteq Clients
BY TopologyAssumption DEF TopologyAssumption, Waiting

LEMMA RoutedAt ==
    ASSUME NEW old, NEW key, NEW msg, NEW q \in QueueNames
    PROVE  /\ old[q] \subseteq Routed(old, key, msg)[q]
           /\ Routed(old, key, msg)[q] \subseteq old[q] \cup {msg}
           /\ q \in queues /\ Routes(q, key) => msg \in Routed(old, key, msg)[q]
           /\ ~Routes(q, key) => Routed(old, key, msg)[q] = old[q]
BY DEF Routed

LEMMA WithoutAt ==
    ASSUME content \in [QueueNames -> SUBSET ({"request", "result", "garbage"} \X Senders)],
           NEW q \in QueueNames, NEW msg
    PROVE  /\ Without(q, msg) \in [QueueNames -> SUBSET ({"request", "result", "garbage"} \X Senders)]
           /\ Without(q, msg)[q] = content[q] \ {msg}
           /\ \A p \in QueueNames \ {q} : Without(q, msg)[p] = content[p]
BY DEF Without

LEMMA RoutedTypes ==
    ASSUME NEW old \in [QueueNames -> SUBSET ({"request", "result", "garbage"} \X Senders)],
           NEW key, NEW kind \in {"request", "result", "garbage"}, NEW r \in Senders
    PROVE  Routed(old, key, <<kind, r>>) \in [QueueNames -> SUBSET ({"request", "result", "garbage"} \X Senders)]
BY DEF Routed

LEMMA TInvInit == Init => TInv
<1> SUFFICES ASSUME Init PROVE TInv
    OBVIOUS
<1>1. TypeOK
    <2>1. exchange \in BOOLEAN /\ queues \subseteq QueueNames
          /\ bindings \subseteq QueueNames \X {RequestKey, ResultKey, DeadLetterKey}
        BY DEF Init
    <2>2. content \in [QueueNames -> SUBSET ({"request", "result", "garbage"} \X (Clients \cup Foreign))]
        BY DEF Init
    <2>3. at \in [Actors -> {"start", "setup"}] /\ setup \in [Actors -> {0}]
        BY DEF Init
    <2>4. {0} \subseteq 0..SetupSteps
        BY DEF SetupSteps
    <2> QED BY <2>1, <2>2, <2>3, <2>4 DEF TypeOK
<1>2. DeclaredInv /\ OneKey /\ HistoryInv /\ BoundInv /\ Promises
    BY ActorsDiffer DEF Init, DeclaredInv, OneKey, HistoryInv, BoundInv, Actors,
       Promises, RequestIsKept, NoResultMissed, DeadInv, DeadLettersStayDead
<1> QED BY <1>1, <1>2 DEF TInv

LEMMA DeclareStep == \A a \in Actors : TInv /\ Declare(a) => TInv'
<1> SUFFICES ASSUME NEW a \in Actors, TInv, Declare(a) PROVE TInv'
    OBVIOUS
<1>1. setup[a] \in 0..4 /\ at[a] = "setup" /\ setup' = [setup EXCEPT ![a] = @ + 1]
      /\ setup[a] + 1 \in 0..5
    BY DEF TInv, TypeOK, Declare, SetupSteps
<1>2. /\ queues \subseteq queues' /\ queues' \subseteq queues \cup {"dlq", "requests"}
      /\ bindings \subseteq bindings'
      /\ bindings' \subseteq bindings \cup {<<"dlq", DeadLetterKey>>, <<"requests", RequestKey>>}
      /\ exchange => exchange'
      /\ setup[a] = 0 => exchange'
      /\ setup[a] = 1 => "dlq" \in queues'
      /\ setup[a] = 2 => <<"dlq", DeadLetterKey>> \in bindings'
      /\ setup[a] = 3 => "requests" \in queues'
      /\ setup[a] = 4 => <<"requests", RequestKey>> \in bindings'
      /\ exchange' \in BOOLEAN
      /\ UNCHANGED <<content, at, history, faults>>
    <2>1. /\ exchange => exchange'
          /\ setup[a] = 0 => exchange'
          /\ exchange' \in BOOLEAN
        BY Zenon DEF Declare, TInv, TypeOK
    <2>2. /\ queues \subseteq queues' /\ queues' \subseteq queues \cup {"dlq", "requests"}
          /\ setup[a] = 1 => "dlq" \in queues'
          /\ setup[a] = 3 => "requests" \in queues'
        BY <1>1 DEF Declare
    <2>3. /\ bindings \subseteq bindings'
          /\ bindings' \subseteq bindings \cup {<<"dlq", DeadLetterKey>>, <<"requests", RequestKey>>}
          /\ setup[a] = 2 => <<"dlq", DeadLetterKey>> \in bindings'
          /\ setup[a] = 4 => <<"requests", RequestKey>> \in bindings'
        <3> DEFINE d == <<"dlq", DeadLetterKey>>
                   e == <<"requests", RequestKey>>
        <3>1. bindings' = bindings \cup CASE setup[a] = 2 -> {d} [] setup[a] = 4 -> {e} [] OTHER -> {}
            BY DEF Declare
        <3> HIDE DEF d, e
        <3>2. /\ bindings \subseteq bindings' /\ bindings' \subseteq bindings \cup {d, e}
              /\ setup[a] = 2 => d \in bindings'
              /\ setup[a] = 4 => e \in bindings'
            BY <1>1, <3>1
        <3> QED BY <3>2 DEF d, e
    <2>4. UNCHANGED <<content, at, history, faults>>
        BY DEF Declare
    <2> QED BY <2>1, <2>2, <2>3, <2>4
<1>3. TypeOK'
    <2>1. queues' \subseteq QueueNames /\ content' = content /\ at' = at
        BY <1>2 DEF TInv, TypeOK, QueueNames
    <2>2. bindings' \subseteq QueueNames \X {RequestKey, ResultKey, DeadLetterKey}
        <3>1. "dlq" \in QueueNames /\ "requests" \in QueueNames
            BY DEF QueueNames
        <3>2. \A q, k : q \in QueueNames /\ k \in Keys => <<q, k>> \in QueueNames \X Keys
            OBVIOUS
        <3>3. <<"dlq", DeadLetterKey>> \in QueueNames \X Keys /\ <<"requests", RequestKey>> \in QueueNames \X Keys
            BY <3>1, <3>2 DEF Keys
        <3>4. bindings \subseteq QueueNames \X Keys
            BY DEF TInv, TypeOK, Keys
        <3>5. bindings' \subseteq QueueNames \X Keys
            <4> DEFINE d == <<"dlq", DeadLetterKey>>
                       e == <<"requests", RequestKey>>
            <4>1. bindings' \subseteq bindings \cup {d, e} /\ d \in QueueNames \X Keys /\ e \in QueueNames \X Keys
                BY <1>2, <3>3
            <4> HIDE DEF d, e
            <4> QED BY <4>1, <3>4
        <3> QED BY <3>5 DEF Keys
    <2>3. setup' \in [Actors -> 0..SetupSteps] /\ \A b \in Actors : at[b] # "setup" => setup'[b] = setup[b]
        BY <1>1 DEF TInv, TypeOK, SetupSteps
    <2> QED BY <1>2, <2>1, <2>2, <2>3 DEF TInv, TypeOK
<1>4. DeclaredInv'
    BY <1>1, <1>2 DEF TInv, TypeOK, DeclaredInv
<1>5. OneKey'
    BY <1>2 DEF TInv, OneKey
<1>6. (HistoryInv /\ BoundInv /\ Promises)'
    BY <1>2 DEF TInv, HistoryInv, BoundInv, Promises, RequestIsKept, NoResultMissed,
       DeadInv, DeadLettersStayDead, history
<1> QED BY <1>3, <1>4, <1>5, <1>6 DEF TInv

LEMMA MessagesDiffer ==
    \A r, q : /\ <<"request", r>> = <<"request", q>> => r = q
              /\ <<"result", r>> = <<"result", q>> => r = q
              /\ <<"request", r>> # <<"result", q>> /\ <<"request", r>> # <<"garbage", q>>
OBVIOUS

\* The two queues of Setup, and a client's own while it needs it.
LEMMA Places ==
    ASSUME TInv
    PROVE  /\ "requests" \in QueueNames /\ "dlq" \in QueueNames /\ Clients \subseteq QueueNames
           /\ content \in [QueueNames -> SUBSET ({"request", "result", "garbage"} \X Senders)]
           /\ \A a \in Actors : setup[a] = 5 =>
                 /\ "requests" \in queues /\ Routes("requests", RequestKey)
                 /\ "dlq" \in queues /\ Routes("dlq", DeadLetterKey)
           /\ \A c \in Clients : at[c] \in {"publish", "wait"} => c \in queues /\ Routes(c, ResultKey)
           /\ ExchangeKind # "fanout" => ~Routes("requests", DeadLetterKey)
<1>1. "requests" \in QueueNames /\ "dlq" \in QueueNames /\ Clients \subseteq QueueNames
    BY DEF QueueNames
<1>2. content \in [QueueNames -> SUBSET ({"request", "result", "garbage"} \X Senders)]
    BY DEF TInv, TypeOK, Senders
<1>3. \A q, k : <<q, k>> \in bindings => Routes(q, k)
    BY DEF Routes
<1>4. ASSUME NEW a \in Actors, setup[a] = 5
      PROVE  /\ "requests" \in queues /\ Routes("requests", RequestKey)
             /\ "dlq" \in queues /\ Routes("dlq", DeadLetterKey)
    <2>1. /\ "dlq" \in queues /\ <<"dlq", DeadLetterKey>> \in bindings
          /\ "requests" \in queues /\ <<"requests", RequestKey>> \in bindings
        BY <1>4 DEF TInv, DeclaredInv
    <2> QED BY <2>1, <1>3
<1>5. \A c \in Clients : at[c] \in {"publish", "wait"} => c \in queues /\ Routes(c, ResultKey)
    BY <1>3 DEF TInv, BoundInv
<1>6. ExchangeKind # "fanout" => ~Routes("requests", DeadLetterKey)
    BY KeysDiffer DEF TInv, OneKey, Routes
<1> QED BY <1>1, <1>2, <1>4, <1>5, <1>6

LEMMA ServeStep == \A s \in Services, r \in published : TInv /\ Serve(s, r) => TInv'
<1> SUFFICES ASSUME NEW s \in Services, NEW r \in published, TInv, Serve(s, r) PROVE TInv'
    OBVIOUS
<1> DEFINE req == <<"request", r>>
           res == <<"result", r>>
           rest == IF content' = Routed(content, ResultKey, res) THEN content ELSE Without("requests", req)
<1>1. /\ UNCHANGED <<exchange, queues, bindings, at, setup, published, rejected>>
      /\ answered' = answered \cup {r}
      /\ content' = Routed(rest, ResultKey, res)
      /\ r \in Senders
    BY DEF Serve, TInv, HistoryInv
<1>2. /\ rest \in [QueueNames -> SUBSET ({"request", "result", "garbage"} \X Senders)]
      /\ content["requests"] \ {req} \subseteq rest["requests"]
      /\ rest["requests"] \subseteq content["requests"]
      /\ \A q \in QueueNames \ {"requests"} : rest[q] = content[q]
    BY Places, WithoutAt
<1> HIDE DEF rest
<1>3. TypeOK'
    <2>1. content' \in [QueueNames -> SUBSET ({"request", "result", "garbage"} \X Senders)]
        BY <1>1, <1>2, RoutedTypes
    <2> QED BY <1>1, <2>1 DEF TInv, TypeOK, Senders
<1>4. (DeclaredInv /\ OneKey /\ HistoryInv /\ BoundInv)'
    BY <1>1 DEF TInv, DeclaredInv, OneKey, HistoryInv, BoundInv
<1>5. RequestIsKept'
    <2>1. rest["requests"] \subseteq content'["requests"]
        BY <1>1, Places, RoutedAt
    <2> QED BY <1>1, <1>2, <2>1, MessagesDiffer DEF TInv, Promises, RequestIsKept
<1>6. NoResultMissed'
    <2> SUFFICES ASSUME NEW c \in Clients, at[c] = "wait", c \in answered' PROVE <<"result", c>> \in content'[c]
        BY <1>1 DEF NoResultMissed
    <2>1. c \in QueueNames /\ rest[c] = content[c] /\ rest[c] \subseteq content'[c]
        BY <1>1, <1>2, ActorsDiffer, Places, RoutedAt
    <2>2. CASE c \in answered
        BY <2>1, <2>2 DEF TInv, Promises, NoResultMissed
    <2>3. CASE c = r
        BY <1>1, <2>1, <2>3, Places, RoutedAt
    <2> QED BY <1>1, <2>2, <2>3
<1>7. DeadInv'
    <2>1. rest["dlq"] = content["dlq"] /\ rest["dlq"] \subseteq content'["dlq"]
        BY <1>1, <1>2, Places, RoutedAt
    <2>2. content'["requests"] \subseteq content["requests"] \cup {res}
        BY <1>1, <1>2, Places, RoutedAt
    <2> QED BY <1>1, <2>1, <2>2, MessagesDiffer DEF TInv, Promises, DeadInv, DeadLettersStayDead
<1> QED BY <1>3, <1>4, <1>5, <1>6, <1>7 DEF TInv, Promises

LEMMA RejectStep == \A s \in Services, r \in published : TInv /\ Reject(s, r) => TInv'
<1> SUFFICES ASSUME NEW s \in Services, NEW r \in published, TInv, Reject(s, r) PROVE TInv'
    OBVIOUS
<1> DEFINE req == <<"request", r>>
           rest == Without("requests", req)
<1>1. /\ UNCHANGED <<exchange, queues, bindings, at, setup, published, answered>>
      /\ rejected' = rejected \cup {r} /\ ~Decodes(r)
      /\ content' = Routed(rest, DeadLetterKey, req)
      /\ r \in Senders
    BY DEF Reject, TInv, HistoryInv
<1>2. /\ rest \in [QueueNames -> SUBSET ({"request", "result", "garbage"} \X Senders)]
      /\ rest["requests"] = content["requests"] \ {req}
      /\ \A q \in QueueNames \ {"requests"} : rest[q] = content[q]
    BY Places, WithoutAt
<1>3. setup[s] = 5
    BY DEF Reject, TInv, TypeOK, SetupSteps, Actors
<1> HIDE DEF rest
<1>4. TypeOK'
    <2>1. content' \in [QueueNames -> SUBSET ({"request", "result", "garbage"} \X Senders)]
        BY <1>1, <1>2, RoutedTypes
    <2> QED BY <1>1, <2>1 DEF TInv, TypeOK, Senders
<1>5. (DeclaredInv /\ OneKey /\ HistoryInv /\ BoundInv)'
    BY <1>1 DEF TInv, DeclaredInv, OneKey, HistoryInv, BoundInv
<1>6. RequestIsKept'
    <2>1. rest["requests"] \subseteq content'["requests"]
        BY <1>1, Places, RoutedAt
    <2>2. \A c \in published \cap Clients : c # r
        BY <1>1 DEF TInv, HistoryInv
    <2> QED BY <1>1, <1>2, <2>1, <2>2, MessagesDiffer DEF TInv, Promises, RequestIsKept
<1>7. NoResultMissed'
    <2>1. \A c \in Clients : rest[c] = content[c] /\ rest[c] \subseteq content'[c]
        BY <1>1, <1>2, ActorsDiffer, Places, RoutedAt
    <2> QED BY <1>1, <2>1 DEF TInv, Promises, NoResultMissed
<1>8. DeadInv'
    <2> SUFFICES ASSUME ExchangeKind # "fanout" PROVE DeadLettersStayDead'
        BY DEF DeadInv
    <2>1. rest["dlq"] = content["dlq"] /\ rest["dlq"] \subseteq content'["dlq"] /\ req \in content'["dlq"]
        BY <1>1, <1>2, <1>3, Places, RoutedAt DEF Actors
    <2>2. content'["requests"] = content["requests"] \ {req}
        BY <1>1, <1>2, Places, RoutedAt
    <2> QED BY <1>1, <2>1, <2>2 DEF TInv, Promises, DeadInv, DeadLettersStayDead
<1> QED BY <1>4, <1>5, <1>6, <1>7, <1>8 DEF TInv, Promises

\* A request nobody published before reaches the exchange: what the test
\* client's and the other producers' publishing have in common.
LEMMA NewRequest ==
    ASSUME TInv, NEW r \in Senders, r \notin published,
           UNCHANGED <<exchange, queues, bindings, setup, answered, rejected>>,
           content' = Routed(content, RequestKey, <<"request", r>>),
           published' = published \cup {r},
           r \in Clients => "requests" \in queues /\ Routes("requests", RequestKey)
    PROVE  /\ content' \in [QueueNames -> SUBSET ({"request", "result", "garbage"} \X Senders)]
           /\ RequestIsKept'
           /\ \A c \in Clients : content[c] \subseteq content'[c]
           /\ DeadInv'
<1>1. content' \in [QueueNames -> SUBSET ({"request", "result", "garbage"} \X Senders)]
    BY Places, RoutedTypes
<1>2. \A q \in QueueNames : content[q] \subseteq content'[q] /\ content'[q] \subseteq content[q] \cup {<<"request", r>>}
    BY RoutedAt
<1>3. r \in Clients => <<"request", r>> \in content'["requests"]
    BY Places, RoutedAt
<1>4. RequestIsKept'
    BY <1>2, <1>3, Places DEF TInv, Promises, RequestIsKept
<1>5. DeadInv'
    <2>1. r \notin rejected
        BY DEF TInv, HistoryInv
    <2> QED BY <1>2, <2>1, Places, MessagesDiffer DEF TInv, Promises, DeadInv, DeadLettersStayDead
<1> QED BY <1>1, <1>2, <1>4, <1>5, Places

LEMMA PublishStep == \A c \in Clients : TInv /\ PublishRequest(c) => TInv'
<1> SUFFICES ASSUME NEW c \in Clients, TInv, PublishRequest(c) PROVE TInv'
    OBVIOUS
<1>1. /\ UNCHANGED <<exchange, queues, bindings, setup, answered, rejected>>
      /\ content' = Routed(content, RequestKey, <<"request", c>>)
      /\ published' = published \cup {c}
      /\ at' = [at EXCEPT ![c] = IF c \in Waiting THEN "wait" ELSE "done"]
      /\ c \in Actors /\ c \in Senders /\ at[c] \in {"setup", "publish"}
      /\ c \in Waiting => at[c] = "publish"
    BY DEF PublishRequest, GoTo, ReadyToPublish, Actors, Senders
<1>2. setup[c] = 5
    BY <1>1 DEF PublishRequest, ReadyToPublish, TInv, TypeOK, SetupSteps
<1>3. c \notin published /\ Decodes(c)
    BY <1>1 DEF TInv, HistoryInv
<1>4. /\ content' \in [QueueNames -> SUBSET ({"request", "result", "garbage"} \X Senders)]
      /\ RequestIsKept'
      /\ \A q \in Clients : content[q] \subseteq content'[q]
      /\ DeadInv'
    BY <1>1, <1>2, <1>3, Places, NewRequest
<1>5. /\ at' \in [Actors -> {"start", "setup", "consuming", "lost", "publish", "wait"} \cup Final]
      /\ at'[c] \in {"wait", "done"} /\ \A a \in Actors \ {c} : at'[a] = at[a]
      /\ at'[c] = "wait" => at[c] = "publish"
    BY <1>1 DEF TInv, TypeOK, Final
<1>6. TypeOK'
    BY <1>1, <1>2, <1>4, <1>5 DEF TInv, TypeOK, Senders, SetupSteps
<1>7. (DeclaredInv /\ OneKey)'
    BY <1>1 DEF TInv, DeclaredInv, OneKey
<1>8. HistoryInv'
    BY <1>1, <1>3, <1>5 DEF TInv, HistoryInv, Actors
<1>9. BoundInv'
    BY <1>1, <1>5 DEF TInv, BoundInv, Actors
<1>10. NoResultMissed'
    <2>1. c \notin answered
        BY <1>3 DEF TInv, HistoryInv
    <2> QED BY <1>1, <1>4, <1>5, <2>1 DEF TInv, Promises, NoResultMissed, Actors
<1> QED BY <1>4, <1>6, <1>7, <1>8, <1>9, <1>10 DEF TInv, Promises

LEMMA ForeignRequestStep == \A f \in Foreign : TInv /\ ForeignRequest(f) => TInv'
<1> SUFFICES ASSUME NEW f \in Foreign, TInv, ForeignRequest(f) PROVE TInv'
    OBVIOUS
<1>1. /\ UNCHANGED <<exchange, queues, bindings, setup, answered, rejected, at>>
      /\ content' = Routed(content, RequestKey, <<"request", f>>)
      /\ published' = published \cup {f}
      /\ f \in Senders /\ f \notin published /\ f \notin Clients
    BY ActorsDiffer DEF ForeignRequest, Senders
<1>2. /\ content' \in [QueueNames -> SUBSET ({"request", "result", "garbage"} \X Senders)]
      /\ RequestIsKept'
      /\ \A q \in Clients : content[q] \subseteq content'[q]
      /\ DeadInv'
    BY <1>1, NewRequest
<1>3. TypeOK'
    BY <1>1, <1>2 DEF TInv, TypeOK, Senders
<1>4. (DeclaredInv /\ OneKey /\ BoundInv)'
    BY <1>1 DEF TInv, DeclaredInv, OneKey, BoundInv
<1>5. HistoryInv'
    BY <1>1 DEF TInv, HistoryInv
<1>6. NoResultMissed'
    BY <1>1, <1>2 DEF TInv, Promises, NoResultMissed
<1> QED BY <1>2, <1>3, <1>4, <1>5, <1>6 DEF TInv, Promises

LEMMA ForeignResultStep == \A f \in Foreign : TInv /\ ForeignResult(f) => TInv'
<1> SUFFICES ASSUME NEW f \in Foreign, TInv, ForeignResult(f) PROVE TInv'
    OBVIOUS
<1>1. /\ UNCHANGED <<exchange, queues, bindings, at, setup, history>>
      /\ content' = Routed(content, ResultKey, <<"garbage", f>>)
      /\ f \in Senders
    BY DEF ForeignResult, Senders
<1>2. content' \in [QueueNames -> SUBSET ({"request", "result", "garbage"} \X Senders)]
    BY <1>1, Places, RoutedTypes
<1>3. \A q \in QueueNames : content[q] \subseteq content'[q] /\ content'[q] \subseteq content[q] \cup {<<"garbage", f>>}
    BY <1>1, RoutedAt
<1>4. TypeOK'
    BY <1>1, <1>2 DEF TInv, TypeOK, Senders
<1>5. (DeclaredInv /\ OneKey /\ HistoryInv /\ BoundInv)'
    BY <1>1 DEF TInv, DeclaredInv, OneKey, HistoryInv, BoundInv, history
<1>6. Promises'
    BY <1>1, <1>3, Places, MessagesDiffer
    DEF TInv, Promises, RequestIsKept, NoResultMissed, DeadInv, DeadLettersStayDead, history
<1> QED BY <1>4, <1>5, <1>6 DEF TInv

\* Setup starts over, is done, or its service is replaced.
LEMMA ServiceStep ==
    \A s \in Services : TInv /\ (SetupFails(s) \/ Consume(s) \/ RestartService(s)) => TInv'
<1> SUFFICES ASSUME NEW s \in Services, TInv, SetupFails(s) \/ Consume(s) \/ RestartService(s) PROVE TInv'
    OBVIOUS
<1>1. UNCHANGED <<broker, history>> /\ s \in Actors /\ s \notin Clients
    BY ActorsDiffer DEF SetupFails, Consume, RestartService, Actors
<1>2. /\ at' \in [Actors -> {"start", "setup", "consuming", "lost", "publish", "wait"} \cup Final]
      /\ setup' \in [Actors -> 0..5]
      /\ \A a \in Actors \ {s} : at'[a] = at[a] /\ setup'[a] = setup[a]
      /\ at'[s] \in {"setup", "consuming"}
      /\ at'[s] = "consuming" => setup'[s] = 5
      /\ setup'[s] \in {0, setup[s]}
    <2>1. CASE SetupFails(s)
        BY <1>1, <2>1 DEF SetupFails, TInv, TypeOK, SetupSteps
    <2>2. CASE Consume(s)
        BY <1>1, <2>2 DEF Consume, GoTo, TInv, TypeOK, SetupSteps
    <2>3. CASE RestartService(s)
        <3>1. at' = [at EXCEPT ![s] = "setup"] /\ setup' = [setup EXCEPT ![s] = 0]
            BY <2>3 DEF RestartService, GoTo
        <3>2. at \in [Actors -> {"start", "setup", "consuming", "lost", "publish", "wait"} \cup Final]
            BY DEF TInv, TypeOK
        <3>3. setup \in [Actors -> 0..5]
            BY DEF TInv, TypeOK, SetupSteps
        <3>4. at'[s] = "setup" /\ \A a \in Actors \ {s} : at'[a] = at[a]
            BY <1>1, <3>1, <3>2
        <3>5. setup'[s] = 0 /\ setup' \in [Actors -> 0..5] /\ \A a \in Actors \ {s} : setup'[a] = setup[a]
            BY <1>1, <3>1, <3>3
        <3>6. at' \in [Actors -> {"start", "setup", "consuming", "lost", "publish", "wait"} \cup Final]
            BY <3>1, <3>2
        <3> QED BY <3>4, <3>5, <3>6
    <2> QED BY <2>1, <2>2, <2>3
<1>3. TypeOK'
    BY <1>1, <1>2 DEF TInv, TypeOK, SetupSteps, broker
<1>4. DeclaredInv'
    BY <1>1, <1>2 DEF TInv, TypeOK, DeclaredInv, broker
<1>5. \A c \in Clients : c \in Actors /\ at'[c] = at[c]
    BY <1>1, <1>2 DEF Actors
<1>6. (OneKey /\ HistoryInv /\ BoundInv)'
    BY <1>1, <1>5 DEF TInv, OneKey, HistoryInv, BoundInv, broker, history
<1>7. Promises'
    BY <1>1, <1>5 DEF TInv, Promises, RequestIsKept, NoResultMissed, DeadInv, DeadLettersStayDead, broker, history
<1> QED BY <1>3, <1>4, <1>6, <1>7 DEF TInv

LEMMA StartStep == \A c \in Clients : TInv /\ StartRun(c) => TInv'
<1> SUFFICES ASSUME NEW c \in Clients, TInv, StartRun(c) PROVE TInv'
    OBVIOUS
<1>1. /\ UNCHANGED <<broker, setup, history>> /\ c \in Actors /\ at[c] = "start"
      /\ at' = [at EXCEPT ![c] = IF Accepted(Options[c]) THEN "setup" ELSE "failed"]
    BY DEF StartRun, GoTo, Actors
<1>2. /\ at' \in [Actors -> {"start", "setup", "consuming", "lost", "publish", "wait"} \cup Final]
      /\ at'[c] \in {"setup", "failed"} /\ \A a \in Actors \ {c} : at'[a] = at[a]
    BY <1>1 DEF TInv, TypeOK, Final
<1>3. at'[c] = "setup" => Decodes(c)
    BY <1>1, AcceptedDecodes DEF TInv, TypeOK
<1>4. TypeOK'
    BY <1>1, <1>2 DEF TInv, TypeOK, broker
<1>5. (DeclaredInv /\ OneKey)'
    BY <1>1 DEF TInv, DeclaredInv, OneKey, broker
<1>6. HistoryInv'
    BY <1>1, <1>2, <1>3 DEF TInv, HistoryInv, Actors, history
<1>7. BoundInv'
    BY <1>1, <1>2 DEF TInv, BoundInv, Actors, broker
<1>8. Promises'
    BY <1>1, <1>2
    DEF TInv, Promises, RequestIsKept, NoResultMissed, DeadInv, DeadLettersStayDead, Actors, broker, history
<1> QED BY <1>4, <1>5, <1>6, <1>7, <1>8 DEF TInv

LEMMA BindStep == \A c \in Clients : TInv /\ ConsumeResultsTemporary(c) => TInv'
<1> SUFFICES ASSUME NEW c \in Clients, TInv, ConsumeResultsTemporary(c) PROVE TInv'
    OBVIOUS
<1> DEFINE b == <<c, ResultKey>>
<1>1. /\ UNCHANGED <<exchange, content, setup, history>>
      /\ queues' = queues \cup {c} /\ bindings' = bindings \cup {b}
      /\ at' = [at EXCEPT ![c] = "publish"]
      /\ c \in Actors /\ at[c] = "setup" /\ setup[c] = SetupSteps
    BY DEF ConsumeResultsTemporary, GoTo, Actors
<1>2. /\ at' \in [Actors -> {"start", "setup", "consuming", "lost", "publish", "wait"} \cup Final]
      /\ at'[c] = "publish" /\ \A a \in Actors \ {c} : at'[a] = at[a]
    BY <1>1 DEF TInv, TypeOK
<1>3. b \in QueueNames \X Keys /\ b[1] # "requests"
    BY ActorsDiffer DEF QueueNames, Keys
<1>4. TypeOK'
    <2>1. bindings' \subseteq QueueNames \X {RequestKey, ResultKey, DeadLetterKey}
        <3> HIDE DEF b
        <3> QED BY <1>1, <1>3 DEF TInv, TypeOK, Keys
    <2>2. queues' \subseteq QueueNames
        BY <1>1, Places DEF TInv, TypeOK
    <2> QED BY <1>1, <1>2, <2>1, <2>2 DEF TInv, TypeOK
<1>5. (DeclaredInv /\ OneKey)'
    <2> HIDE DEF b
    <2> QED BY <1>1, <1>3 DEF TInv, DeclaredInv, OneKey
<1>6. HistoryInv'
    BY <1>1, <1>2 DEF TInv, HistoryInv, Actors, history
<1>7. BoundInv'
    BY <1>1, <1>2 DEF TInv, BoundInv, Actors
<1>8. Promises'
    BY <1>1, <1>2
    DEF TInv, Promises, RequestIsKept, NoResultMissed, DeadInv, DeadLettersStayDead, Actors, history
<1> QED BY <1>4, <1>5, <1>6, <1>7, <1>8 DEF TInv

\* A client comes back: the only way a queue is taken away while the broker runs.
LEMMA ReturnStep ==
    \A c \in Clients, how \in Final : TInv /\ Return(c, how) /\ UNCHANGED <<exchange, setup, history>> => TInv'
<1> SUFFICES ASSUME NEW c \in Clients, NEW how \in Final, TInv, Return(c, how),
                    UNCHANGED <<exchange, setup, history>>
             PROVE TInv'
    OBVIOUS
<1>1. /\ at' = [at EXCEPT ![c] = how] /\ c \in Actors /\ c # "requests" /\ c # "dlq"
      /\ queues' = queues \ {c} /\ bindings' = {b \in bindings : b[1] # c}
      /\ content' = [content EXCEPT ![c] = {}]
    BY ActorsDiffer DEF Return, GoTo, Actors
<1>2. /\ at' \in [Actors -> {"start", "setup", "consuming", "lost", "publish", "wait"} \cup Final]
      /\ at'[c] \in Final /\ \A a \in Actors \ {c} : at'[a] = at[a]
    BY <1>1 DEF TInv, TypeOK
<1>3. /\ content' \in [QueueNames -> SUBSET ({"request", "result", "garbage"} \X Senders)]
      /\ \A q \in QueueNames \ {c} : content'[q] = content[q]
    BY <1>1, Places
<1>4. \A q, k : <<q, k>> \in bindings /\ q # c => <<q, k>> \in bindings'
    BY <1>1
<1>5. at'[c] \notin {"start", "setup", "consuming", "publish", "wait"}
    BY <1>2 DEF Final
<1>6. TypeOK'
    BY <1>1, <1>2, <1>3, <1>5 DEF TInv, TypeOK, Senders
<1>7. DeclaredInv'
    <2>1. /\ <<"dlq", DeadLetterKey>> \in bindings => <<"dlq", DeadLetterKey>> \in bindings'
          /\ <<"requests", RequestKey>> \in bindings => <<"requests", RequestKey>> \in bindings'
        BY <1>1, <1>4
    <2> QED BY <1>1, <2>1 DEF TInv, DeclaredInv
<1>8. OneKey'
    BY <1>1 DEF TInv, OneKey
<1>9. HistoryInv'
    BY <1>2, <1>5 DEF TInv, HistoryInv, Actors, history
<1>10. BoundInv'
    BY <1>1, <1>2, <1>4, <1>5 DEF TInv, BoundInv, Actors
<1>11. Promises'
    BY <1>1, <1>2, <1>3, <1>5, Places
    DEF TInv, Promises, RequestIsKept, NoResultMissed, DeadInv, DeadLettersStayDead, Actors, history
<1> QED BY <1>6, <1>7, <1>8, <1>9, <1>10, <1>11 DEF TInv

LEMMA WaitStep == \A c \in Clients : \A m \in content[c] : TInv /\ WaitForResult(c, m) => TInv'
<1> SUFFICES ASSUME NEW c \in Clients, NEW m \in content[c], TInv, WaitForResult(c, m) PROVE TInv'
    OBVIOUS
<1>1. UNCHANGED <<exchange, setup, history>>
    BY DEF WaitForResult
<1>2. CASE m[1] = "garbage" \/ m = <<"result", c>>
    <2>1. \E how \in Final : Return(c, how)
        BY <1>2 DEF WaitForResult, Final
    <2> QED BY <1>1, <2>1, ReturnStep
<1>3. CASE ~(m[1] = "garbage" \/ m = <<"result", c>>)
    <2>1. content' = Without(c, m) /\ UNCHANGED <<at, queues, bindings>> /\ c # "requests" /\ c # "dlq"
        BY <1>3, ActorsDiffer DEF WaitForResult
    <2>2. /\ content' \in [QueueNames -> SUBSET ({"request", "result", "garbage"} \X Senders)]
          /\ content'[c] = content[c] \ {m}
          /\ \A q \in QueueNames \ {c} : content'[q] = content[q]
        BY <2>1, Places, WithoutAt
    <2>3. TypeOK'
        BY <1>1, <2>1, <2>2 DEF TInv, TypeOK, Senders
    <2>4. (DeclaredInv /\ OneKey /\ HistoryInv /\ BoundInv)'
        BY <1>1, <2>1 DEF TInv, DeclaredInv, OneKey, HistoryInv, BoundInv, history
    <2>5. Promises'
        BY <1>1, <1>3, <2>1, <2>2, Places
        DEF TInv, Promises, RequestIsKept, NoResultMissed, DeadInv, DeadLettersStayDead, history
    <2> QED BY <2>3, <2>4, <2>5 DEF TInv
<1> QED BY <1>2, <1>3

LEMMA RestartStep == TInv /\ RestartBroker => TInv'
<1> SUFFICES ASSUME TInv, RestartBroker PROVE TInv'
    OBVIOUS
<1>1. /\ queues' = queues \cap {"requests", "dlq"}
      /\ bindings' = {b \in bindings : b[1] \in {"requests", "dlq"}}
      /\ content' = [q \in QueueNames |-> IF q \in {"requests", "dlq"} THEN content[q] ELSE {}]
      /\ setup' = [a \in Actors |-> IF at[a] = "setup" THEN 0 ELSE setup[a]]
      /\ UNCHANGED <<exchange, history>>
    BY DEF RestartBroker, DurableQueues
<1>2. \A a \in Actors : at'[a] = CASE a \in Services /\ at[a] = "consuming" -> "lost"
                                   [] a \in Clients /\ at[a] \notin Final \cup {"start"} -> "failed"
                                   [] OTHER -> at[a]
    BY DEF RestartBroker
<1>3. /\ at' \in [Actors -> {"start", "setup", "consuming", "lost", "publish", "wait"} \cup Final]
      /\ \A c \in Clients : at'[c] \in Final \cup {"start"} /\ (at'[c] = "start" => at[c] = "start")
      /\ \A a \in Actors : at'[a] = "consuming" => at[a] = "consuming" /\ a \notin Services
      /\ \A a \in Actors : at'[a] \notin {"publish", "wait"} \/ a \notin Clients
      /\ \A a \in Actors : at'[a] \in {"publish", "wait"} => at[a] = at'[a]
    <2>1. at' = [a \in Actors |-> at'[a]]
        BY DEF RestartBroker
    <2>2. \A a \in Actors : at'[a] \in {"start", "setup", "consuming", "lost", "publish", "wait"} \cup Final
        BY <1>2 DEF TInv, TypeOK, Final
    <2>3. \A c \in Clients : at'[c] \in Final \cup {"start"} /\ (at'[c] = "start" => at[c] = "start")
        BY <1>2, ActorsDiffer DEF Actors, Final
    <2>4. \A a \in Actors : at'[a] = "consuming" => at[a] = "consuming" /\ a \notin Services
        BY <1>2
    <2>5. \A a \in Actors : at'[a] \notin {"publish", "wait"} \/ a \notin Clients
        BY <2>3 DEF Final
    <2>6. \A a \in Actors : at'[a] \in {"publish", "wait"} => at[a] = at'[a]
        BY <1>2
    <2> QED BY <2>1, <2>2, <2>3, <2>4, <2>5, <2>6
<1>4. \A c \in Clients : at'[c] \notin {"setup", "publish", "wait"}
    BY <1>3 DEF Final
<1>5. content' \in [QueueNames -> SUBSET ({"request", "result", "garbage"} \X Senders)]
    BY <1>1, Places
<1>6. setup' \in [Actors -> 0..SetupSteps]
    BY <1>1 DEF TInv, TypeOK, SetupSteps
<1>7. \A a \in Actors : at'[a] \in {"consuming", "publish", "wait"} => setup'[a] = SetupSteps
    BY <1>1, <1>3 DEF TInv, TypeOK
<1>8. TypeOK'
    BY <1>1, <1>3, <1>5, <1>6, <1>7 DEF TInv, TypeOK, Senders
<1>9. DeclaredInv'
    <2>1. \A k : /\ <<"dlq", k>> \in bindings => <<"dlq", k>> \in bindings'
                 /\ <<"requests", k>> \in bindings => <<"requests", k>> \in bindings'
        BY <1>1
    <2>2. \A a \in Actors : setup'[a] \in {0, setup[a]}
        BY <1>1
    <2> QED BY <1>1, <2>1, <2>2 DEF TInv, DeclaredInv
<1>10. OneKey'
    BY <1>1 DEF TInv, OneKey
<1>11. (HistoryInv /\ BoundInv)'
    BY <1>1, <1>3, <1>4 DEF TInv, HistoryInv, BoundInv, history
<1>12. Promises'
    BY <1>1, <1>4, Places
    DEF TInv, Promises, RequestIsKept, NoResultMissed, DeadInv, DeadLettersStayDead, history
<1> QED BY <1>8, <1>9, <1>10, <1>11, <1>12 DEF TInv

LEMMA TInvStep == TInv /\ [Next]_vars => TInv'
<1> SUFFICES ASSUME TInv, [Next]_vars PROVE TInv'
    OBVIOUS
<1>1. ASSUME NEW s \in Services,
             \/ Declare(s) \/ SetupFails(s) \/ Consume(s) \/ RestartService(s)
             \/ \E r \in published : Serve(s, r) \/ Reject(s, r)
      PROVE  TInv'
    BY <1>1, DeclareStep, ServiceStep, ServeStep, RejectStep DEF Actors
<1>2. ASSUME NEW c \in Clients, Run(c) PROVE TInv'
    <2>1. CASE TimeOut(c)
        BY <2>1, ReturnStep DEF TimeOut, Final
    <2> QED BY <1>2, <2>1, StartStep, DeclareStep, BindStep, PublishStep, WaitStep DEF Run, Actors
<1>3. ASSUME NEW c \in Clients, PublishLost(c) \/ RunFails(c) PROVE TInv'
    <2>1. (\E how \in Final : Return(c, how)) /\ UNCHANGED <<exchange, setup, history>>
        BY <1>3 DEF PublishLost, RunFails, Final
    <2> QED BY <2>1, ReturnStep
<1>4. ASSUME NEW f \in Foreign, ForeignRequest(f) \/ ForeignResult(f) PROVE TInv'
    BY <1>4, ForeignRequestStep, ForeignResultStep
<1>5. CASE RestartBroker
    BY <1>5, RestartStep
<1>6. CASE UNCHANGED vars
    BY <1>6 DEF vars, broker, history, TInv, TypeOK, DeclaredInv, OneKey, HistoryInv, BoundInv,
       Promises, RequestIsKept, NoResultMissed, DeadInv, DeadLettersStayDead
<1> QED BY <1>1, <1>2, <1>3, <1>4, <1>5, <1>6 DEF Next

\* The strengthening holds throughout: who has declared what, who is bound where
\* and who has published is never lost, whatever fails (Broker.Setup, run).
THEOREM TInvHolds == Spec => []TInv
BY TInvInit, TInvStep, PTL DEF Spec

\* Types, and nobody consumes, publishes or waits who has not been through Setup.
THEOREM TopologyTypes == Spec => []TypeOK
<1>1. TInv => TypeOK
    BY DEF TInv
<1> QED BY <1>1, TInvHolds, PTL

\* No request of the test client is dropped or dead-lettered, with any number of
\* services, clients and failures: Setup comes before publishing, the queue and
\* its binding are durable, and the client publishes nothing a worker rejects.
THEOREM NoRequestIsDropped == Spec => []RequestIsKept
<1>1. TInv => RequestIsKept
    BY DEF TInv, Promises
<1> QED BY <1>1, TInvHolds, PTL

\* No waiting client misses its result: its queue is bound before it publishes.
THEOREM ResultReachesClient == Spec => []NoResultMissed
<1>1. TInv => NoResultMissed
    BY DEF TInv, Promises
<1> QED BY <1>1, TInvHolds, PTL

\* Dead letters stay in their queue on every exchange that looks at the key:
\* the request queue is never bound under the key they are published with.
THEOREM DeadStaysDead ==
    ASSUME ExchangeKind # "fanout"
    PROVE  Spec => []DeadLettersStayDead
<1>1. TInv => DeadLettersStayDead
    BY DEF TInv, Promises, DeadInv
<1> QED BY <1>1, TInvHolds, PTL
=============================================================================
