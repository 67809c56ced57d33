---------------------------- MODULE PolicyProofs ----------------------------
(***************************************************************************)
(* The provider plan of every request, for chains of any length and any    *)
(* configuration of the channels.                                          *)
(*                                                                         *)
(* PlanAll is a recursive function of the position in the names, so what   *)
(* it computes is shown by induction on that position; a set of naturals   *)
(* that holds 0 and is closed under successor holds them all because the   *)
(* order of the naturals is well-founded.                                  *)
(***************************************************************************)
EXTENDS PolicyCases, FiniteSetTheorems, SequenceTheorems, TLAPS

-----------------------------------------------------------------------------
(* Induction on a position *)

\* A set of naturals that is not empty has a least element.
LEMMA LeastNatural ==
    ASSUME NEW T \in SUBSET Nat, T # {}
    PROVE  \E m \in T : \A n \in T : m <= n
<1> DEFINE R == {ss \in Nat \X Nat : ss[1] < ss[2]}
<1>1. IsWellFoundedOn(R, Nat)
  BY NatLessThanWellFounded DEF OpToRel
<1>2. \E x \in T : \A y \in T : ~(<<y, x>> \in R)
  <2> HIDE DEF R
  <2> QED BY <1>1, WFMin
<1>3. PICK x \in T : \A y \in T : ~(<<y, x>> \in R)
  BY <1>2
<1>4. \A y \in T : ~(y < x)
  BY <1>3
<1> QED BY <1>4

\* Induction: a set of naturals with 0 and every successor is all of them.
LEMMA ClosedIsNat ==
    ASSUME NEW S \in SUBSET Nat, 0 \in S, \A n \in S : n + 1 \in S
    PROVE  S = Nat
<1> DEFINE T == Nat \ S
<1> SUFFICES ASSUME T # {} PROVE FALSE
  OBVIOUS
<1>1. PICK m \in T : \A n \in T : m <= n
  BY LeastNatural
<1>2. m # 0
  BY <1>1
<1>3. m - 1 \in Nat /\ m - 1 \notin T
  BY <1>1, <1>2
<1> QED BY <1>1, <1>3

-----------------------------------------------------------------------------
(* The loop of ProviderPlan is well-defined *)

\* f holds the plan after each of the first k names.
Computes(f, start, names, k) ==
    f = [n \in 0..k |-> IF n = 0 THEN start ELSE PlanOnce(f[n - 1], names[n])]

\* There is such a function for any number of turns of the loop.
LEMMA LoopExists ==
    ASSUME NEW start, NEW names, NEW k \in Nat
    PROVE  \E f : Computes(f, start, names, k)
<1> DEFINE S == {j \in Nat : \E f : Computes(f, start, names, j)}
<1>1. 0 \in S
  <2> DEFINE f == [n \in 0..0 |-> start]
  <2>1. f = [n \in 0..0 |-> IF n = 0 THEN start ELSE PlanOnce(f[n - 1], names[n])]
    OBVIOUS
  <2>2. Computes(f, start, names, 0)
    BY <2>1 DEF Computes
  <2> QED BY <2>2
<1>2. ASSUME NEW j \in S
      PROVE  j + 1 \in S
  <2>1. PICK f : Computes(f, start, names, j)
    OBVIOUS
  <2> DEFINE g == [n \in 0..(j + 1) |-> IF n = j + 1 THEN PlanOnce(f[j], names[j + 1]) ELSE f[n]]
  <2>2. j \in Nat /\ \A n \in 0..j : g[n] = f[n]
    OBVIOUS
  <2>3. ASSUME NEW n \in 0..(j + 1)
        PROVE  g[n] = IF n = 0 THEN start ELSE PlanOnce(g[n - 1], names[n])
    <3>1. CASE n = j + 1
      <4>1. g[n] = PlanOnce(f[j], names[n]) /\ f[j] = g[n - 1] /\ n # 0
        BY <2>2, <3>1
      <4> QED BY <4>1
    <3>2. CASE n # j + 1
      <4>1. n \in 0..j /\ (n = 0 \/ n - 1 \in 0..j)
        BY <2>2, <3>2
      <4>2. f[n] = IF n = 0 THEN start ELSE PlanOnce(f[n - 1], names[n])
        BY <2>1, <4>1 DEF Computes
      <4>3. g[n] = f[n] /\ (n # 0 => g[n - 1] = f[n - 1])
        BY <2>2, <4>1
      <4> QED BY <4>2, <4>3
    <3> QED BY <3>1, <3>2
  <2>4. g = [n \in 0..(j + 1) |-> IF n = 0 THEN start ELSE PlanOnce(g[n - 1], names[n])]
    BY <2>3
  <2>5. Computes(g, start, names, j + 1)
    BY <2>4 DEF Computes
  <2> QED BY <2>2, <2>5
<1> HIDE DEF S
<1>3. S \in SUBSET Nat
  BY DEF S
<1>4. S = Nat
  BY <1>1, <1>2, <1>3, ClosedIsNat
<1> QED BY <1>4 DEF S

\* PlanAll is the value of such a function after the last name.
LEMMA LoopComputes ==
    ASSUME NEW start, NEW names, Len(names) \in Nat
    PROVE  \E f : Computes(f, start, names, Len(names)) /\ PlanAll(start, names) = f[Len(names)]
<1> DEFINE plan == CHOOSE f : f = [n \in 0..Len(names) |->
                                     IF n = 0 THEN start ELSE PlanOnce(f[n - 1], names[n])]
<1>1. \E f : f = [n \in 0..Len(names) |-> IF n = 0 THEN start ELSE PlanOnce(f[n - 1], names[n])]
  <2>1. PICK f : Computes(f, start, names, Len(names))
    BY LoopExists
  <2>2. f = [n \in 0..Len(names) |-> IF n = 0 THEN start ELSE PlanOnce(f[n - 1], names[n])]
    BY <2>1 DEF Computes
  <2> QED BY <2>2, Zenon
<1>2. plan = [n \in 0..Len(names) |-> IF n = 0 THEN start ELSE PlanOnce(plan[n - 1], names[n])]
  BY <1>1, Zenon
<1>3. Computes(plan, start, names, Len(names))
  BY <1>2 DEF Computes
<1>4. PlanAll(start, names) = plan[Len(names)]
  BY DEF PlanAll
<1> QED BY <1>3, <1>4

-----------------------------------------------------------------------------
(* What the loop computes *)

\* plan holds the names among the first m of all, each once, in the order they
\* first appear: what stands before a name in the plan appeared before it.
PlanOf(plan, all, m) ==
    /\ plan \in Seq(STRING) /\ Len(plan) \in Nat \ {0}
    /\ plan[1] = all[1]
    /\ \A i \in 1..Len(plan) : plan[i] # NoName
    /\ \A i \in 1..Len(plan) : \E k \in 1..m : all[k] = plan[i]
    /\ \A k \in 1..m : all[k] # NoName => \E i \in 1..Len(plan) : plan[i] = all[k]
    /\ \A i, j \in 1..Len(plan) :
          i < j => \E k \in 1..m : all[k] = plan[i] /\ \A l \in 1..k : all[l] # plan[j]

\* One turn of the loop takes the next name into account.
LEMMA PlanOnceExtends ==
    ASSUME NEW all \in Seq(STRING), NEW m \in Nat, m + 1 <= Len(all),
           NEW plan, PlanOf(plan, all, m)
    PROVE  PlanOf(PlanOnce(plan, all[m + 1]), all, m + 1)
<1> DEFINE x == all[m + 1]
<1>1. x \in STRING /\ plan \in Seq(STRING) /\ Len(plan) \in Nat \ {0} /\ 1..m \subseteq 1..(m + 1)
  BY DEF PlanOf
<1>2. CASE x = NoName \/ \E i \in 1..Len(plan) : plan[i] = x
  <2>1. PlanOnce(plan, x) = plan
    BY <1>2 DEF PlanOnce, Contains
  <2>2. \A k \in 1..(m + 1) : all[k] # NoName => \E i \in 1..Len(plan) : plan[i] = all[k]
    <3> SUFFICES ASSUME NEW k \in 1..(m + 1), all[k] # NoName
                 PROVE  \E i \in 1..Len(plan) : plan[i] = all[k]
      OBVIOUS
    <3>1. CASE k = m + 1
      BY <1>2, <3>1
    <3>2. CASE k \in 1..m
      BY <3>2 DEF PlanOf
    <3> QED BY <3>1, <3>2
  <2>3. \A i, j \in 1..Len(plan) :
           i < j => \E k \in 1..(m + 1) : all[k] = plan[i] /\ \A l \in 1..k : all[l] # plan[j]
    BY <1>1 DEF PlanOf
  <2>4. \A i \in 1..Len(plan) : \E k \in 1..(m + 1) : all[k] = plan[i]
    BY <1>1 DEF PlanOf
  <2>5. PlanOf(plan, all, m + 1)
    BY <2>2, <2>3, <2>4 DEF PlanOf
  <2> QED BY <2>1, <2>5
<1>3. CASE x # NoName /\ \A i \in 1..Len(plan) : plan[i] # x
  <2> DEFINE next == Append(plan, x)
  <2>1. PlanOnce(plan, x) = next
    BY <1>3 DEF PlanOnce, Contains
  <2>2. /\ next \in Seq(STRING) /\ Len(next) = Len(plan) + 1
        /\ next[Len(next)] = x
        /\ \A i \in 1..Len(plan) : next[i] = plan[i]
        /\ \A i \in 1..Len(next) : i \in 1..Len(plan) \/ i = Len(next)
    BY <1>1
  <2> HIDE DEF next
  <2>3. \A l \in 1..m : all[l] # x
    BY <1>3 DEF PlanOf
  <2>4. next[1] = all[1]
    BY <1>1, <2>2 DEF PlanOf
  <2>5. \A i \in 1..Len(next) : next[i] # NoName
    BY <1>3, <2>2 DEF PlanOf
  <2>6. \A i \in 1..Len(next) : \E k \in 1..(m + 1) : all[k] = next[i]
    <3> SUFFICES ASSUME NEW i \in 1..Len(next) PROVE \E k \in 1..(m + 1) : all[k] = next[i]
      OBVIOUS
    <3>1. CASE i = Len(next)
      BY <2>2, <3>1
    <3>2. CASE i \in 1..Len(plan)
      <4>1. PICK k \in 1..m : all[k] = plan[i]
        BY <3>2 DEF PlanOf
      <4> QED BY <1>1, <2>2, <3>2, <4>1
    <3> QED BY <2>2, <3>1, <3>2
  <2>7. \A k \in 1..(m + 1) : all[k] # NoName => \E i \in 1..Len(next) : next[i] = all[k]
    <3> SUFFICES ASSUME NEW k \in 1..(m + 1), all[k] # NoName
                 PROVE  \E i \in 1..Len(next) : next[i] = all[k]
      OBVIOUS
    <3>1. CASE k = m + 1
      BY <1>1, <2>2, <3>1
    <3>2. CASE k \in 1..m
      <4>1. PICK i \in 1..Len(plan) : plan[i] = all[k]
        BY <3>2 DEF PlanOf
      <4> QED BY <1>1, <2>2, <4>1
    <3> QED BY <3>1, <3>2
  <2>8. ASSUME NEW i \in 1..Len(next), NEW j \in 1..Len(next), i < j
        PROVE  \E k \in 1..(m + 1) : all[k] = next[i] /\ \A l \in 1..k : all[l] # next[j]
    <3>1. i \in 1..Len(plan) /\ next[i] = plan[i]
      BY <1>1, <2>2, <2>8
    <3>2. CASE j \in 1..Len(plan)
      <4>1. PICK k \in 1..m : all[k] = plan[i] /\ \A l \in 1..k : all[l] # plan[j]
        BY <2>8, <3>1, <3>2 DEF PlanOf
      <4> QED BY <1>1, <2>2, <3>1, <3>2, <4>1
    <3>3. CASE j = Len(next)
      <4>1. PICK k \in 1..m : all[k] = plan[i]
        BY <3>1 DEF PlanOf
      <4>2. \A l \in 1..k : all[l] # next[j]
        BY <2>2, <2>3, <3>3
      <4> QED BY <1>1, <3>1, <4>1, <4>2
    <3> QED BY <2>2, <3>2, <3>3
  <2>9. PlanOf(next, all, m + 1)
    BY <1>1, <2>2, <2>4, <2>5, <2>6, <2>7, <2>8 DEF PlanOf
  <2> QED BY <2>1, <2>9
<1> QED BY <1>2, <1>3 DEF Contains

\* t is the sequence s over S with x in front.
Prepends(t, S, x, s) ==
    /\ <<x>> \in Seq(S) /\ Len(<<x>>) = 1 /\ <<x>>[1] = x
    /\ t \in Seq(S) /\ Len(t) = Len(s) + 1 /\ Len(s) \in Nat
    /\ t[1] = x
    /\ \A n \in 1..Len(s) : t[n + 1] = s[n]

\* Concatenation with a sequence of one element puts it in front.
LEMMA ConcatPrepends ==
    ASSUME NEW S, NEW x \in S, NEW s \in Seq(S)
    PROVE  Prepends(<<x>> \o s, S, x, s)
<1> DEFINE one == <<x>>
<1>1. one \in Seq(S) /\ Len(one) = 1 /\ one[1] = x
  OBVIOUS
<1> HIDE DEF one
<1>2. /\ one \o s \in Seq(S)
      /\ Len(one \o s) = Len(one) + Len(s)
      /\ \A i \in 1 .. Len(one) + Len(s) : (one \o s)[i] = IF i <= Len(one) THEN one[i] ELSE s[i - Len(one)]
  BY <1>1, ConcatProperties
<1>3. Len(s) \in Nat
  OBVIOUS
<1>4. (one \o s)[1] = x
  BY <1>1, <1>2, <1>3
<1>5. ASSUME NEW n \in 1..Len(s) PROVE (one \o s)[n + 1] = s[n]
  <2>1. n + 1 \in 1..(Len(one) + Len(s)) /\ ~(n + 1 <= Len(one)) /\ (n + 1) - Len(one) = n
    BY <1>1, <1>3
  <2> QED BY <1>2, <2>1
<1> QED BY <1>1, <1>2, <1>3, <1>4, <1>5 DEF one, Prepends

\* After the last name the plan holds them all: start is a name, not NoName.
LEMMA PlanAllIsPlan ==
    ASSUME NEW first \in STRING, first # NoName, NEW names \in Seq(STRING)
    PROVE  PlanOf(PlanAll(<<first>>, names), <<first>> \o names, Len(names) + 1)
<1> DEFINE all == <<first>> \o names
           k == Len(names)
<1>1. /\ all \in Seq(STRING) /\ Len(all) = k + 1 /\ k \in Nat
      /\ all[1] = first /\ \A n \in 1..k : all[n + 1] = names[n]
      /\ <<first>> \in Seq(STRING) /\ Len(<<first>>) = 1 /\ <<first>>[1] = first
  <2>1. Prepends(all, STRING, first, names)
    BY ConcatPrepends, Zenon
  <2> QED BY <2>1 DEF Prepends
<1>2. PICK f : Computes(f, <<first>>, names, k) /\ PlanAll(<<first>>, names) = f[k]
  BY <1>1, LoopComputes
<1>3. /\ f[0] = <<first>>
      /\ \A n \in 1..k : f[n] = PlanOnce(f[n - 1], names[n])
  <2>1. \A n \in 0..k : f[n] = IF n = 0 THEN <<first>> ELSE PlanOnce(f[n - 1], names[n])
    BY <1>2 DEF Computes
  <2>2. 0 \in 0..k /\ \A n \in 1..k : n \in 0..k /\ n # 0
    BY <1>1
  <2> QED BY <2>1, <2>2
<1> HIDE DEF all, k
<1> DEFINE S == {n \in Nat : n > k \/ PlanOf(f[n], all, n + 1)}
<1>4. 0 \in S
  <2> DEFINE s == <<first>>
  <2>1. s \in Seq(STRING) /\ Len(s) = 1 /\ s[1] = first
    BY <1>1
  <2> HIDE DEF s
  <2>2. \A i \in 1..1 : i = 1
    OBVIOUS
  <2>3. \A i \in 1..1 : s[i] = first /\ all[i] = first
    BY <1>1, <2>1, <2>2
  <2>4. \A i, j \in 1..1 : ~(i < j)
    OBVIOUS
  <2>5. PlanOf(s, all, 1)
    <3>1. s \in Seq(STRING) /\ Len(s) \in Nat \ {0} /\ s[1] = all[1]
      BY <1>1, <2>1
    <3>2. \A i \in 1..Len(s) : s[i] # NoName
      BY <2>1, <2>3
    <3>3. \A i \in 1..Len(s) : \E n \in 1..1 : all[n] = s[i]
      BY <2>1, <2>3
    <3>4. \A n \in 1..1 : all[n] # NoName => \E i \in 1..Len(s) : s[i] = all[n]
      BY <2>1, <2>3
    <3>5. \A i, j \in 1..Len(s) : ~(i < j)
      BY <2>1, <2>4
    <3> QED BY <3>1, <3>2, <3>3, <3>4, <3>5 DEF PlanOf
  <2>6. PlanOf(f[0], all, 0 + 1)
    BY <1>3, <2>5 DEF s
  <2> QED BY <2>6
<1>5. ASSUME NEW n \in S
      PROVE  n + 1 \in S
  <2> SUFFICES ASSUME n + 1 <= k PROVE PlanOf(f[n + 1], all, (n + 1) + 1)
    BY <1>1
  <2>1. PlanOf(f[n], all, n + 1) /\ n \in Nat
    BY <1>1
  <2>2. f[n + 1] = PlanOnce(f[n], all[(n + 1) + 1])
    <3>1. n + 1 \in 1..k /\ (n + 1) - 1 = n
      BY <1>1, <2>1
    <3> QED BY <1>1, <1>3, <3>1
  <2>3. n + 1 \in Nat /\ (n + 1) + 1 <= Len(all)
    BY <1>1, <2>1
  <2> QED BY <1>1, <2>1, <2>2, <2>3, PlanOnceExtends
<1> HIDE DEF S
<1>6. S = Nat
  <2>1. S \in SUBSET Nat
    BY DEF S
  <2> QED BY <1>4, <1>5, <2>1, ClosedIsNat
<1>7. PlanOf(f[k], all, k + 1)
  BY <1>1, <1>6 DEF S
<1> QED BY <1>2, <1>7 DEF all, k

-----------------------------------------------------------------------------
(* The plan of a request *)

\* What a request says of providers: names, in sequences of any length.
Asks(r) == r.selected \in STRING /\ r.chain \in Seq(STRING) /\ r.fallback \in BOOLEAN

\* Every channel's default is a sequence of names; an unknown channel has none.
LEMMA DefaultType ==
    ASSUME NEW type
    PROVE  /\ DefaultProviderChain(type) \in Seq(STRING)
           /\ type \in RecipientTypes => DefaultProviderChain(type) # <<>>
<1>1. CASE type \in RecipientTypes
  <2>1. DefaultProviderChain(type) = Channels[type].chain
    BY <1>1 DEF DefaultProviderChain
  <2>2. Channels[type].chain \in Seq(STRING) /\ Channels[type].chain # <<>>
    BY <1>1, ChannelsAssumption, Zenon
  <2> QED BY <2>1, <2>2
<1>2. CASE type \notin RecipientTypes
  <2>1. DefaultProviderChain(type) = <<>>
    BY <1>2 DEF DefaultProviderChain
  <2>2. <<>> \in Seq(STRING)
    BY EmptySeq, Zenon
  <2> QED BY <1>2, <2>1, <2>2
<1> QED BY <1>1, <1>2

\* The names of a request with a selection and fallback, in the order asked for.
LEMMA PlanOfSelected ==
    ASSUME NEW r, Asks(r), r.selected # NoName, r.fallback
    PROVE  LET names == r.chain \o DefaultProviderChain(r.recipient_type)
               all == <<r.selected>> \o names
           IN /\ Prepends(all, STRING, r.selected, names)
              /\ PlanOf(Plan(r), all, Len(all))
<1> DEFINE default == DefaultProviderChain(r.recipient_type)
           names == r.chain \o default
           all == <<r.selected>> \o names
<1>1. r.selected \in STRING /\ r.chain \in Seq(STRING) /\ default \in Seq(STRING)
  BY DefaultType DEF Asks
<1>2. names \in Seq(STRING)
  <2> HIDE DEF default
  <2> QED BY <1>1, ConcatProperties, Zenon
<1>3. Plan(r) = PlanAll(<<r.selected>>, names)
  BY DEF Plan, ProviderPlan
<1> HIDE DEF names
<1>4. Prepends(all, STRING, r.selected, names)
  BY <1>1, <1>2, ConcatPrepends, Zenon
<1>5. Len(all) = Len(names) + 1
  BY <1>4 DEF Prepends
<1>6. PlanOf(PlanAll(<<r.selected>>, names), all, Len(names) + 1)
  BY <1>1, <1>2, PlanAllIsPlan, Zenon
<1> QED BY <1>3, <1>4, <1>5, <1>6 DEF names

\* A plan is a sequence of names whatever the request asks for.
LEMMA PlanType ==
    ASSUME NEW r, Asks(r)
    PROVE  Plan(r) \in Seq(STRING)
<1>1. CASE r.selected # NoName /\ r.fallback
  BY <1>1, PlanOfSelected DEF PlanOf
<1>2. CASE r.selected # NoName /\ ~r.fallback
  <2>1. Plan(r) = <<r.selected>>
    BY <1>2 DEF Plan, ProviderPlan
  <2>2. r.selected \in STRING
    BY DEF Asks
  <2>3. Prepends(<<r.selected>> \o <<>>, STRING, r.selected, <<>>)
    BY <2>2, EmptySeq, ConcatPrepends, Zenon
  <2> QED BY <2>1, <2>3 DEF Prepends
<1>3. CASE r.selected = NoName
  BY <1>3, DefaultType DEF Plan, ProviderPlan, Asks
<1> QED BY <1>1, <1>2, <1>3 DEF Asks

\* The plan of a request with a selection starts with it and names nobody
\* twice; without fallback it has no other entry.
LEMMA SelectedComesFirst ==
    ASSUME NEW r, Asks(r), r.selected # NoName
    PROVE  LET plan == Plan(r)
           IN /\ Len(plan) \in Nat \ {0}
              /\ plan[1] = r.selected
              /\ \A i, j \in 1..Len(plan) : i # j => plan[i] # plan[j]
              /\ ~r.fallback => Len(plan) = 1
<1>1. CASE r.fallback
  <2> DEFINE plan == Plan(r)
             names == r.chain \o DefaultProviderChain(r.recipient_type)
             all == <<r.selected>> \o names
  <2>1. PlanOf(plan, all, Len(all)) /\ Prepends(all, STRING, r.selected, names)
    BY <1>1, PlanOfSelected
  <2> HIDE DEF plan, all, names
  <2>2. Len(plan) \in Nat \ {0} /\ plan[1] = r.selected
    BY <2>1 DEF PlanOf, Prepends
  <2>3. ASSUME NEW i \in 1..Len(plan), NEW j \in 1..Len(plan), i < j
        PROVE  plan[i] # plan[j]
    <3>1. PICK k \in 1..Len(all) : all[k] = plan[i] /\ \A l \in 1..k : all[l] # plan[j]
      BY <2>1, <2>3 DEF PlanOf
    <3>2. k \in 1..k
      BY <2>1 DEF Prepends
    <3> QED BY <3>1, <3>2
  <2>4. \A i, j \in 1..Len(plan) : i # j => plan[i] # plan[j]
    BY <2>2, <2>3
  <2> QED BY <1>1, <2>2, <2>4 DEF plan
<1>2. CASE ~r.fallback
  <2>1. Plan(r) = <<r.selected>>
    BY <1>2 DEF Plan, ProviderPlan
  <2> QED BY <2>1
<1> QED BY <1>1, <1>2

-----------------------------------------------------------------------------
(* The plan is what the policy says *)

\* Pos is the first position of what the sequence holds.
LEMMA FirstPosition ==
    ASSUME NEW seq \in Seq(STRING), NEW k \in 1..Len(seq)
    PROVE  /\ Pos(seq[k], seq) \in 1..k
           /\ seq[Pos(seq[k], seq)] = seq[k]
           /\ \A j \in 1..(Pos(seq[k], seq) - 1) : seq[j] # seq[k]
<1> DEFINE x == seq[k]
           T == {i \in 1..k : seq[i] = x}
<1>1. Len(seq) \in Nat /\ DOMAIN seq = 1..Len(seq)
  OBVIOUS
<1>2. T \in SUBSET Nat /\ T # {}
  BY <1>1
<1>3. PICK m \in T : \A n \in T : m <= n
  <2> HIDE DEF T
  <2> QED BY <1>2, LeastNatural
<1>4. m \in DOMAIN seq /\ seq[m] = x /\ \A j \in 1..(m - 1) : seq[j] # x
  <2>1. m \in 1..k /\ seq[m] = x
    BY <1>1
  <2>2. ASSUME NEW j \in 1..(m - 1), seq[j] = x PROVE FALSE
    <3>1. j \in T /\ j < m
      BY <1>1, <2>1, <2>2
    <3> QED BY <1>3, <2>1, <3>1
  <2> QED BY <1>1, <2>1, <2>2
<1> DEFINE p == Pos(x, seq)
<1>5. p \in DOMAIN seq /\ seq[p] = x /\ \A j \in 1..(p - 1) : seq[j] # x
  <2> HIDE DEF x
  <2> QED BY <1>4, Zenon DEF Pos
<1>6. p <= k
  <2> HIDE DEF p
  <2> SUFFICES ASSUME k < p PROVE FALSE
    BY <1>1, <1>5
  <2>1. k \in 1..(p - 1)
    BY <1>1, <1>5
  <2> QED BY <1>5, <2>1
<1> QED BY <1>1, <1>5, <1>6

\* A plan of all the names is in the order in which they appear.
LEMMA PlanIsInOrder ==
    ASSUME NEW all \in Seq(STRING), NEW plan, PlanOf(plan, all, Len(all))
    PROVE  InOrderOfAppearance(plan, all)
<1>1. /\ plan \in Seq(STRING) /\ Len(plan) \in Nat /\ DOMAIN plan = 1..Len(plan)
      /\ Len(all) \in Nat /\ DOMAIN all = 1..Len(all)
  BY DEF PlanOf
<1>2. Named(plan) = Named(all)
  <2>1. ASSUME NEW x \in Named(plan) PROVE x \in Named(all)
    <3>1. PICK i \in 1..Len(plan) : plan[i] = x /\ x # NoName
      BY <1>1 DEF Named
    <3>2. PICK k \in 1..Len(all) : all[k] = plan[i]
      BY DEF PlanOf
    <3> QED BY <1>1, <3>1, <3>2 DEF Named
  <2>2. ASSUME NEW x \in Named(all) PROVE x \in Named(plan)
    <3>1. PICK k \in 1..Len(all) : all[k] = x /\ x # NoName
      BY <1>1 DEF Named
    <3>2. PICK i \in 1..Len(plan) : plan[i] = all[k]
      BY <3>1 DEF PlanOf
    <3> QED BY <1>1, <3>1, <3>2 DEF Named
  <2> QED BY <2>1, <2>2
<1>3. ASSUME NEW i \in 1..Len(plan), NEW j \in 1..Len(plan), i < j
      PROVE  Pos(plan[i], all) < Pos(plan[j], all) /\ plan[i] # plan[j]
  <2>1. PICK k \in 1..Len(all) : all[k] = plan[i] /\ \A l \in 1..k : all[l] # plan[j]
    BY <1>3 DEF PlanOf
  <2>2. PICK m \in 1..Len(all) : all[m] = plan[j]
    BY DEF PlanOf
  <2>3. Pos(plan[i], all) \in 1..k
    BY <2>1, FirstPosition
  <2>4. Pos(plan[j], all) \in 1..m /\ all[Pos(plan[j], all)] = plan[j]
    BY <2>2, FirstPosition
  <2>5. ~(Pos(plan[j], all) <= k) /\ k \in 1..k
    BY <1>1, <2>1, <2>4
  <2> QED BY <1>1, <2>1, <2>3, <2>4, <2>5
<1>4. Len(plan) = Cardinality(Named(all))
  <2>1. \A i, j \in 1..Len(plan) : i # j => plan[i] # plan[j]
    BY <1>1, <1>3
  <2>2. \A i \in 1..Len(plan) : plan[i] \in Named(plan)
    BY <1>1 DEF PlanOf, Named
  <2>3. \A x \in Named(plan) : \E i \in 1..Len(plan) : plan[i] = x
    BY <1>1 DEF Named
  <2> DEFINE f == [i \in 1..Len(plan) |-> plan[i]]
  <2>4. f \in Bijection(1..Len(plan), Named(plan))
    <3>1. f \in [1..Len(plan) -> Named(plan)]
      BY <2>2
    <3>2. \A i, j \in 1..Len(plan) : f[i] = f[j] => i = j
      BY <2>1
    <3>3. \A x \in Named(plan) : \E i \in 1..Len(plan) : f[i] = x
      BY <2>3
    <3> QED BY <3>1, <3>2, <3>3 DEF Bijection, Injection, Surjection, IsInjective
  <2>5. ExistsBijection(1..Len(plan), Named(plan))
    BY <2>4 DEF ExistsBijection
  <2>6. Cardinality(Named(plan)) = Len(plan)
    BY <1>1, <2>5, FS_CountingElements
  <2> QED BY <1>2, <2>6
<1> QED BY <1>1, <1>2, <1>3, <1>4 DEF InOrderOfAppearance

\* The plan that ProviderPlan computes is the one the policy describes, for any
\* chains, any selection and any configuration.
LEMMA PlanFollowsPolicy ==
    ASSUME NEW r, Asks(r)
    PROVE  Policy(r, Plan(r))
<1> DEFINE default == DefaultProviderChain(r.recipient_type)
           all == <<r.selected>> \o (r.chain \o default)
<1>1. CASE r.selected # NoName /\ r.fallback
  <2>1. Prepends(all, STRING, r.selected, r.chain \o default) /\ PlanOf(Plan(r), all, Len(all))
    BY <1>1, PlanOfSelected
  <2>2. InOrderOfAppearance(Plan(r), all)
    <3> HIDE DEF all
    <3> QED BY <2>1, PlanIsInOrder DEF Prepends
  <2> QED BY <1>1, <2>2 DEF Policy
<1>2. CASE r.selected # NoName /\ ~r.fallback
  BY <1>2 DEF Policy, Plan, ProviderPlan
<1>3. CASE r.selected = NoName
  BY <1>3 DEF Policy, Plan, ProviderPlan
<1> QED BY <1>1, <1>2, <1>3 DEF Asks

\* The requests of PolicySpec ask for names in a sequence.
LEMMA CasesAsk ==
    ASSUME PolicyInit
    PROVE  Asks(event) /\ event.recipient_type \in RecipientTypes
<1>1. /\ event.selected \in ProviderNames \cup {NoName} /\ event.chain \in Chains
      /\ event.fallback \in BOOLEAN /\ event.recipient_type \in RecipientTypes
  BY DEF PolicyInit
<1>2. ProviderNames \cup {NoName} \subseteq STRING
  BY CasesAssumption, Zenon
<1>3. PICK n \in Nat : event.chain \in [1..n -> ProviderNames \cup {NoName}]
  BY <1>1, CasesAssumption DEF Chains
<1>4. event.chain \in [1..n -> STRING]
  BY <1>2, <1>3
<1>5. event.chain \in Seq(STRING)
  BY <1>4, SeqDef, Zenon
<1> QED BY <1>1, <1>2, <1>5 DEF Asks

\* ProviderPlan agrees with the policy for every request, whatever the names,
\* the length of its chain and the channels' defaults.
THEOREM PlansFollowPolicy == PolicySpec => []PlanIsPolicy
<1>1. PolicyInit => PlanIsPolicy
  BY CasesAsk, PlanFollowsPolicy DEF PlanIsPolicy
<1>2. PlanIsPolicy /\ [UNCHANGED event]_event => PlanIsPolicy'
  BY DEF PlanIsPolicy
<1> QED BY <1>1, <1>2, PTL DEF PolicySpec

\* A valid request always has somebody to try: Handle's provider_chain_empty
\* needs a configuration that config.Load does not produce.
THEOREM PlansAreNeverEmpty == PolicySpec => []PlanIsNeverEmpty
<1>1. PolicyInit => PlanIsNeverEmpty
  <2> SUFFICES ASSUME PolicyInit PROVE Plan(event) # <<>>
    BY DEF PlanIsNeverEmpty
  <2>1. Asks(event) /\ DefaultProviderChain(event.recipient_type) # <<>>
    BY CasesAsk, DefaultType
  <2>2. CASE event.selected # NoName
    <3>1. Len(Plan(event)) \in Nat \ {0}
      BY <2>1, <2>2, SelectedComesFirst
    <3> QED BY <3>1
  <2>3. CASE event.selected = NoName
    BY <2>1, <2>3 DEF Plan, ProviderPlan
  <2> QED BY <2>2, <2>3
<1>2. PlanIsNeverEmpty /\ [UNCHANGED event]_event => PlanIsNeverEmpty'
  BY DEF PlanIsNeverEmpty
<1> QED BY <1>1, <1>2, PTL DEF PolicySpec
=============================================================================
