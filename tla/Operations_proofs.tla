-------------------------- MODULE Operations_proofs --------------------------
(***************************************************************************)
(* The properties of paid periods, teams, plans and requests, for every    *)
(* size of each.  One part moves at a time, so each has an invariant of    *)
(* its own; what a part relies on is assumed where its theorem is stated.  *)
(*                                                                         *)
(* SettledAgrees says nothing of a charge with events under way:           *)
(* PaymentFollows adds that the payment is behind its charge by exactly    *)
(* the events still to come.  TimeMatchesMoney needs that an active        *)
(* subscription was bought for its plan, and what a cash registration has  *)
(* read to be there still.                                                 *)
(***************************************************************************)
EXTENDS Operations, FiniteSetTheorems, SequenceTheorems, WellFoundedInduction, TLAPS

-----------------------------------------------------------------------------
(* Paid periods: the numbers and queues they are made of.                  *)

\* A set of subscriptions has a last one and a first one.
LEMMA LastExists ==
    ASSUME NEW S \in SUBSET SubIds, S # {}
    PROVE  Max(S) \in S
<1> DEFINE bounds == {n \in Nat : \A y \in S : y <= n}
           less == {p \in Nat \X Nat : p[1] < p[2]}
<1>1. IsWellFoundedOn(less, Nat)
  BY NatLessThanWellFounded DEF OpToRel
<1>2. MaxSubs \in bounds
  BY OperationsAssumption DEF PeriodsAssumption, SubIds
<1>3. \E x \in bounds : \A y \in bounds : ~(<<y, x>> \in less)
  <2> HIDE DEF less
  <2> QED  BY <1>1, <1>2, WFMin
<1>4. PICK x \in bounds : \A y \in bounds : ~(<<y, x>> \in less)
  BY <1>3
<1>5. x \in S
  <2>1. SUFFICES ASSUME x \notin S PROVE FALSE
    OBVIOUS
  <2>2. PICK y \in S : TRUE
    OBVIOUS
  <2>3. y \in Nat /\ y >= 1 /\ y <= x /\ x \in Nat
    BY OperationsAssumption DEF PeriodsAssumption, SubIds
  <2>4. \A z \in S : z \in Nat /\ z <= x /\ z # x
    BY <2>1, OperationsAssumption DEF PeriodsAssumption, SubIds
  <2>5. x - 1 \in bounds
    BY <2>3, <2>4
  <2>6. <<x - 1, x>> \in less
    BY <2>3
  <2> QED  BY <1>4, <2>5, <2>6
<1>6. QED  BY <1>5 DEF Max

LEMMA FirstExists ==
    ASSUME NEW S \in SUBSET SubIds, S # {}
    PROVE  Min(S) \in S
<1> DEFINE less == {p \in Nat \X Nat : p[1] < p[2]}
<1>1. IsWellFoundedOn(less, Nat)
  BY NatLessThanWellFounded DEF OpToRel
<1>2. S \subseteq Nat
  BY OperationsAssumption DEF PeriodsAssumption, SubIds
<1>3. \E x \in S : \A y \in S : ~(<<y, x>> \in less)
  <2> HIDE DEF less
  <2> QED  BY <1>1, <1>2, WFMin
<1>4. \E x \in S : \A y \in S : x <= y
  <2>1. PICK x \in S : \A y \in S : ~(<<y, x>> \in less)
    BY <1>3
  <2>2. ASSUME NEW y \in S PROVE x <= y
    <3>1. x \in Nat /\ y \in Nat
      BY <1>2
    <3>2. SUFFICES ASSUME y < x PROVE FALSE
      BY <3>1
    <3>3. <<y, x>> \in less
      BY <3>1, <3>2
    <3>4. QED  BY <2>1, <3>3
  <2> QED  BY <2>2
<1>5. QED  BY <1>4 DEF Min

\* What is left of a queue without its first element.
LEMMA TailOf ==
    ASSUME NEW S, NEW q \in Seq(S), q # <<>>
    PROVE  /\ RemoveAt(q, 1) \in Seq(S) /\ Len(RemoveAt(q, 1)) = Len(q) - 1
           /\ \A i \in 1..(Len(q) - 1) : RemoveAt(q, 1)[i] = q[i + 1]
<1>1. RemoveAt(q, 1) = SubSeq(q, 1, 0) \o SubSeq(q, 2, Len(q))
  BY DEF RemoveAt
<1>2. Len(q) \in Nat /\ Len(q) >= 1
  OBVIOUS
<1>3. PICK a : a = SubSeq(q, 1, 0)
  OBVIOUS
<1>4. a \in Seq(S) /\ Len(a) = 0
  BY <1>3, <1>2
<1>5. PICK b : b = SubSeq(q, 2, Len(q))
  OBVIOUS
<1>6. /\ SubSeq(q, 2, Len(q)) \in Seq(S)
      /\ Len(SubSeq(q, 2, Len(q))) = IF 2 <= Len(q) THEN Len(q) - 2 + 1 ELSE 0
      /\ \A i \in 1..(Len(q) - 2 + 1) : SubSeq(q, 2, Len(q))[i] = q[2 + i - 1]
  <2>1. \A i \in 2..Len(q) : q[i] \in S
    BY <1>2
  <2>2. 2 \in Int /\ Len(q) \in Int
    BY <1>2
  <2> QED  BY <2>1, <2>2, SubSeqProperties
<1>7. /\ b \in Seq(S)
      /\ Len(b) = IF 2 <= Len(q) THEN Len(q) - 2 + 1 ELSE 0
      /\ \A i \in 1..(Len(q) - 2 + 1) : b[i] = q[2 + i - 1]
  BY <1>5, <1>6, Zenon
<1>8. Len(b) = Len(q) - 1 /\ \A i \in 1..(Len(q) - 1) : b[i] = q[i + 1]
  <2>1. \A n \in Nat : n >= 1 => (IF 2 <= n THEN n - 2 + 1 ELSE 0) = n - 1
    OBVIOUS
  <2>2. Len(b) = Len(q) - 1
    BY <1>2, <1>7, <2>1, Zenon
  <2>3. \A n \in Nat, i \in Int : n - 2 + 1 = n - 1 /\ 2 + i - 1 = i + 1
    OBVIOUS
  <2>4. ASSUME NEW i \in 1..(Len(q) - 1) PROVE b[i] = q[i + 1]
    <3>1. i \in 1..(Len(q) - 2 + 1) /\ i \in Int
      BY <1>2, <2>4
    <3>2. b[i] = q[2 + i - 1]
      BY <1>7, <3>1, Zenon
    <3> QED  BY <2>3, <1>2, <3>1, <3>2, Zenon
  <2> QED  BY <2>2, <2>4
<1>9. RemoveAt(q, 1) = a \o b
  BY <1>1, <1>3, <1>5
<1>10. QED  BY <1>2, <1>4, <1>7, <1>8, <1>9

LEMMA CycleTimes ==
    ASSUME NEW n \in Nat
    PROVE  Cycle * (n + 1) = Cycle * n + Cycle /\ Cycle * n \in Int /\ Cycle \in Nat \ {0}
BY OperationsAssumption DEF PeriodsAssumption

-----------------------------------------------------------------------------
(* Paid periods.                                                           *)

PlanNames == {"none"} \cup {PlanOf[p] : p \in Pays}
SubRows ==
    [status : {"none", "ACTIVE", "CANCELLED"}, started : Nat, expires : Int, plan : PlanNames]
PayRows ==
    [status : {"none", "PENDING", "PROCESSING", "FAILED", "CANCELED", "SUCCESS",
               "PARTIALLY_REFUNDED", "REFUNDED", "DISPUTED"},
     invoice : {"OPEN", "PAID", "VOID", "UNCOLLECTIBLE"},
     sub : SubIds \cup {0}, revoked : BOOLEAN, disputed : BOOLEAN]
ChargeViews ==
    [intent : {"open", "processing", "failed", "succeeded", "canceled"},
     refund : {"none", "part", "full"}, dispute : {"none", "open", "won", "lost"}]
Kinds == {"succeeded", "failed", "processing", "canceled", "partial_refund", "full_refund",
          "dispute_opened", "dispute_won", "dispute_lost"}
OpenCash == [pay : Cash, sub : SubIds \cup {0}, plan : PlanNames, expires : Int]

PeriodTypes ==
    /\ today \in Nat
    /\ subs \in [SubIds -> SubRows]
    /\ pays \in [Pays -> PayRows]
    /\ stripe \in [Charges -> ChargeViews]
    /\ events \in [Charges -> Seq(Kinds)]
    /\ cash \in {Nobody} \cup OpenCash

\* The money of a charge, seen as v, went back.
Back(v) == v.refund = "full" \/ v.dispute = "lost"

\* The row q of a payment is what its charge, seen as v, makes it.
Agrees(q, v) ==
    /\ q.revoked = Back(v)
    /\ (q.sub # 0) = (v.intent = "succeeded")
    /\ q.invoice = "PAID" <=> v.intent = "succeeded" /\ ~Back(v)
    /\ v.refund = "full" => q.status = "REFUNDED"
    /\ v.dispute = "lost" => q.status = "DISPUTED"
    /\ q.disputed <=> v.dispute \in {"open", "lost"}
    /\ v.intent # "succeeded"
       => v.refund = "none" /\ v.dispute = "none" /\ q.status # "SUCCESS"
    /\ v.dispute = "open" => v.refund # "full"

\* A change of a charge from v to w is told by an event of this kind.
Tells(v, kind, w) ==
    \/ /\ kind \in {"succeeded", "failed", "processing", "canceled"}
       /\ v.intent \in {"open", "processing", "failed"}
       /\ w = [v EXCEPT !.intent = kind]
    \/ /\ v.intent = "succeeded" /\ v.dispute \in {"none", "won"}
       /\ v.refund # "full"
       /\ \/ kind = "partial_refund" /\ w = [v EXCEPT !.refund = "part"]
          \/ kind = "full_refund" /\ w = [v EXCEPT !.refund = "full"]
    \/ /\ v.intent = "succeeded" /\ v.refund # "full" /\ v.dispute = "none"
       /\ kind = "dispute_opened" /\ w = [v EXCEPT !.dispute = "open"]
    \/ /\ v.dispute = "open"
       /\ \/ kind = "dispute_won" /\ w = [v EXCEPT !.dispute = "won"]
          \/ kind = "dispute_lost" /\ w = [v EXCEPT !.dispute = "lost"]

\* The events q, one after the other, tell how v became c.
TellHow(v, q, c) ==
    \E V \in [1..(Len(q) + 1) -> ChargeViews] :
        /\ V[1] = v /\ V[Len(q) + 1] = c
        /\ \A i \in 1..Len(q) : Tells(V[i], q[i], V[i + 1])

\* The row of a card payment is behind its charge by the events still to come.
PaymentFollows(p) ==
    \E v \in ChargeViews : Agrees(pays[p], v) /\ TellHow(v, events[p], stripe[p])

\* An active subscription was bought, and lasts as long as was paid.
TimeIsBought(s) ==
    /\ IsFiniteSet(Counted(s))
    /\ subs[s].status = "none" => Bought(s) = {}
    /\ subs[s].status = "ACTIVE" =>
          /\ \E p \in Bought(s) : PlanOf[p] = subs[s].plan
          /\ OnePlan(s) => subs[s].expires = PaidUntil(s)

\* Cash is never given back; an open registration has read what is there still.
CashAgrees ==
    /\ \A p \in Cash : /\ ~pays[p].revoked
                       /\ pays[p].status = "none" => pays[p].sub = 0
    /\ cash # Nobody =>
          /\ cash.pay \in Cash /\ pays[cash.pay].status = "none"
          /\ cash.sub = Primary
          /\ cash.sub # 0 => /\ cash.plan = subs[cash.sub].plan
                             /\ cash.expires = subs[cash.sub].expires

PeriodInv ==
    /\ PeriodTypes /\ CashAgrees
    /\ \A p \in Charges : PaymentFollows(p)
    /\ \A s \in SubIds : TimeIsBought(s)

\* Events in order and cash in one piece: what the periods are sound under.
Orderly == InOrder /\ ~CashRaces

\* A row and a charge that agree when everything was told.
LEMMA ToldAll ==
    ASSUME NEW v, NEW c, TellHow(v, <<>>, c)
    PROVE  v = c
BY DEF TellHow

\* The oldest event tells the first step.
LEMMA ToldFirst ==
    ASSUME NEW v, NEW c, NEW q \in Seq(Kinds), q # <<>>, TellHow(v, q, c)
    PROVE  \E w \in ChargeViews : Tells(v, q[1], w) /\ TellHow(w, RemoveAt(q, 1), c)
<1>1. PICK V \in [1..(Len(q) + 1) -> ChargeViews] :
        /\ V[1] = v /\ V[Len(q) + 1] = c
        /\ \A i \in 1..Len(q) : Tells(V[i], q[i], V[i + 1])
  BY DEF TellHow
<1>2. PICK t : t = RemoveAt(q, 1)
  OBVIOUS
<1>3. /\ t \in Seq(Kinds) /\ Len(t) = Len(q) - 1
      /\ \A i \in 1..(Len(q) - 1) : t[i] = q[i + 1]
  BY <1>2, TailOf
<1>4. Len(q) \in Nat /\ Len(q) >= 1
  OBVIOUS
<1>5. PICK W : W = [i \in 1..(Len(t) + 1) |-> V[i + 1]]
  OBVIOUS
<1>6. W \in [1..(Len(t) + 1) -> ChargeViews]
  BY <1>1, <1>3, <1>4, <1>5
<1>7. W[1] = V[2] /\ W[Len(t) + 1] = c
  BY <1>1, <1>3, <1>4, <1>5
<1>8. ASSUME NEW i \in 1..Len(t) PROVE Tells(W[i], t[i], W[i + 1])
  <2>1. i + 1 \in 1..Len(q) /\ i \in 1..(Len(q) - 1) /\ i + 1 + 1 = i + 2
    BY <1>3, <1>4
  <2>2. W[i] = V[i + 1] /\ W[i + 1] = V[i + 2] /\ t[i] = q[i + 1]
    BY <1>3, <1>4, <1>5, <2>1
  <2>3. Tells(V[i + 1], q[i + 1], V[i + 2])
    BY <1>1, <2>1
  <2> QED  BY <2>2, <2>3
<1>9. TellHow(V[2], t, c)
  BY <1>6, <1>7, <1>8 DEF TellHow
<1>10. V[2] \in ChargeViews /\ Tells(v, q[1], V[2])
  BY <1>1, <1>4
<1> QED  BY <1>2, <1>9, <1>10

\* A change that is told is told last.
LEMMA ToldLast ==
    ASSUME NEW v, NEW c \in ChargeViews, NEW d \in ChargeViews, NEW kind \in Kinds,
           NEW q \in Seq(Kinds), TellHow(v, q, c), Tells(c, kind, d)
    PROVE  TellHow(v, Append(q, kind), d)
<1>1. PICK V \in [1..(Len(q) + 1) -> ChargeViews] :
        /\ V[1] = v /\ V[Len(q) + 1] = c
        /\ \A i \in 1..Len(q) : Tells(V[i], q[i], V[i + 1])
  BY DEF TellHow
<1>2. PICK t : t = Append(q, kind)
  OBVIOUS
<1>3. Len(q) \in Nat /\ Len(t) = Len(q) + 1 /\ t[Len(q) + 1] = kind
  BY <1>2
<1>4. \A i \in 1..Len(q) : t[i] = q[i]
  BY <1>2
<1>5. PICK W : W = [i \in 1..(Len(t) + 1) |-> IF i = Len(t) + 1 THEN d ELSE V[i]]
  OBVIOUS
<1>6. W \in [1..(Len(t) + 1) -> ChargeViews]
  BY <1>1, <1>3, <1>5
<1>7. W[1] = v /\ W[Len(t) + 1] = d
  BY <1>1, <1>3, <1>5
<1>8. ASSUME NEW i \in 1..Len(t) PROVE Tells(W[i], t[i], W[i + 1])
  <2>1. CASE i = Len(q) + 1
    <3>1. W[i] = c /\ W[i + 1] = d /\ t[i] = kind
      BY <1>1, <1>3, <1>5, <2>1
    <3> QED  BY <3>1
  <2>2. CASE i # Len(q) + 1
    <3>1. i \in 1..Len(q)
      BY <1>3, <2>2
    <3>2. W[i] = V[i] /\ W[i + 1] = V[i + 1] /\ t[i] = q[i]
      BY <1>3, <1>4, <1>5, <3>1
    <3> QED  BY <1>1, <3>1, <3>2
  <2> QED  BY <2>1, <2>2
<1> QED  BY <1>2, <1>6, <1>7, <1>8 DEF TellHow

\* The constants a proof needs.
LEMMA PeriodConstants ==
    /\ Cycle \in Nat /\ Cycle > 0
    /\ Charges \subseteq Pays /\ Cash \subseteq Pays /\ Charges \cap Cash = {}
    /\ SubIds \subseteq Nat /\ 0 \notin SubIds
BY OperationsAssumption DEF PeriodsAssumption, Pays, SubIds

\* At the start nothing was bought, and no charge has anything to tell.
LEMMA PeriodsStart == Init => PeriodInv
<1> SUFFICES ASSUME Init PROVE PeriodInv
  OBVIOUS
<1>1. PeriodTypes
  <2>1. today \in Nat /\ subs \in [SubIds -> SubRows]
    BY DEF Init, NoSub, SubRows, PlanNames
  <2>2. pays \in [Pays -> PayRows]
    <3>1. ASSUME NEW p \in Pays
          PROVE  [status |-> IF p \in Cash THEN "none" ELSE "PENDING", invoice |-> "OPEN",
                  sub |-> 0, revoked |-> FALSE, disputed |-> FALSE] \in PayRows
      BY DEF PayRows
    <3> QED  BY <3>1, Zenon DEF Init
  <2>3. stripe \in [Charges -> ChargeViews] /\ cash \in {Nobody} \cup OpenCash
    BY DEF Init, ChargeViews
  <2>4. events \in [Charges -> Seq(Kinds)]
    BY DEF Init
  <2> QED  BY <2>1, <2>2, <2>3, <2>4 DEF PeriodTypes
<1>2. CashAgrees
  BY PeriodConstants DEF Init, CashAgrees
<1>3. ASSUME NEW p \in Charges PROVE PaymentFollows(p)
  <2> DEFINE v == [intent |-> "open", refund |-> "none", dispute |-> "none"]
  <2>1. v \in ChargeViews
    BY DEF ChargeViews
  <2>2. events[p] = <<>> /\ stripe[p] = v
    BY <1>3 DEF Init
  <2>3. TellHow(v, <<>>, v)
    <3> DEFINE V == [i \in 1..1 |-> v]
    <3>1. V \in [1..1 -> ChargeViews] /\ V[1] = v
      BY <2>1
    <3>2. Len(<<>>) = 0 /\ 1..0 = {} /\ 0 + 1 = 1
      OBVIOUS
    <3> HIDE DEF V
    <3> QED  BY <3>1, <3>2 DEF TellHow
  <2>4. PICK q : q = pays[p]
    OBVIOUS
  <2>5. /\ q.revoked = FALSE /\ q.sub = 0 /\ q.invoice = "OPEN" /\ q.disputed = FALSE
        /\ q.status = "PENDING"
    <3>1. p \in Pays /\ p \notin Cash
      BY PeriodConstants, <1>3
    <3>2. q = [status |-> IF p \in Cash THEN "none" ELSE "PENDING",
                 invoice |-> "OPEN", sub |-> 0, revoked |-> FALSE, disputed |-> FALSE]
      BY <2>4, <3>1 DEF Init
    <3> QED  BY <3>1, <3>2
  <2>6. Agrees(q, v)
    BY <2>5 DEF Agrees, Back
  <2> QED  BY <2>1, <2>2, <2>3, <2>4, <2>6 DEF PaymentFollows
<1>4. ASSUME NEW s \in SubIds PROVE TimeIsBought(s)
  <2>1. subs[s].status = "none"
    BY <1>4 DEF Init, NoSub
  <2>2. \A p \in Pays : pays[p].sub = 0
    BY DEF Init
  <2>3. Bought(s) = {}
    BY <2>2, <1>4, PeriodConstants DEF Bought
  <2>4. IsFiniteSet(Counted(s))
    BY <2>3, FS_EmptySet DEF Counted
  <2> QED  BY <2>1, <2>3, <2>4 DEF TimeIsBought
<1> QED  BY <1>1, <1>2, <1>3, <1>4 DEF PeriodInv

\* Another payment extends s, or opens it: it lasts a cycle more.
Extends(p, s) ==
    /\ pays[p].sub = 0 /\ pays'[p].sub = s /\ ~pays'[p].revoked
    /\ \A q \in Pays \ {p} : pays'[q] = pays[q]
    /\ \A t \in SubIds \ {s} : subs'[t] = subs[t]
    /\ subs'[s].status = "ACTIVE" /\ subs'[s].plan = PlanOf[p]
    /\ \/ /\ subs[s].status = "ACTIVE" /\ subs'[s].started = subs[s].started
          /\ subs[s].plan = PlanOf[p] => subs'[s].expires = subs[s].expires + Cycle
       \/ /\ subs[s].status = "none" /\ subs'[s].started = today
          /\ subs'[s].expires = today + Cycle

LEMMA OthersTime ==
    ASSUME NEW s \in SubIds, TimeIsBought(s), subs'[s] = subs[s],
           Bought(s)' = Bought(s), Counted(s)' = Counted(s)
    PROVE  TimeIsBought(s)'
BY DEF TimeIsBought, OnePlan, PaidUntil

LEMMA ExtendedTime ==
    ASSUME PeriodTypes, \A s \in SubIds : TimeIsBought(s),
           NEW p \in Pays, NEW s \in SubIds, Extends(p, s)
    PROVE  \A t \in SubIds : TimeIsBought(t)'
<1> USE PeriodConstants
<1>1. ASSUME NEW t \in SubIds, t # s PROVE TimeIsBought(t)'
  <2>1. subs'[t] = subs[t]
    BY <1>1 DEF Extends
  <2>2. Bought(t)' = Bought(t)
    BY <1>1 DEF Extends, Bought
  <2>3. p \notin Bought(t)
    BY <1>1 DEF Extends, Bought
  <2>4. Counted(t)' = Counted(t)
    BY <2>2, <2>3 DEF Counted, Extends, Bought
  <2> QED  BY <2>1, <2>2, <2>4, OthersTime
<1>2. TimeIsBought(s)'
  <2>1. p \notin Bought(s) /\ Bought(s)' = Bought(s) \cup {p}
    BY DEF Extends, Bought
  <2>2. p \notin Counted(s) /\ Counted(s)' = Counted(s) \cup {p}
    BY <2>1 DEF Counted, Extends, Bought
  <2>3. IsFiniteSet(Counted(s))
    BY DEF TimeIsBought
  <2>4. PICK n \in Nat : n = Cardinality(Counted(s))
    BY <2>3, FS_CardinalityType
  <2>5. IsFiniteSet(Counted(s)') /\ Cardinality(Counted(s)') = n + 1
    BY <2>2, <2>3, <2>4, FS_AddElement
  <2>6. PaidUntil(s) = subs[s].started + Cycle * n
    BY <2>4 DEF PaidUntil
  <2>7. PaidUntil(s)' = subs'[s].started + Cycle * (n + 1)
    BY <2>5 DEF PaidUntil
  <2>8. /\ Cycle * (n + 1) = Cycle * n + Cycle /\ Cycle * n \in Int
        /\ subs[s].started \in Int /\ subs[s].expires \in Int /\ today \in Int
    BY CycleTimes DEF PeriodTypes, SubRows
  <2>9. ASSUME OnePlan(s)' PROVE subs'[s].expires = PaidUntil(s)'
    <3>1. CASE subs[s].status = "ACTIVE"
      <4>1. PICK q \in Bought(s) : PlanOf[q] = subs[s].plan
        BY <3>1 DEF TimeIsBought
      <4>2. \A r \in Bought(s)' : PlanOf[r] = subs'[s].plan
        BY <2>9 DEF OnePlan
      <4>3. subs[s].plan = PlanOf[p] /\ subs'[s].plan = PlanOf[p]
        BY <2>1, <4>1, <4>2 DEF Extends
      <4>4. OnePlan(s)
        BY <2>1, <4>2, <4>3 DEF OnePlan
      <4>5. subs[s].expires = subs[s].started + Cycle * n
        BY <2>6, <3>1, <4>4 DEF TimeIsBought
      <4>6. subs'[s].expires = subs[s].expires + Cycle /\ subs'[s].started = subs[s].started
        BY <3>1, <4>3 DEF Extends
      <4> QED  BY <2>7, <2>8, <4>5, <4>6
    <3>2. CASE subs[s].status # "ACTIVE"
      <4>1. /\ subs[s].status = "none" /\ subs'[s].started = today
            /\ subs'[s].expires = today + Cycle
        BY <3>2 DEF Extends
      <4>2. Counted(s) = {}
        BY <4>1 DEF TimeIsBought, Counted
      <4>3. n = 0
        BY <2>4, <4>2, FS_EmptySet
      <4>4. Cycle * 0 = 0
        OBVIOUS
      <4> QED  BY <2>7, <2>8, <4>1, <4>3, <4>4
    <3> QED  BY <3>1, <3>2
  <2>10. \E q \in Bought(s)' : PlanOf[q] = subs'[s].plan
    BY <2>1 DEF Extends
  <2>11. subs'[s].status = "ACTIVE"
    BY DEF Extends
  <2> QED  BY <2>5, <2>9, <2>10, <2>11 DEF TimeIsBought
<1> QED  BY <1>1, <1>2

\* The payment p is given back: what it bought is a cycle shorter, or over.
LEMMA ShortenedTime ==
    ASSUME PeriodTypes, \A s \in SubIds : TimeIsBought(s), NEW p \in Pays,
           subs' = Revoked(p), today' = today, pays'[p].revoked, pays'[p].sub = pays[p].sub,
           \A q \in Pays \ {p} : pays'[q] = pays[q]
    PROVE  \A t \in SubIds : TimeIsBought(t)'
<1> USE PeriodConstants
<1>1. \A t \in SubIds : Bought(t)' = Bought(t)
  BY DEF Bought
<1>2. CASE ~pays[p].revoked /\ pays[p].sub # 0
  <2>1. PICK s \in SubIds : s = pays[p].sub
    BY <1>2 DEF PeriodTypes, PayRows
  <2>2. subs' = Shortened(s)
    BY <1>2, <2>1 DEF Revoked
  <2>3. PICK old \in SubRows : old = subs[s]
    BY DEF PeriodTypes
  <2>4. PICK new : new = [subs[s] EXCEPT !.expires = subs[s].expires - Cycle,
                            !.status = IF subs[s].expires - Cycle <= today THEN "CANCELLED"
                                       ELSE @]
    OBVIOUS
  <2>5. subs' = [subs EXCEPT ![s] = new]
    BY <2>2, <2>4, Zenon DEF Shortened
  <2>6. subs'[s] = new /\ \A t \in SubIds \ {s} : subs'[t] = subs[t]
    BY <2>5 DEF PeriodTypes
  <2>7. /\ new.started = old.started /\ new.plan = old.plan
        /\ new.expires = old.expires - Cycle
        /\ new.status \in {old.status, "CANCELLED"}
        /\ old.expires \in Int /\ old.started \in Int
    BY <2>3, <2>4 DEF SubRows
  <2>8. ASSUME NEW t \in SubIds, t # s PROVE TimeIsBought(t)'
    <3>1. Counted(t)' = Counted(t)
      BY <1>1, <2>1, <2>8 DEF Counted, Bought
    <3> QED  BY <1>1, <2>6, <2>8, <3>1, OthersTime
  <2>9. TimeIsBought(s)'
    <3>1. p \in Counted(s) /\ Counted(s)' = Counted(s) \ {p}
      BY <1>1, <1>2, <2>1 DEF Counted, Bought
    <3>2. IsFiniteSet(Counted(s))
      BY DEF TimeIsBought
    <3>3. PICK n \in Nat : n = Cardinality(Counted(s)')
      <4>1. IsFiniteSet(Counted(s)')
        BY <3>1, <3>2, FS_RemoveElement
      <4> QED  BY <4>1, FS_CardinalityType
    <3>4. IsFiniteSet(Counted(s)') /\ Cardinality(Counted(s)) = n + 1
      <4>1. IsFiniteSet(Counted(s)') /\ Cardinality(Counted(s)') = Cardinality(Counted(s)) - 1
        BY <3>1, <3>2, FS_RemoveElement
      <4>2. Cardinality(Counted(s)) \in Nat
        BY <3>2, FS_CardinalityType
      <4> QED  BY <3>3, <4>1, <4>2
    <3>5. /\ PaidUntil(s) = old.started + Cycle * (n + 1)
          /\ PaidUntil(s)' = new.started + Cycle * n
      BY <2>3, <2>6, <3>3, <3>4 DEF PaidUntil
    <3>6. Cycle * (n + 1) = Cycle * n + Cycle /\ Cycle * n \in Int
      BY CycleTimes
    <3>7. ASSUME new.status = "ACTIVE", OnePlan(s)' PROVE new.expires = PaidUntil(s)'
      <4>1. old.status = "ACTIVE"
        BY <2>7, <3>7
      <4>2. OnePlan(s)
        BY <1>1, <2>3, <2>6, <2>7, <3>7 DEF OnePlan
      <4>3. old.expires = PaidUntil(s)
        BY <2>3, <4>1, <4>2 DEF TimeIsBought
      <4> QED  BY <2>7, <3>5, <3>6, <4>3
    <3>8. ASSUME new.status = "ACTIVE" PROVE \E q \in Bought(s)' : PlanOf[q] = new.plan
      <4>1. old.status = "ACTIVE"
        BY <2>7, <3>8
      <4> QED  BY <1>1, <2>3, <2>7, <4>1 DEF TimeIsBought
    <3>9. ASSUME new.status = "none" PROVE Bought(s)' = {}
      <4>1. old.status = "none"
        BY <2>7, <3>9
      <4> QED  BY <1>1, <2>3, <4>1 DEF TimeIsBought
    <3> QED  BY <2>6, <3>4, <3>7, <3>8, <3>9 DEF TimeIsBought
  <2> QED  BY <2>8, <2>9
<1>3. CASE pays[p].revoked \/ pays[p].sub = 0
  <2>1. subs' = subs
    BY <1>3 DEF Revoked
  <2>2. ASSUME NEW t \in SubIds PROVE Counted(t)' = Counted(t)
    BY <1>1, <1>3, <2>2 DEF Counted, Bought
  <2> QED  BY <1>1, <2>1, <2>2, OthersTime
<1> QED  BY <1>2, <1>3

\* What no payment is given back or bought by stays as it was.
LEMMA SameTime ==
    ASSUME \A s \in SubIds : TimeIsBought(s), subs' = subs,
           \A q \in Pays : pays'[q].sub = pays[q].sub /\ pays'[q].revoked = pays[q].revoked
    PROVE  \A t \in SubIds : TimeIsBought(t)'
BY OthersTime DEF Bought, Counted

\* The event delivered is the oldest, and tells what the payment does not know yet.
LEMMA DeliveredView ==
    ASSUME PeriodInv, Orderly, NEW p \in Charges, NEW n, NEW kind, Delivers(p, n, kind)
    PROVE  /\ n = 1 /\ cash = Nobody /\ cash' = Nobody /\ today' = today
           /\ stripe' = stripe /\ events' \in [Charges -> Seq(Kinds)]
           /\ \A q \in Charges \ {p} : events'[q] = events[q]
           /\ \E v, w \in ChargeViews :
                /\ Agrees(pays[p], v) /\ Tells(v, kind, w)
                /\ TellHow(w, events'[p], stripe'[p])
<1>1. /\ n = 1 /\ cash = Nobody /\ cash' = Nobody /\ today' = today /\ stripe' = stripe
      /\ n \in 1..Len(events[p]) /\ events[p][1] = kind
      /\ events' = [events EXCEPT ![p] = RemoveAt(events[p], n)]
  BY DEF Orderly, Delivers
<1>2. PICK q : q = events[p]
  OBVIOUS
<1>3. q \in Seq(Kinds) /\ q # <<>> /\ q[1] = kind
  BY <1>1, <1>2 DEF PeriodInv, PeriodTypes
<1>4. RemoveAt(q, 1) \in Seq(Kinds)
  BY <1>3, TailOf
<1>5. /\ events'[p] = RemoveAt(q, 1) /\ events' \in [Charges -> Seq(Kinds)]
      /\ \A r \in Charges \ {p} : events'[r] = events[r]
  BY <1>1, <1>2, <1>4 DEF PeriodInv, PeriodTypes
<1>6. PICK v \in ChargeViews : Agrees(pays[p], v) /\ TellHow(v, q, stripe[p])
  BY <1>2 DEF PeriodInv, PaymentFollows
<1>7. PICK w \in ChargeViews : Tells(v, q[1], w) /\ TellHow(w, RemoveAt(q, 1), stripe[p])
  BY <1>3, <1>6, ToldFirst
<1> QED  BY <1>1, <1>3, <1>5, <1>6, <1>7

\* A handler that leaves the payment as the event tells it.
LEMMA DeliveredKeeps ==
    ASSUME PeriodInv, Orderly, NEW p \in Charges, NEW n, NEW kind, Delivers(p, n, kind),
           NEW q \in PayRows, pays' = [pays EXCEPT ![p] = q],
           \A v, w \in ChargeViews : Agrees(pays[p], v) /\ Tells(v, kind, w) => Agrees(q, w),
           subs' \in [SubIds -> SubRows], \A s \in SubIds : TimeIsBought(s)'
    PROVE  PeriodInv'
<1> USE PeriodConstants
<1>1. PICK v, w \in ChargeViews :
        Agrees(pays[p], v) /\ Tells(v, kind, w) /\ TellHow(w, events'[p], stripe'[p])
  BY DeliveredView
<1>2. /\ cash' = Nobody /\ today' = today /\ stripe' = stripe
      /\ events' \in [Charges -> Seq(Kinds)]
      /\ \A r \in Charges \ {p} : events'[r] = events[r]
  BY DeliveredView
<1>3. /\ pays' \in [Pays -> PayRows] /\ pays'[p] = q
      /\ \A r \in Pays \ {p} : pays'[r] = pays[r]
  BY Zenon DEF PeriodInv, PeriodTypes
<1>4. PeriodTypes'
  BY <1>2, <1>3 DEF PeriodInv, PeriodTypes
<1>5. CashAgrees'
  <2>1. \A r \in Cash : pays'[r] = pays[r]
    BY <1>3
  <2> QED  BY <1>2, <2>1 DEF PeriodInv, CashAgrees
<1>6. ASSUME NEW r \in Charges PROVE PaymentFollows(r)'
  <2>1. CASE r = p
    <3>1. Agrees(pays'[p], w)
      BY <1>1, <1>3
    <3> QED  BY <1>1, <2>1, <3>1 DEF PaymentFollows
  <2>2. CASE r # p
    <3>1. pays'[r] = pays[r] /\ events'[r] = events[r] /\ stripe'[r] = stripe[r]
      BY <1>2, <1>3, <2>2
    <3> QED  BY <3>1 DEF PeriodInv, PaymentFollows
  <2> QED  BY <2>1, <2>2
<1> QED  BY <1>4, <1>5, <1>6 DEF PeriodInv

LEMMA PrimaryExists ==
    /\ Primary \in SubIds \cup {0} /\ FreeSub \in SubIds \cup {0}
    /\ Primary # 0 => IsActive(Primary)
    /\ FreeSub # 0 => subs[FreeSub].status = "none"
<1> DEFINE A == {s \in SubIds : IsActive(s)}
           F == {s \in SubIds : subs[s].status = "none"}
<1>1. A # {} => Max(A) \in A
  BY LastExists
<1>2. F # {} => Min(F) \in F
  BY FirstExists
<1>3. Primary = (IF A = {} THEN 0 ELSE Max(A)) /\ FreeSub = (IF F = {} THEN 0 ELSE Min(F))
  BY DEF Primary, FreeSub
<1>4. Primary # 0 => Primary \in A
  BY <1>1, <1>3
<1>5. FreeSub # 0 => FreeSub \in F
  BY <1>2, <1>3
<1> QED  BY <1>4, <1>5

\* payment_intent.succeeded: the period is granted, once.
LEMMA SucceededKeeps ==
    ASSUME PeriodInv, Orderly, NEW p \in Charges, NEW n, OnSucceeded(p, n)
    PROVE  PeriodInv'
<1> USE PeriodConstants
<1>1. Delivers(p, n, "succeeded")
  BY DEF OnSucceeded
<1>2. PICK v \in ChargeViews, w \in ChargeViews :
        Agrees(pays[p], v) /\ Tells(v, "succeeded", w)
  BY <1>1, DeliveredView
<1>3. PICK old \in PayRows : old = pays[p]
  BY DEF PeriodInv, PeriodTypes
<1>4. old.status # "SUCCESS" /\ old.sub = 0 /\ ~old.revoked
  BY <1>2, <1>3 DEF Tells, Agrees, Back
<1>5. PICK s : s = Target
  OBVIOUS
<1>6. /\ s \in SubIds /\ s # 0
      /\ \/ Primary # 0 /\ s = Primary /\ IsActive(s)
         \/ Primary = 0 /\ s = FreeSub /\ subs[s].status = "none"
  <2>1. s # 0
    BY <1>3, <1>4, <1>5 DEF OnSucceeded
  <2>2. s = IF Primary # 0 THEN Primary ELSE FreeSub
    BY <1>5 DEF Target
  <2> QED  BY <2>1, <2>2, PrimaryExists
<1>7. PICK new : new = [pays[p] EXCEPT !.status = "SUCCESS", !.invoice = "PAID", !.sub = Target]
  OBVIOUS
<1>8. pays' = [pays EXCEPT ![p] = new] /\ subs' = Activated(PlanOf[p])
  BY <1>3, <1>4, <1>7, Zenon DEF OnSucceeded
<1>9. /\ new \in PayRows /\ new.status = "SUCCESS" /\ new.invoice = "PAID" /\ new.sub = s
      /\ new.revoked = old.revoked /\ new.disputed = old.disputed
  BY <1>3, <1>5, <1>6, <1>7 DEF PayRows
<1>10. ASSUME NEW x \in ChargeViews, NEW y \in ChargeViews,
              Agrees(pays[p], x), Tells(x, "succeeded", y)
       PROVE  Agrees(new, y)
  <2>1. x.intent # "succeeded" /\ y = [x EXCEPT !.intent = "succeeded"]
    BY <1>10, <1>3, <1>4 DEF Tells, Agrees
  <2>2. y.intent = "succeeded" /\ y.refund = x.refund /\ y.dispute = x.dispute
    BY <2>1 DEF ChargeViews
  <2>3. x.refund = "none" /\ x.dispute = "none"
    BY <1>10, <2>1 DEF Agrees
  <2> QED  BY <1>3, <1>4, <1>6, <1>9, <1>10, <2>2, <2>3 DEF Agrees, Back
<1>11. PICK row \in SubRows : row = subs[s]
  BY <1>6 DEF PeriodInv, PeriodTypes
<1>12. PlanOf[p] \in PlanNames /\ today \in Nat /\ row.expires \in Int /\ row.started \in Nat
  BY <1>11 DEF PlanNames, PeriodInv, PeriodTypes, SubRows
<1>13. PICK next \in SubRows :
        /\ subs' = [subs EXCEPT ![s] = next]
        /\ next.status = "ACTIVE" /\ next.plan = PlanOf[p]
        /\ \/ /\ row.status = "ACTIVE" /\ next.started = row.started
              /\ row.plan = PlanOf[p] => next.expires = row.expires + Cycle
           \/ /\ row.status = "none" /\ next.started = today
              /\ next.expires = today + Cycle
  <2>1. CASE Primary # 0
    <3>1. s = Primary /\ IsActive(s)
      BY <1>6, <2>1
    <3>2. row.status = "ACTIVE" /\ row.expires > today
      BY <1>11, <3>1 DEF IsActive
    <3>3. PICK e : e = PeriodEnd(row.plan = PlanOf[p], row.expires)
      OBVIOUS
    <3>4. e \in Int /\ (row.plan = PlanOf[p] => e = row.expires + Cycle)
      BY <1>12, <3>2, <3>3 DEF PeriodEnd
    <3>5. PICK next : next = [subs[s] EXCEPT !.plan = PlanOf[p], !.expires = e]
      OBVIOUS
    <3>6. subs' = [subs EXCEPT ![s] = next]
      BY <1>8, <1>11, <2>1, <3>1, <3>3, <3>5 DEF Activated
    <3>7. /\ next \in SubRows /\ next.status = "ACTIVE" /\ next.plan = PlanOf[p]
          /\ next.started = row.started /\ next.expires = e
      BY <1>11, <1>12, <3>2, <3>4, <3>5 DEF SubRows
    <3> QED  BY <3>2, <3>4, <3>6, <3>7
  <2>2. CASE Primary = 0
    <3>1. s = FreeSub /\ row.status = "none"
      BY <1>6, <1>11, <2>2
    <3>2. PICK next : next = Opened(PlanOf[p])
      OBVIOUS
    <3>3. subs' = [subs EXCEPT ![s] = next]
      BY <1>8, <2>2, <3>1, <3>2 DEF Activated
    <3>4. /\ next \in SubRows /\ next.status = "ACTIVE" /\ next.plan = PlanOf[p]
          /\ next.started = today /\ next.expires = today + Cycle
      BY <1>12, <3>2 DEF Opened, SubRows
    <3> QED  BY <3>1, <3>3, <3>4
  <2> QED  BY <2>1, <2>2
<1>14. /\ subs' \in [SubIds -> SubRows] /\ subs'[s] = next
       /\ \A t \in SubIds \ {s} : subs'[t] = subs[t]
  BY <1>6, <1>13, Zenon DEF PeriodInv, PeriodTypes
<1>15. /\ pays'[p] = new /\ \A q \in Pays \ {p} : pays'[q] = pays[q]
  BY <1>8, Zenon DEF PeriodInv, PeriodTypes
<1>16. Extends(p, s)
  BY <1>3, <1>4, <1>9, <1>11, <1>13, <1>14, <1>15 DEF Extends
<1>17. \A t \in SubIds : TimeIsBought(t)'
  BY <1>6, <1>16, ExtendedTime DEF PeriodInv
<1> QED  BY <1>1, <1>8, <1>9, <1>10, <1>14, <1>17, DeliveredKeeps

LEMMA StatusKeeps ==
    ASSUME PeriodInv, Orderly, NEW p \in Charges, NEW n,
           NEW kind \in {"failed", "processing", "canceled"}, OnStatus(p, n, kind)
    PROVE  PeriodInv'
<1> USE PeriodConstants
<1>1. Delivers(p, n, kind) /\ subs' = subs
  BY DEF OnStatus
<1>2. PICK old \in PayRows : old = pays[p]
  BY DEF PeriodInv, PeriodTypes
<1>3. PICK new : new = [old EXCEPT !.status = IF old.status = "PENDING"
                                             THEN LocalStatus(kind) ELSE old.status]
  OBVIOUS
<1>4. pays' = [pays EXCEPT ![p] = new]
  <2>1. CASE old.status = "PENDING"
    BY <1>2, <1>3, <2>1 DEF OnStatus
  <2>2. CASE old.status # "PENDING"
    <3>1. pays' = pays
      BY <1>2, <2>2 DEF OnStatus
    <3>2. new = old
      BY <1>3, <2>2 DEF PayRows
    <3> QED  BY <1>2, <3>1, <3>2 DEF PeriodInv, PeriodTypes
  <2> QED  BY <2>1, <2>2
<1>5. LocalStatus(kind) \in {"FAILED", "PROCESSING", "CANCELED"}
  BY DEF LocalStatus
<1>6. /\ new \in PayRows /\ new.invoice = old.invoice /\ new.sub = old.sub
      /\ new.revoked = old.revoked /\ new.disputed = old.disputed
      /\ new.status \in {old.status, "FAILED", "PROCESSING", "CANCELED"}
  BY <1>2, <1>3, <1>5 DEF PayRows
<1>7. ASSUME NEW x \in ChargeViews, NEW y \in ChargeViews,
             Agrees(pays[p], x), Tells(x, kind, y)
      PROVE  Agrees(new, y)
  <2>1. x.intent # "succeeded" /\ y = [x EXCEPT !.intent = kind]
    BY <1>7 DEF Tells
  <2>2. y.intent = kind /\ y.refund = x.refund /\ y.dispute = x.dispute
    BY <2>1 DEF ChargeViews
  <2>3. x.refund = "none" /\ x.dispute = "none" /\ kind # "succeeded"
    BY <1>7, <2>1 DEF Agrees
  <2> QED  BY <1>2, <1>6, <1>7, <2>1, <2>2, <2>3 DEF Agrees, Back
<1>8. subs' \in [SubIds -> SubRows]
  BY <1>1 DEF PeriodInv, PeriodTypes
<1>9. \A t \in SubIds : TimeIsBought(t)'
  <2>1. /\ pays'[p] = new /\ \A q \in Pays \ {p} : pays'[q] = pays[q]
    BY <1>4, Zenon DEF PeriodInv, PeriodTypes
  <2> QED  BY <1>1, <1>2, <1>6, <2>1, SameTime DEF PeriodInv
<1> QED  BY <1>1, <1>4, <1>6, <1>7, <1>8, <1>9, DeliveredKeeps

\* A refund of a part leaves the period and the invoice alone.
LEMMA PartialRefundKeeps ==
    ASSUME PeriodInv, Orderly, NEW p \in Charges, NEW n, OnPartialRefund(p, n)
    PROVE  PeriodInv'
<1> USE PeriodConstants
<1>1. Delivers(p, n, "partial_refund") /\ subs' = subs
  BY DEF OnPartialRefund
<1>2. PICK old \in PayRows : old = pays[p]
  BY DEF PeriodInv, PeriodTypes
<1>3. PICK new : new = [old EXCEPT !.status = "PARTIALLY_REFUNDED"]
  OBVIOUS
<1>4. pays' = [pays EXCEPT ![p] = new]
  BY <1>2, <1>3 DEF OnPartialRefund
<1>5. /\ new \in PayRows /\ new.invoice = old.invoice /\ new.sub = old.sub
      /\ new.revoked = old.revoked /\ new.disputed = old.disputed
      /\ new.status = "PARTIALLY_REFUNDED"
  BY <1>2, <1>3 DEF PayRows
<1>6. ASSUME NEW x \in ChargeViews, NEW y \in ChargeViews,
             Agrees(pays[p], x), Tells(x, "partial_refund", y)
      PROVE  Agrees(new, y)
  <2>1. /\ x.intent = "succeeded" /\ x.dispute \in {"none", "won"} /\ x.refund # "full"
        /\ y = [x EXCEPT !.refund = "part"]
    BY <1>6 DEF Tells
  <2>2. y.intent = x.intent /\ y.refund = "part" /\ y.dispute = x.dispute
    BY <2>1 DEF ChargeViews
  <2> QED  BY <1>2, <1>5, <1>6, <2>1, <2>2 DEF Agrees, Back
<1>7. subs' \in [SubIds -> SubRows]
  BY <1>1 DEF PeriodInv, PeriodTypes
<1>8. \A t \in SubIds : TimeIsBought(t)'
  <2>1. /\ pays'[p] = new /\ \A q \in Pays \ {p} : pays'[q] = pays[q]
    BY <1>4, Zenon DEF PeriodInv, PeriodTypes
  <2> QED  BY <1>1, <1>2, <1>5, <2>1, SameTime DEF PeriodInv
<1> QED  BY <1>1, <1>4, <1>5, <1>6, <1>7, <1>8, DeliveredKeeps

\* Giving back keeps the rows well formed.
LEMMA RevokedRows ==
    ASSUME PeriodTypes, NEW p \in Pays, subs' = Revoked(p)
    PROVE  subs' \in [SubIds -> SubRows]
<1> USE PeriodConstants
<1>1. CASE ~pays[p].revoked /\ pays[p].sub # 0
  <2>1. PICK s \in SubIds : s = pays[p].sub
    BY <1>1 DEF PeriodTypes, PayRows
  <2>2. PICK old \in SubRows : old = subs[s]
    BY DEF PeriodTypes
  <2>3. PICK new : new = [subs[s] EXCEPT !.expires = subs[s].expires - Cycle,
                            !.status = IF subs[s].expires - Cycle <= today THEN "CANCELLED"
                                       ELSE @]
    OBVIOUS
  <2>4. subs' = [subs EXCEPT ![s] = new]
    BY <1>1, <2>1, <2>3, Zenon DEF Revoked, Shortened
  <2>5. new \in SubRows
    <3>1. PICK e, st : /\ e = old.expires - Cycle
                      /\ st = IF e <= today THEN "CANCELLED" ELSE old.status
      OBVIOUS
    <3>2. e \in Int /\ st \in {"none", "ACTIVE", "CANCELLED"}
      BY <3>1 DEF SubRows
    <3>3. new = [old EXCEPT !.expires = e, !.status = st]
      BY <2>2, <2>3, <3>1
    <3> QED  BY <3>2, <3>3 DEF SubRows
  <2> QED  BY <2>4, <2>5, Zenon DEF PeriodTypes
<1>2. CASE pays[p].revoked \/ pays[p].sub = 0
  BY <1>2 DEF Revoked, PeriodTypes
<1> QED  BY <1>1, <1>2

\* A full refund, and a lost dispute, take the period back.
LEMMA FullRefundKeeps ==
    ASSUME PeriodInv, Orderly, NEW p \in Charges, NEW n, OnFullRefund(p, n)
    PROVE  PeriodInv'
<1> USE PeriodConstants
<1>1. Delivers(p, n, "full_refund") /\ subs' = Revoked(p)
  BY DEF OnFullRefund
<1>2. PICK old \in PayRows : old = pays[p]
  BY DEF PeriodInv, PeriodTypes
<1>3. PICK new : new = [pays[p] EXCEPT !.status = "REFUNDED", !.invoice = "VOID",
                                       !.revoked = TRUE]
  OBVIOUS
<1>4. pays' = [pays EXCEPT ![p] = new]
  BY <1>3, Zenon DEF OnFullRefund
<1>5. /\ new \in PayRows /\ new.invoice = "VOID" /\ new.sub = old.sub
      /\ new.revoked = TRUE /\ new.disputed = old.disputed /\ new.status = "REFUNDED"
  BY <1>2, <1>3 DEF PayRows
<1>6. ASSUME NEW x \in ChargeViews, NEW y \in ChargeViews,
             Agrees(pays[p], x), Tells(x, "full_refund", y)
      PROVE  Agrees(new, y)
  <2>1. /\ x.intent = "succeeded" /\ x.dispute \in {"none", "won"} /\ x.refund # "full"
        /\ y = [x EXCEPT !.refund = "full"]
    BY <1>6 DEF Tells
  <2>2. y.intent = x.intent /\ y.refund = "full" /\ y.dispute = x.dispute
    BY <2>1 DEF ChargeViews
  <2> QED  BY <1>2, <1>5, <1>6, <2>1, <2>2 DEF Agrees, Back
<1>7. subs' \in [SubIds -> SubRows]
  BY <1>1, RevokedRows DEF PeriodInv
<1>8. \A t \in SubIds : TimeIsBought(t)'
  <2>1. /\ pays'[p] = new /\ \A q \in Pays \ {p} : pays'[q] = pays[q]
    BY <1>4, Zenon DEF PeriodInv, PeriodTypes
  <2>2. today' = today
    BY <1>1, DeliveredView
  <2> QED  BY <1>1, <1>2, <1>5, <2>1, <2>2, ShortenedTime DEF PeriodInv
<1> QED  BY <1>1, <1>4, <1>5, <1>6, <1>7, <1>8, DeliveredKeeps

LEMMA DisputeLostKeeps ==
    ASSUME PeriodInv, Orderly, NEW p \in Charges, NEW n, OnDisputeLost(p, n)
    PROVE  PeriodInv'
<1> USE PeriodConstants
<1>1. Delivers(p, n, "dispute_lost") /\ subs' = Revoked(p)
  BY DEF OnDisputeLost
<1>2. PICK old \in PayRows : old = pays[p]
  BY DEF PeriodInv, PeriodTypes
<1>3. PICK new : new = [pays[p] EXCEPT !.status = "DISPUTED", !.invoice = "UNCOLLECTIBLE",
                                       !.revoked = TRUE]
  OBVIOUS
<1>4. pays' = [pays EXCEPT ![p] = new]
  BY <1>3, Zenon DEF OnDisputeLost
<1>5. /\ new \in PayRows /\ new.invoice = "UNCOLLECTIBLE" /\ new.sub = old.sub
      /\ new.revoked = TRUE /\ new.disputed = old.disputed /\ new.status = "DISPUTED"
  BY <1>2, <1>3 DEF PayRows
<1>6. ASSUME NEW x \in ChargeViews, NEW y \in ChargeViews,
             Agrees(pays[p], x), Tells(x, "dispute_lost", y)
      PROVE  Agrees(new, y)
  <2>1. x.dispute = "open" /\ y = [x EXCEPT !.dispute = "lost"]
    BY <1>6 DEF Tells
  <2>2. y.intent = x.intent /\ y.refund = x.refund /\ y.dispute = "lost"
    BY <2>1 DEF ChargeViews
  <2>3. x.refund # "full" /\ x.intent = "succeeded"
    BY <1>6, <2>1 DEF Agrees
  <2> QED  BY <1>2, <1>5, <1>6, <2>1, <2>2, <2>3 DEF Agrees, Back
<1>7. subs' \in [SubIds -> SubRows]
  BY <1>1, RevokedRows DEF PeriodInv
<1>8. \A t \in SubIds : TimeIsBought(t)'
  <2>1. /\ pays'[p] = new /\ \A q \in Pays \ {p} : pays'[q] = pays[q]
    BY <1>4, Zenon DEF PeriodInv, PeriodTypes
  <2>2. today' = today
    BY <1>1, DeliveredView
  <2> QED  BY <1>1, <1>2, <1>5, <2>1, <2>2, ShortenedTime DEF PeriodInv
<1> QED  BY <1>1, <1>4, <1>5, <1>6, <1>7, <1>8, DeliveredKeeps

\* A dispute that opens notes it, and the service goes on.
LEMMA DisputeOpenedKeeps ==
    ASSUME PeriodInv, Orderly, NEW p \in Charges, NEW n, OnDisputeOpened(p, n)
    PROVE  PeriodInv'
<1> USE PeriodConstants
<1>1. Delivers(p, n, "dispute_opened") /\ subs' = subs
  BY DEF OnDisputeOpened
<1>2. PICK old \in PayRows : old = pays[p]
  BY DEF PeriodInv, PeriodTypes
<1>3. PICK new : new = [pays[p] EXCEPT !.disputed = TRUE,
                          !.status = IF @ = "SUCCESS" THEN "DISPUTED" ELSE @]
  OBVIOUS
<1>4. pays' = [pays EXCEPT ![p] = new]
  BY <1>3, Zenon DEF OnDisputeOpened
<1>5. /\ new \in PayRows /\ new.invoice = old.invoice /\ new.sub = old.sub
      /\ new.revoked = old.revoked /\ new.disputed = TRUE
  BY <1>2, <1>3 DEF PayRows
<1>6. ASSUME NEW x \in ChargeViews, NEW y \in ChargeViews,
             Agrees(pays[p], x), Tells(x, "dispute_opened", y)
      PROVE  Agrees(new, y)
  <2>1. /\ x.intent = "succeeded" /\ x.refund # "full" /\ x.dispute = "none"
        /\ y = [x EXCEPT !.dispute = "open"]
    BY <1>6 DEF Tells
  <2>2. y.intent = x.intent /\ y.refund = x.refund /\ y.dispute = "open"
    BY <2>1 DEF ChargeViews
  <2> QED  BY <1>2, <1>5, <1>6, <2>1, <2>2 DEF Agrees, Back
<1>7. subs' \in [SubIds -> SubRows]
  BY <1>1 DEF PeriodInv, PeriodTypes
<1>8. \A t \in SubIds : TimeIsBought(t)'
  <2>1. /\ pays'[p] = new /\ \A q \in Pays \ {p} : pays'[q] = pays[q]
    BY <1>4, Zenon DEF PeriodInv, PeriodTypes
  <2> QED  BY <1>1, <1>2, <1>5, <2>1, SameTime DEF PeriodInv
<1> QED  BY <1>1, <1>4, <1>5, <1>6, <1>7, <1>8, DeliveredKeeps

\* A dispute that is won finds nothing to restore: its period was never taken.
LEMMA DisputeWonKeeps ==
    ASSUME PeriodInv, Orderly, NEW p \in Charges, NEW n, OnDisputeWon(p, n)
    PROVE  PeriodInv'
<1> USE PeriodConstants
<1>1. Delivers(p, n, "dispute_won") /\ subs' = Restored(p)
  BY DEF OnDisputeWon
<1>2. PICK old \in PayRows : old = pays[p]
  BY DEF PeriodInv, PeriodTypes
<1>3. PICK v \in ChargeViews, w \in ChargeViews :
        Agrees(pays[p], v) /\ Tells(v, "dispute_won", w)
  BY <1>1, DeliveredView
<1>4. old.revoked = FALSE
  <2>1. v.dispute = "open"
    BY <1>3 DEF Tells
  <2> QED  BY <1>2, <1>3, <2>1 DEF Agrees, Back
<1>5. subs' = subs
  BY <1>1, <1>2, <1>4 DEF Restored
<1>6. PICK new : new = [pays[p] EXCEPT !.disputed = FALSE, !.invoice = "PAID",
                          !.revoked = FALSE,
                          !.status = IF @ = "DISPUTED" THEN "SUCCESS" ELSE @]
  OBVIOUS
<1>7. pays' = [pays EXCEPT ![p] = new]
  BY <1>6, Zenon DEF OnDisputeWon
<1>8. /\ new \in PayRows /\ new.invoice = "PAID" /\ new.sub = old.sub
      /\ new.revoked = FALSE /\ new.disputed = FALSE
  BY <1>2, <1>6 DEF PayRows
<1>9. ASSUME NEW x \in ChargeViews, NEW y \in ChargeViews,
             Agrees(pays[p], x), Tells(x, "dispute_won", y)
      PROVE  Agrees(new, y)
  <2>1. x.dispute = "open" /\ y = [x EXCEPT !.dispute = "won"]
    BY <1>9 DEF Tells
  <2>2. y.intent = x.intent /\ y.refund = x.refund /\ y.dispute = "won"
    BY <2>1 DEF ChargeViews
  <2>3. x.refund # "full" /\ x.intent = "succeeded"
    BY <1>9, <2>1 DEF Agrees
  <2> QED  BY <1>2, <1>8, <1>9, <2>1, <2>2, <2>3 DEF Agrees, Back
<1>10. subs' \in [SubIds -> SubRows]
  BY <1>5 DEF PeriodInv, PeriodTypes
<1>11. \A t \in SubIds : TimeIsBought(t)'
  <2>1. /\ pays'[p] = new /\ \A q \in Pays \ {p} : pays'[q] = pays[q]
    BY <1>7, Zenon DEF PeriodInv, PeriodTypes
  <2>2. \A q \in Pays : pays'[q].sub = pays[q].sub /\ pays'[q].revoked = pays[q].revoked
    BY <1>2, <1>4, <1>8, <2>1
  <2> QED  BY <1>5, <2>2, SameTime DEF PeriodInv
<1> QED  BY <1>1, <1>7, <1>8, <1>9, <1>10, <1>11, DeliveredKeeps

\* A cash registration opens with what it has read of the subscription.
LEMMA CashReadsKeeps ==
    ASSUME PeriodInv, NEW p \in Cash, CashReads(p)
    PROVE  PeriodInv'
<1> USE PeriodConstants
<1>1. /\ pays[p].status = "none" /\ today' = today /\ subs' = subs /\ pays' = pays
      /\ stripe' = stripe /\ events' = events
      /\ cash' = IF Primary = 0 THEN [Nobody EXCEPT !.pay = p]
                 ELSE [pay |-> p, sub |-> Primary, plan |-> subs[Primary].plan,
                       expires |-> subs[Primary].expires]
  BY DEF CashReads
<1>2. Primary' = Primary
  BY <1>1 DEF Primary, IsActive
<1>3. /\ cash'.pay = p /\ cash'.sub = Primary
      /\ Primary # 0 => cash'.plan = subs[Primary].plan /\ cash'.expires = subs[Primary].expires
      /\ cash' \in OpenCash
  <2>1. CASE Primary = 0
    <3>1. cash' = [Nobody EXCEPT !.pay = p]
      BY <1>1, <2>1
    <3> QED  BY <2>1, <3>1 DEF Nobody, OpenCash, PlanNames
  <2>2. CASE Primary # 0
    <3>1. Primary \in SubIds
      BY <2>2, PrimaryExists
    <3>2. PICK row \in SubRows : row = subs[Primary]
      BY <3>1 DEF PeriodInv, PeriodTypes
    <3>3. cash' = [pay |-> p, sub |-> Primary, plan |-> row.plan, expires |-> row.expires]
      BY <1>1, <2>2, <3>2
    <3>4. row.plan \in PlanNames /\ row.expires \in Int
      BY DEF SubRows
    <3> QED  BY <3>1, <3>2, <3>3, <3>4 DEF OpenCash
  <2> QED  BY <2>1, <2>2
<1>4. PeriodTypes'
  BY <1>1, <1>3 DEF PeriodInv, PeriodTypes
<1>5. CashAgrees'
  BY <1>1, <1>2, <1>3 DEF PeriodInv, CashAgrees
<1>6. \A q \in Charges : PaymentFollows(q)'
  BY <1>1 DEF PeriodInv, PaymentFollows
<1>7. \A s \in SubIds : TimeIsBought(s)'
  BY <1>1, SameTime DEF PeriodInv
<1> QED  BY <1>4, <1>5, <1>6, <1>7 DEF PeriodInv

\* The registration commits what it read, and nothing came in between.
LEMMA CashWritesKeeps ==
    ASSUME PeriodInv, CashWrites
    PROVE  PeriodInv'
<1> USE PeriodConstants
<1>1. PICK p, s, plan : /\ p = cash.pay /\ plan = PlanOf[p]
                       /\ s = IF cash.sub # 0 THEN cash.sub ELSE FreeSub
  OBVIOUS
<1>2. PICK new : new = [pays[p] EXCEPT !.status = "SUCCESS", !.invoice = "PAID", !.sub = s]
  OBVIOUS
<1>3. PICK next : next = IF cash.sub = 0 THEN Opened(plan)
                         ELSE [subs[s] EXCEPT
                                !.plan = IF cash.plan = plan THEN @ ELSE plan,
                                !.expires = PeriodEnd(cash.plan = plan, cash.expires)]
  OBVIOUS
<1>4. /\ cash # Nobody /\ s # 0 /\ subs' = [subs EXCEPT ![s] = next]
      /\ pays' = [pays EXCEPT ![p] = new] /\ cash' = Nobody /\ today' = today
      /\ stripe' = stripe /\ events' = events
  BY <1>1, <1>2, <1>3, Zenon DEF CashWrites
<1>5. /\ p \in Cash /\ pays[p].status = "none" /\ pays[p].sub = 0 /\ ~pays[p].revoked
      /\ cash.sub = Primary
      /\ cash.sub # 0 => cash.plan = subs[cash.sub].plan /\ cash.expires = subs[cash.sub].expires
  BY <1>1, <1>4 DEF PeriodInv, CashAgrees
<1>6. /\ s \in SubIds
      /\ \/ cash.sub # 0 /\ s = cash.sub /\ IsActive(s)
         \/ cash.sub = 0 /\ s = FreeSub /\ subs[s].status = "none"
  BY <1>1, <1>4, <1>5, PrimaryExists
<1>7. PICK old \in PayRows : old = pays[p]
  BY <1>5 DEF PeriodInv, PeriodTypes
<1>8. new \in PayRows /\ new.sub = s /\ new.revoked = old.revoked /\ new.status = "SUCCESS"
  BY <1>2, <1>6, <1>7 DEF PayRows
<1>9. PICK row \in SubRows : row = subs[s]
  BY <1>6 DEF PeriodInv, PeriodTypes
<1>10. plan \in PlanNames /\ today \in Nat /\ row.expires \in Int /\ row.started \in Nat
  BY <1>1, <1>5, <1>9 DEF PlanNames, PeriodInv, PeriodTypes, SubRows
<1>11. /\ next \in SubRows /\ next.status = "ACTIVE" /\ next.plan = plan
       /\ \/ /\ row.status = "ACTIVE" /\ next.started = row.started
             /\ row.plan = plan => next.expires = row.expires + Cycle
          \/ /\ row.status = "none" /\ next.started = today
             /\ next.expires = today + Cycle
  <2>1. CASE cash.sub # 0
    <3>1. row.status = "ACTIVE" /\ row.expires > today
      BY <1>6, <1>9, <2>1 DEF IsActive
    <3>2. cash.plan = row.plan /\ cash.expires = row.expires
      BY <1>5, <1>6, <1>9, <2>1
    <3>3. PICK e : e = PeriodEnd(row.plan = plan, row.expires)
      OBVIOUS
    <3>4. e \in Int /\ (row.plan = plan => e = row.expires + Cycle)
      BY <1>10, <3>1, <3>3 DEF PeriodEnd
    <3>5. next = [row EXCEPT !.plan = IF row.plan = plan THEN @ ELSE plan, !.expires = e]
      BY <1>3, <1>9, <2>1, <3>2, <3>3
    <3>6. (IF row.plan = plan THEN row.plan ELSE plan) = plan
      OBVIOUS
    <3>7. next = [row EXCEPT !.plan = plan, !.expires = e]
      BY <3>5, <3>6 DEF SubRows
    <3>8. /\ next \in SubRows /\ next.status = "ACTIVE" /\ next.plan = plan
          /\ next.started = row.started /\ next.expires = e
      BY <1>10, <3>1, <3>4, <3>7 DEF SubRows
    <3> QED  BY <3>1, <3>4, <3>8
  <2>2. CASE cash.sub = 0
    <3>1. row.status = "none" /\ next = Opened(plan)
      BY <1>3, <1>6, <1>9, <2>2
    <3> QED  BY <1>10, <3>1 DEF Opened, SubRows
  <2> QED  BY <2>1, <2>2
<1>12. /\ subs' \in [SubIds -> SubRows] /\ subs'[s] = next
       /\ \A t \in SubIds \ {s} : subs'[t] = subs[t]
  BY <1>4, <1>6, <1>11, Zenon DEF PeriodInv, PeriodTypes
<1>13. /\ pays' \in [Pays -> PayRows] /\ pays'[p] = new
       /\ \A q \in Pays \ {p} : pays'[q] = pays[q]
  BY <1>4, <1>5, <1>8, Zenon DEF PeriodInv, PeriodTypes
<1>14. Extends(p, s)
  BY <1>1, <1>5, <1>7, <1>8, <1>9, <1>11, <1>12, <1>13 DEF Extends
<1>15. \A t \in SubIds : TimeIsBought(t)'
  BY <1>5, <1>6, <1>14, ExtendedTime DEF PeriodInv
<1>16. PeriodTypes'
  BY <1>4, <1>12, <1>13 DEF PeriodInv, PeriodTypes
<1>17. CashAgrees'
  <2>1. ASSUME NEW q \in Cash
        PROVE  ~pays'[q].revoked /\ (pays'[q].status = "none" => pays'[q].sub = 0)
    <3>1. CASE q = p
      BY <1>5, <1>7, <1>8, <1>13, <3>1
    <3>2. CASE q # p
      BY <1>13, <2>1, <3>2 DEF PeriodInv, CashAgrees
    <3> QED  BY <3>1, <3>2
  <2> QED  BY <1>4, <2>1 DEF CashAgrees
<1>18. ASSUME NEW q \in Charges PROVE PaymentFollows(q)'
  <2>1. pays'[q] = pays[q]
    BY <1>5, <1>13, <1>18
  <2> QED  BY <1>4, <2>1 DEF PeriodInv, PaymentFollows
<1> QED  BY <1>15, <1>16, <1>17, <1>18 DEF PeriodInv

\* What Stripe does to a charge it also tells.
LEMMA ChangesKeeps ==
    ASSUME PeriodInv, NEW p \in Charges, NEW new \in ChargeViews, NEW kind \in Kinds,
           Tells(stripe[p], kind, new), Changes(p, new, kind)
    PROVE  PeriodInv'
<1> USE PeriodConstants
<1>1. /\ today' = today /\ subs' = subs /\ pays' = pays /\ cash' = cash
      /\ stripe' = [stripe EXCEPT ![p] = new]
      /\ events' = [events EXCEPT ![p] = Append(events[p], kind)]
  BY DEF Changes
<1>2. PICK q \in Seq(Kinds), c \in ChargeViews : q = events[p] /\ c = stripe[p]
  BY DEF PeriodInv, PeriodTypes
<1>3. /\ stripe' \in [Charges -> ChargeViews] /\ stripe'[p] = new
      /\ \A r \in Charges \ {p} : stripe'[r] = stripe[r]
  BY <1>1 DEF PeriodInv, PeriodTypes
<1>4. Append(q, kind) \in Seq(Kinds)
  OBVIOUS
<1>5. /\ events' \in [Charges -> Seq(Kinds)] /\ events'[p] = Append(q, kind)
      /\ \A r \in Charges \ {p} : events'[r] = events[r]
  BY <1>1, <1>2, <1>4, Zenon DEF PeriodInv, PeriodTypes
<1>6. PeriodTypes'
  BY <1>1, <1>3, <1>5 DEF PeriodInv, PeriodTypes
<1>7. CashAgrees'
  <2>1. Primary' = Primary
    BY <1>1 DEF Primary, IsActive
  <2> QED  BY <1>1, <2>1 DEF PeriodInv, CashAgrees
<1>8. ASSUME NEW r \in Charges PROVE PaymentFollows(r)'
  <2>1. CASE r = p
    <3>1. PICK v \in ChargeViews : Agrees(pays[p], v) /\ TellHow(v, q, c)
      BY <1>2 DEF PeriodInv, PaymentFollows
    <3>2. TellHow(v, Append(q, kind), new)
      BY <1>2, <3>1, ToldLast
    <3> QED  BY <1>1, <1>3, <1>5, <2>1, <3>1, <3>2 DEF PaymentFollows
  <2>2. CASE r # p
    <3>1. pays'[r] = pays[r] /\ events'[r] = events[r] /\ stripe'[r] = stripe[r]
      BY <1>1, <1>3, <1>5, <2>2
    <3> QED  BY <3>1 DEF PeriodInv, PaymentFollows
  <2> QED  BY <2>1, <2>2
<1>9. \A s \in SubIds : TimeIsBought(s)'
  BY <1>1, SameTime DEF PeriodInv
<1> QED  BY <1>6, <1>7, <1>8, <1>9 DEF PeriodInv

LEMMA StripeMovesKeeps ==
    ASSUME PeriodInv, NEW p \in Charges, StripeMoves(p)
    PROVE  PeriodInv'
<1>1. PICK c \in ChargeViews : c = stripe[p]
  BY DEF PeriodInv, PeriodTypes
<1> DEFINE Moves(kind, new) == Tells(c, kind, new) /\ Changes(p, new, kind)
<1>2. \/ /\ c.intent \in {"open", "processing", "failed"}
         /\ \E kind \in {"succeeded", "failed", "processing", "canceled"} :
                Changes(p, [c EXCEPT !.intent = kind], kind)
      \/ /\ c.intent = "succeeded" /\ c.dispute \in {"none", "won"} /\ c.refund # "full"
         /\ \/ Changes(p, [c EXCEPT !.refund = "part"], "partial_refund")
            \/ Changes(p, [c EXCEPT !.refund = "full"], "full_refund")
      \/ /\ c.intent = "succeeded" /\ c.refund # "full" /\ c.dispute = "none"
         /\ Changes(p, [c EXCEPT !.dispute = "open"], "dispute_opened")
      \/ /\ c.dispute = "open"
         /\ \/ Changes(p, [c EXCEPT !.dispute = "won"], "dispute_won")
            \/ Changes(p, [c EXCEPT !.dispute = "lost"], "dispute_lost")
  BY <1>1 DEF StripeMoves
<1>3. \A kind \in {"succeeded", "failed", "processing", "canceled"} :
        [c EXCEPT !.intent = kind] \in ChargeViews /\ kind \in Kinds
  BY DEF ChargeViews, Kinds
<1>4. /\ \A x \in {"part", "full"} : [c EXCEPT !.refund = x] \in ChargeViews
      /\ \A x \in {"open", "won", "lost"} : [c EXCEPT !.dispute = x] \in ChargeViews
  BY DEF ChargeViews
<1>5. {"partial_refund", "full_refund", "dispute_opened", "dispute_won", "dispute_lost"}
        \subseteq Kinds
  BY DEF Kinds
<1>6. PICK kind \in Kinds, new \in ChargeViews : Tells(c, kind, new) /\ Changes(p, new, kind)
  BY <1>2, <1>3, <1>4, <1>5 DEF Tells
<1> QED  BY <1>1, <1>6, ChangesKeeps

\* A cancellation ends a subscription without touching what it was paid.
LEMMA CancelKeeps ==
    ASSUME PeriodInv, NEW s \in SubIds, NEW immediately \in BOOLEAN, Cancel(s, immediately)
    PROVE  PeriodInv'
<1> USE PeriodConstants
<1>1. PICK row \in SubRows : row = subs[s]
  BY DEF PeriodInv, PeriodTypes
<1>2. PICK e : e = IF immediately THEN today ELSE row.expires
  OBVIOUS
<1>3. PICK next : next = [row EXCEPT !.status = "CANCELLED", !.expires = e]
  OBVIOUS
<1>4. /\ row.status = "ACTIVE" /\ cash = Nobody /\ cash' = cash /\ today' = today
      /\ pays' = pays /\ stripe' = stripe /\ events' = events
      /\ subs' = [subs EXCEPT ![s] = next]
  BY <1>1, <1>2, <1>3 DEF Cancel
<1>5. e \in Int
  BY <1>2 DEF SubRows, PeriodInv, PeriodTypes
<1>6. next \in SubRows /\ next.status = "CANCELLED"
  BY <1>3, <1>5 DEF SubRows
<1>7. /\ subs' \in [SubIds -> SubRows] /\ subs'[s] = next
      /\ \A t \in SubIds \ {s} : subs'[t] = subs[t]
  BY <1>4, <1>6, Zenon DEF PeriodInv, PeriodTypes
<1>8. PeriodTypes'
  BY <1>4, <1>7 DEF PeriodInv, PeriodTypes
<1>9. CashAgrees'
  BY <1>4 DEF PeriodInv, CashAgrees
<1>10. \A q \in Charges : PaymentFollows(q)'
  BY <1>4 DEF PeriodInv, PaymentFollows
<1>11. ASSUME NEW t \in SubIds PROVE TimeIsBought(t)'
  <2>1. Bought(t)' = Bought(t) /\ Counted(t)' = Counted(t)
    BY <1>4 DEF Bought, Counted
  <2>2. CASE t = s
    <3>1. IsFiniteSet(Counted(s))
      BY DEF PeriodInv, TimeIsBought
    <3> QED  BY <1>6, <1>7, <2>1, <2>2, <3>1 DEF TimeIsBought
  <2>3. CASE t # s
    BY <1>7, <2>1, <2>3, OthersTime DEF PeriodInv
  <2> QED  BY <2>2, <2>3
<1> QED  BY <1>8, <1>9, <1>10, <1>11 DEF PeriodInv

LEMMA TickKeeps == ASSUME PeriodInv, Tick PROVE PeriodInv'
<1>1. /\ cash = Nobody /\ cash' = cash /\ today' = today + 1 /\ subs' = subs
      /\ pays' = pays /\ stripe' = stripe /\ events' = events
  BY DEF Tick
<1>2. PeriodTypes'
  BY <1>1 DEF PeriodInv, PeriodTypes
<1>3. CashAgrees'
  BY <1>1 DEF PeriodInv, CashAgrees
<1>4. \A q \in Charges : PaymentFollows(q)'
  BY <1>1 DEF PeriodInv, PaymentFollows
<1>5. \A s \in SubIds : TimeIsBought(s)'
  BY <1>1, SameTime DEF PeriodInv
<1> QED  BY <1>2, <1>3, <1>4, <1>5 DEF PeriodInv

LEMMA PeriodsUnchanged == ASSUME PeriodInv, UNCHANGED vars PROVE PeriodInv'
<1>1. /\ today' = today /\ subs' = subs /\ pays' = pays /\ stripe' = stripe
      /\ events' = events /\ cash' = cash
  BY DEF vars
<1>2. PeriodTypes'
  BY <1>1 DEF PeriodInv, PeriodTypes
<1>3. CashAgrees'
  <2>1. Primary' = Primary
    BY <1>1 DEF Primary, IsActive
  <2> QED  BY <1>1, <2>1 DEF PeriodInv, CashAgrees
<1>4. \A q \in Charges : PaymentFollows(q)'
  BY <1>1 DEF PeriodInv, PaymentFollows
<1>5. \A s \in SubIds : TimeIsBought(s)'
  BY <1>1, SameTime DEF PeriodInv
<1> QED  BY <1>2, <1>3, <1>4, <1>5 DEF PeriodInv

LEMMA PeriodSteps == ASSUME PeriodInv, Orderly, Next PROVE PeriodInv'
BY SucceededKeeps, StatusKeeps, PartialRefundKeeps, FullRefundKeeps, DisputeOpenedKeeps,
   DisputeWonKeeps, DisputeLostKeeps, CashReadsKeeps, CashWritesKeeps, StripeMovesKeeps,
   CancelKeeps, TickKeeps DEF Next

\* What the invariant says of time, and of a charge whose events were all delivered.
LEMMA PeriodsHold == ASSUME PeriodInv PROVE PeriodsMatchMoney
<1>1. TimeMatchesMoney
  BY DEF PeriodInv, TimeIsBought, TimeMatchesMoney
<1>2. ASSUME NEW p \in Charges, events[p] = <<>>
      PROVE  Agrees(pays[p], stripe[p])
  <2>1. PICK v \in ChargeViews : Agrees(pays[p], v) /\ TellHow(v, <<>>, stripe[p])
    BY <1>2 DEF PeriodInv, PaymentFollows
  <2> QED  BY <2>1, ToldAll
<1>3. SettledAgrees
  BY <1>2 DEF SettledAgrees, Agrees, Back
<1> QED  BY <1>1, <1>3 DEF PeriodsMatchMoney

(* Time follows money: while Stripe's events come in order and a cash       *)
(* registration is not cut in two, an active subscription lasts one cycle   *)
(* for each payment that bought it and was not given back, and what Stripe  *)
(* told of a charge is what payment, invoice and period say.  For any       *)
(* charges, cash payments, plans, cycle and number of subscriptions.        *)
THEOREM PeriodsMatchMoneyInOrder ==
    ASSUME InOrder, ~CashRaces
    PROVE  OperationsSpec => []PeriodsMatchMoney
<1>1. OperationsInit => PeriodInv
  BY PeriodsStart DEF OperationsInit
<1>2. PeriodInv /\ [OperationsNext]_operationsVars => PeriodInv'
  <2> SUFFICES ASSUME PeriodInv, [OperationsNext]_operationsVars PROVE PeriodInv'
    OBVIOUS
  <2>1. Orderly
    BY DEF Orderly
  <2>2. Next \/ UNCHANGED vars
    BY DEF OperationsNext, operationsVars
  <2> QED  BY <2>1, <2>2, PeriodSteps, PeriodsUnchanged
<1>3. PeriodInv => PeriodsMatchMoney
  BY PeriodsHold
<1> QED  BY <1>1, <1>2, <1>3, PTL DEF OperationsSpec

-----------------------------------------------------------------------------
(* Catalog.                                                                *)

Edits == {"create", "update", "delete", "capability", "product"}

\* What a request has prepared is of a plan or of a product.
WriteOK(w) ==
    /\ w.kind \in Edits \cup {"idle", "discard"}
    /\ w.kind \in Edits => w.plan \in Plans
    /\ w.kind \in {"idle", "discard"} => w.plan = "none"
    /\ w.new = [c \in DOMAIN w.new |-> w.new[c]]
    /\ w.in \subseteq Products
    /\ w.kind = "delete" => w.in = {} /\ DOMAIN w.new = {}

\* It deletes all the capabilities there are, unless others wrote meanwhile.
DeletesAll(w) ==
    w.kind \in {"update", "delete"} /\ w.plan \notin mixed => w.gone = DOMAIN caps[w.plan]

CatalogTypes ==
    /\ plans \subseteq Plans
    /\ DOMAIN caps = Plans /\ DOMAIN sent = Plans /\ DOMAIN bundle = Plans
    /\ DOMAIN products = Products /\ DOMAIN writing = Staff
    /\ \A p \in Plans : bundle[p] \subseteq Products
    /\ sub.plan \in Plans \cup {"none"}
    /\ DOMAIN sub = {"plan", "status"}

\* Requests that write to one plan at the same time are noted.
OverlapsNoted ==
    \A r, q \in Staff :
        r # q /\ writing[r].kind # "idle" /\ writing[q].kind # "idle"
              /\ writing[r].plan = writing[q].plan
        => writing[r].plan \in mixed

CatalogInv ==
    /\ CatalogTypes
    /\ \A r \in Staff : WriteOK(writing[r]) /\ DeletesAll(writing[r])
    /\ OverlapsNoted
    /\ Catalogue!ReferencesResolve
    /\ Catalogue!ReplacedWhole

LEMMA CatalogStarts == Catalogue!Init => CatalogInv
BY DEF Catalogue!Init, CatalogInv, CatalogTypes, WriteOK, DeletesAll, OverlapsNoted, Edits,
       Catalogue!ReferencesResolve, Catalogue!ReplacedWhole, Catalogue!Idle, Catalogue!Write,
       Catalogue!NoRows, Catalogue!NoSub

\* To prepare a write changes nothing else.
LEMMA PreparesKeeps ==
    ASSUME CatalogInv, NEW r \in Staff, NEW w, Catalogue!Prepares(r, w),
           WriteOK(w), w.kind # "idle",
           w.kind \in {"update", "delete"} => w.gone = DOMAIN caps[w.plan]
    PROVE  CatalogInv'
<1>1. /\ writing' = [writing EXCEPT ![r] = w] /\ writing[r] = Catalogue!Idle
      /\ UNCHANGED <<plans, caps, bundle, products, sub, override, sent>>
      /\ mixed \subseteq mixed'
      /\ \A q \in Staff : writing[q].kind # "idle" /\ writing[q].plan = w.plan
            => w.plan \in mixed'
  BY DEF Catalogue!Prepares, Catalogue!Writing
<1>2. CatalogTypes'
  BY <1>1 DEF CatalogInv, CatalogTypes
<1>3. \A q \in Staff : WriteOK(writing'[q]) /\ DeletesAll(writing[q])'
  BY <1>1 DEF CatalogInv, CatalogTypes, WriteOK, DeletesAll
<1>4. OverlapsNoted'
  BY <1>1 DEF CatalogInv, CatalogTypes, OverlapsNoted
<1>5. Catalogue!ReferencesResolve' /\ Catalogue!ReplacedWhole'
  BY <1>1 DEF CatalogInv, Catalogue!ReferencesResolve, Catalogue!ReplacedWhole
<1>6. QED  BY <1>2, <1>3, <1>4, <1>5 DEF CatalogInv, WriteOK

\* Every operation on a plan or a product prepares such a write.
LEMMA OfPlanKeeps ==
    ASSUME CatalogInv, NEW r \in Staff, NEW p \in Plans, Catalogue!OfPlan(r, p)
    PROVE  CatalogInv'
<1>1. CASE \E given \in Catalogue!Rows, set \in SUBSET Products :
              Catalogue!CreatePlan(r, p, given, set) \/ Catalogue!UpdatePlan(r, p, given, set)
  <2>1. PICK given \in Catalogue!Rows, set \in SUBSET Products :
            Catalogue!CreatePlan(r, p, given, set) \/ Catalogue!UpdatePlan(r, p, given, set)
    BY <1>1
  <2>2. PICK S \in SUBSET Codes : given \in [S -> Catalogue!Values]
    BY DEF Catalogue!Rows
  <2>3. given = [c \in DOMAIN given |-> given[c]]
    BY <2>2
  <2>4. CASE Catalogue!CreatePlan(r, p, given, set)
    <3>1. PICK w : w = [Catalogue!Write("create", p) EXCEPT !.new = given, !.in = set]
      OBVIOUS
    <3>2. w.kind = "create" /\ w.plan = p /\ w.new = given /\ w.in = set
      BY <3>1 DEF Catalogue!Write
    <3>3. Catalogue!Prepares(r, w)
      BY <2>4, <3>1 DEF Catalogue!CreatePlan
    <3> QED  BY <2>3, <3>2, <3>3, PreparesKeeps DEF WriteOK, Edits
  <2>5. CASE Catalogue!UpdatePlan(r, p, given, set)
    <3>1. PICK w : w = [Catalogue!Write("update", p) EXCEPT
              !.gone = Catalogue!SyncCapabilities(p), !.new = given,
              !.out = Catalogue!SyncProducts(p), !.in = set]
      OBVIOUS
    <3>2. w.kind = "update" /\ w.plan = p /\ w.new = given /\ w.in = set
          /\ w.gone = DOMAIN caps[p]
      BY <3>1 DEF Catalogue!Write, Catalogue!SyncCapabilities
    <3>3. Catalogue!Prepares(r, w)
      BY <2>5, <3>1 DEF Catalogue!UpdatePlan
    <3> QED  BY <2>3, <3>2, <3>3, PreparesKeeps DEF WriteOK, Edits
  <2> QED  BY <2>1, <2>4, <2>5
<1>2. CASE Catalogue!DeletePlan(r, p)
  <2>1. PICK w : w = [Catalogue!Write("delete", p) EXCEPT
            !.gone = Catalogue!SyncCapabilities(p), !.out = Catalogue!SyncProducts(p)]
    OBVIOUS
  <2>2. /\ w.kind = "delete" /\ w.plan = p /\ w.gone = DOMAIN caps[p] /\ w.in = {}
        /\ w.new = Catalogue!NoRows
    BY <2>1 DEF Catalogue!Write, Catalogue!SyncCapabilities
  <2>3. Catalogue!Prepares(r, w)
    BY <1>2, <2>1 DEF Catalogue!DeletePlan
  <2> QED  BY <2>2, <2>3, PreparesKeeps DEF WriteOK, Edits, Catalogue!NoRows
<1>3. ASSUME NEW c \in Codes, Catalogue!RemoveCapability(r, p, c) PROVE CatalogInv'
  <2>1. PICK w : w = [Catalogue!Write("capability", p) EXCEPT !.gone = {c}]
    OBVIOUS
  <2>2. w.kind = "capability" /\ w.plan = p /\ w.in = {} /\ w.new = Catalogue!NoRows
    BY <2>1 DEF Catalogue!Write
  <2>3. Catalogue!Prepares(r, w)
    BY <1>3, <2>1 DEF Catalogue!RemoveCapability
  <2> QED  BY <2>2, <2>3, PreparesKeeps DEF WriteOK, Edits, Catalogue!NoRows
<1>4. ASSUME NEW c \in Codes, NEW v \in Catalogue!Values, Catalogue!AddCapability(r, p, c, v)
      PROVE  CatalogInv'
  <2>1. PICK w : w = [Catalogue!Write("capability", p) EXCEPT
            !.gone = {c} \cap DOMAIN caps[p], !.new = [d \in {c} |-> v]]
    OBVIOUS
  <2>2. w.kind = "capability" /\ w.plan = p /\ w.in = {} /\ w.new = [d \in {c} |-> v]
    BY <2>1 DEF Catalogue!Write
  <2>3. Catalogue!Prepares(r, w)
    BY <1>4, <2>1 DEF Catalogue!AddCapability
  <2> QED  BY <2>2, <2>3, PreparesKeeps DEF WriteOK, Edits
<1>5. ASSUME NEW x \in Products, Catalogue!AddProduct(r, p, x) PROVE CatalogInv'
  <2>1. PICK w : w = [Catalogue!Write("product", p) EXCEPT !.in = {x}]
    OBVIOUS
  <2>2. w.kind = "product" /\ w.plan = p /\ w.in \subseteq Products /\ w.new = Catalogue!NoRows
    BY <2>1 DEF Catalogue!Write
  <2>3. Catalogue!Prepares(r, w)
    BY <1>5, <2>1 DEF Catalogue!AddProduct
  <2> QED  BY <2>2, <2>3, PreparesKeeps DEF WriteOK, Edits, Catalogue!NoRows
<1>6. ASSUME NEW x \in Products, Catalogue!RemoveProduct(r, p, x) PROVE CatalogInv'
  <2>1. PICK w : w = [Catalogue!Write("product", p) EXCEPT !.out = {x}]
    OBVIOUS
  <2>2. w.kind = "product" /\ w.plan = p /\ w.in \subseteq Products /\ w.new = Catalogue!NoRows
    BY <2>1 DEF Catalogue!Write
  <2>3. Catalogue!Prepares(r, w)
    BY <1>6, <2>1 DEF Catalogue!RemoveProduct
  <2> QED  BY <2>2, <2>3, PreparesKeeps DEF WriteOK, Edits, Catalogue!NoRows
<1>7. QED
  BY <1>1, <1>2, <1>3, <1>4, <1>5, <1>6 DEF Catalogue!OfPlan

LEMMA DeleteProductKeeps ==
    ASSUME CatalogInv, NEW r \in Staff, NEW x \in Products, Catalogue!DeleteProduct(r, x)
    PROVE  CatalogInv'
<1>1. PICK w : w = [Catalogue!Write("discard", "none") EXCEPT !.out = {x}]
  OBVIOUS
<1>2. w.kind = "discard" /\ w.plan = "none" /\ w.in = {} /\ w.new = Catalogue!NoRows
  BY <1>1 DEF Catalogue!Write
<1>3. Catalogue!Prepares(r, w)
  BY <1>1 DEF Catalogue!DeleteProduct
<1>4. QED  BY <1>2, <1>3, PreparesKeeps DEF WriteOK, Edits, Catalogue!NoRows

\* A request that ends leaves the others as they are.
LEMMA IdleWrite ==
    /\ WriteOK(Catalogue!Idle) /\ Catalogue!Idle.kind = "idle"
BY DEF WriteOK, Edits, Catalogue!Idle, Catalogue!Write, Catalogue!NoRows

LEMMA CatalogAbort ==
    ASSUME CatalogInv, NEW r \in Staff, Catalogue!Abort(r)
    PROVE  CatalogInv'
<1>1. /\ writing' = [writing EXCEPT ![r] = Catalogue!Idle]
      /\ UNCHANGED <<plans, caps, bundle, products, sub, override, sent, mixed>>
  BY DEF Catalogue!Abort
<1>2. CatalogTypes'
  BY <1>1 DEF CatalogInv, CatalogTypes
<1>3. \A q \in Staff : WriteOK(writing'[q]) /\ DeletesAll(writing[q])'
  BY <1>1, IdleWrite DEF CatalogInv, CatalogTypes, DeletesAll
<1>4. OverlapsNoted'
  BY <1>1, IdleWrite DEF CatalogInv, CatalogTypes, OverlapsNoted
<1>5. Catalogue!ReferencesResolve' /\ Catalogue!ReplacedWhole'
  BY <1>1 DEF CatalogInv, Catalogue!ReferencesResolve, Catalogue!ReplacedWhole
<1>6. QED  BY <1>2, <1>3, <1>4, <1>5 DEF CatalogInv, WriteOK

\* The foreign keys are what keeps a deletion from leaving something behind.
LEMMA DiscardKeeps ==
    ASSUME CatalogInv, NEW r \in Staff, Catalogue!Commit(r), writing[r].kind = "discard"
    PROVE  CatalogInv'
<1>1. /\ writing' = [writing EXCEPT ![r] = Catalogue!Idle]
      /\ products' = [x \in Products |->
                        IF x \in writing[r].out THEN "absent" ELSE products[x]]
      /\ \A p \in Plans : writing[r].out \cap bundle[p] = {}
      /\ UNCHANGED <<plans, caps, bundle, sub, override, sent, mixed>>
  BY DEF Catalogue!Commit, Catalogue!Conflicts
<1>2. CatalogTypes'
  BY <1>1 DEF CatalogInv, CatalogTypes
<1>3. \A q \in Staff : WriteOK(writing'[q]) /\ DeletesAll(writing[q])'
  BY <1>1, IdleWrite DEF CatalogInv, CatalogTypes, DeletesAll
<1>4. OverlapsNoted'
  BY <1>1, IdleWrite DEF CatalogInv, CatalogTypes, OverlapsNoted
<1>5. Catalogue!ReferencesResolve'
  <2>1. \A p \in Plans : \A x \in bundle[p] : products[x] # "absent"
    BY DEF CatalogInv, Catalogue!ReferencesResolve
  <2>2. \A p \in Plans : \A x \in bundle[p] : x \in Products => products'[x] # "absent"
    BY <1>1, <2>1
  <2>3. \A p \in Plans : \A x \in bundle[p] : x \in Products
    BY DEF CatalogInv, CatalogTypes
  <2> QED  BY <1>1, <2>2, <2>3 DEF CatalogInv, Catalogue!ReferencesResolve
<1>6. Catalogue!ReplacedWhole'
  BY <1>1 DEF CatalogInv, Catalogue!ReplacedWhole
<1>7. QED  BY <1>2, <1>3, <1>4, <1>5, <1>6 DEF CatalogInv, WriteOK

\* What an edit of a plan writes.
PlanWritten(w) ==
    /\ plans' = IF w.kind = "delete" THEN plans \ {w.plan} ELSE plans \cup {w.plan}
    /\ caps' = [caps EXCEPT ![w.plan] = Catalogue!With(w.new, Catalogue!Kept(w))]
    /\ bundle' = [bundle EXCEPT ![w.plan] = (bundle[w.plan] \ w.out) \cup w.in]
    /\ sent' = [sent EXCEPT ![w.plan] =
                  IF w.kind \in {"create", "update", "delete"} THEN w.new
                  ELSE Catalogue!With(w.new, Catalogue!Without(sent[w.plan], w.gone))]
    /\ UNCHANGED <<products, sub, override, mixed>>

LEMMA PlanCommitted ==
    ASSUME CatalogTypes, NEW r \in Staff, Catalogue!Commit(r), writing[r].kind # "discard"
    PROVE  /\ writing[r].kind # "idle" => PlanWritten(writing[r])
           /\ writing' = [writing EXCEPT ![r] = Catalogue!Idle]
           /\ ~Catalogue!Conflicts(writing[r])
<1>1. PICK w : w = writing[r]
  OBVIOUS
<1>2. /\ ~Catalogue!Conflicts(w)
      /\ writing' = [writing EXCEPT ![r] = Catalogue!Idle]
      /\ plans' = IF w.kind = "delete" THEN plans \ {w.plan} ELSE plans \cup {w.plan}
      /\ caps' = [caps EXCEPT ![w.plan] = Catalogue!With(w.new, Catalogue!Kept(w))]
      /\ bundle' = [bundle EXCEPT ![w.plan] = (bundle[w.plan] \ w.out) \cup w.in]
      /\ sent' = IF w.kind \in {"create", "update", "delete"}
                 THEN [sent EXCEPT ![w.plan] = w.new]
                 ELSE [sent EXCEPT ![w.plan] =
                          Catalogue!With(w.new, Catalogue!Without(sent[w.plan], w.gone))]
      /\ UNCHANGED <<products, sub, override, mixed>>
  BY <1>1 DEF Catalogue!Commit
<1>3. PlanWritten(w)
  BY <1>2 DEF PlanWritten
<1>4. QED  BY <1>1, <1>2, <1>3

\* New capabilities over none at all are the new ones.
LEMMA OverNothing ==
    ASSUME NEW f, NEW g, f = [c \in DOMAIN f |-> f[c]], DOMAIN g = {}
    PROVE  Catalogue!With(f, g) = f
BY DEF Catalogue!With

LEMMA PlanCommitKeeps ==
    ASSUME CatalogInv, NEW r \in Staff, Catalogue!Commit(r), writing[r].kind \in Edits
    PROVE  CatalogInv'
<1>1. PICK w : w = writing[r]
  OBVIOUS
<1>2. PICK p : p = w.plan
  OBVIOUS
<1>3. /\ WriteOK(w) /\ DeletesAll(w) /\ w.kind \in Edits /\ p \in Plans
      /\ PlanWritten(w) /\ ~Catalogue!Conflicts(w)
      /\ writing' = [writing EXCEPT ![r] = Catalogue!Idle]
  BY <1>1, <1>2, PlanCommitted DEF CatalogInv, WriteOK, Edits
<1>4. CatalogTypes
  BY DEF CatalogInv
<1>5. /\ (w.kind = "create") = (p \notin plans)
      /\ \A x \in w.in : products[x] # "absent"
      /\ w.kind = "delete" => /\ sub.plan # p
                              /\ DOMAIN Catalogue!Kept(w) = {} /\ bundle[p] \ w.out = {}
  BY <1>2, <1>3 DEF Catalogue!Conflicts, Edits
<1>6. /\ \A q \in Plans \ {p} : caps'[q] = caps[q] /\ bundle'[q] = bundle[q]
                                 /\ sent'[q] = sent[q]
      /\ caps'[p] = Catalogue!With(w.new, Catalogue!Kept(w))
      /\ bundle'[p] = (bundle[p] \ w.out) \cup w.in
      /\ DOMAIN caps' = Plans /\ DOMAIN bundle' = Plans /\ DOMAIN sent' = Plans
      /\ \A q \in Plans \ {p} : q \in plans' <=> q \in plans
      /\ p \in plans' <=> w.kind # "delete"
  BY <1>2, <1>3, <1>4 DEF PlanWritten, CatalogTypes
<1>7. CatalogTypes'
  <2>1. plans' \subseteq Plans
    BY <1>2, <1>3, <1>4 DEF PlanWritten, CatalogTypes
  <2>2. \A q \in Plans : bundle'[q] \subseteq Products
    BY <1>3, <1>4, <1>6 DEF CatalogTypes, WriteOK
  <2> QED  BY <1>3, <1>4, <1>6, <2>1, <2>2 DEF PlanWritten, CatalogTypes
<1>8. OverlapsNoted'
  BY <1>3, <1>4, IdleWrite DEF CatalogInv, PlanWritten, CatalogTypes, OverlapsNoted
<1>9. \A q \in Staff : WriteOK(writing'[q]) /\ DeletesAll(writing[q])'
  <2>1. ASSUME NEW q \in Staff, q # r PROVE DeletesAll(writing[q])'
    <3>1. writing'[q] = writing[q] /\ mixed' = mixed
      BY <1>3, <1>4, <2>1 DEF CatalogTypes, PlanWritten
    <3>2. CASE writing[q].plan = p /\ writing[q].kind # "idle"
      <4>1. writing[q].plan \in mixed
        BY <1>1, <1>2, <1>3, <2>1, <3>2 DEF CatalogInv, OverlapsNoted, Edits
      <4> QED  BY <3>1, <4>1 DEF DeletesAll
    <3>3. CASE ~(writing[q].plan = p /\ writing[q].kind # "idle")
      <4>1. WriteOK(writing[q]) /\ DeletesAll(writing[q])
        BY DEF CatalogInv
      <4> QED  BY <1>6, <3>1, <3>3, <4>1 DEF DeletesAll, WriteOK, Edits
    <3> QED  BY <3>2, <3>3
  <2>2. DeletesAll(writing[r])' /\ WriteOK(writing'[r])
    BY <1>3, <1>4, IdleWrite DEF DeletesAll, CatalogTypes
  <2>3. \A q \in Staff : q # r => WriteOK(writing'[q])
    BY <1>3, <1>4 DEF CatalogInv, CatalogTypes
  <2> QED  BY <2>1, <2>2, <2>3
<1>10. Catalogue!ReferencesResolve'
  <2>1. Catalogue!ReferencesResolve
    BY DEF CatalogInv
  <2>2. sub' # Catalogue!NoSub => sub'.plan \in plans'
    <3>1. sub' = sub
      BY <1>3 DEF PlanWritten
    <3>2. sub # Catalogue!NoSub => sub.plan \in plans
      BY <2>1 DEF Catalogue!ReferencesResolve
    <3> QED  BY <1>4, <1>5, <1>6, <3>1, <3>2 DEF CatalogTypes
  <2>3. ASSUME NEW q \in Plans, q # p
        PROVE  /\ \A x \in bundle'[q] : q \in plans' /\ products'[x] # "absent"
               /\ DOMAIN caps'[q] # {} => q \in plans'
    BY <1>3, <1>6, <2>1, <2>3 DEF Catalogue!ReferencesResolve, PlanWritten
  <2>4. \A x \in bundle'[p] : p \in plans' /\ products'[x] # "absent"
    BY <1>3, <1>5, <1>6, <2>1 DEF Catalogue!ReferencesResolve, PlanWritten, WriteOK
  <2>5. DOMAIN caps'[p] # {} => p \in plans'
    <3>1. CASE w.kind = "delete"
      <4>1. DOMAIN caps'[p] = {}
        BY <1>3, <1>5, <1>6, <3>1 DEF WriteOK, Catalogue!With
      <4> QED  BY <4>1
    <3> QED  BY <1>6, <3>1
  <2>6. ASSUME NEW q \in Plans
        PROVE  /\ \A x \in bundle'[q] : q \in plans' /\ products'[x] # "absent"
               /\ DOMAIN caps'[q] # {} => q \in plans'
    <3>1. CASE q = p  BY <2>4, <2>5, <3>1
    <3>2. CASE q # p  BY <2>3, <3>2
    <3> QED  BY <3>1, <3>2
  <2> QED  BY <2>2, <2>6 DEF Catalogue!ReferencesResolve
<1>11. Catalogue!ReplacedWhole'
  <2>1. mixed' = mixed
    BY <1>3 DEF PlanWritten
  <2>2. ASSUME p \notin mixed PROVE caps'[p] = sent'[p]
    <3>1. caps[p] = sent[p]
      BY <1>3, <2>2 DEF CatalogInv, Catalogue!ReplacedWhole
    <3>2. CASE w.kind \in {"create", "update", "delete"}
      <4>1. sent'[p] = w.new
        BY <1>2, <1>3, <1>4, <3>2 DEF PlanWritten, CatalogTypes
      <4>2. DOMAIN Catalogue!Kept(w) = {}
        <5>1. CASE w.kind = "create"
          <6>1. DOMAIN caps[p] = {}
            BY <1>3, <1>5, <5>1 DEF CatalogInv, Catalogue!ReferencesResolve
          <6> QED  BY <1>2, <6>1 DEF Catalogue!Kept, Catalogue!Without
        <5>2. CASE w.kind \in {"update", "delete"}
          <6>1. w.gone = DOMAIN caps[p]
            BY <1>2, <1>3, <2>2, <5>2 DEF DeletesAll
          <6> QED  BY <1>2, <6>1 DEF Catalogue!Kept, Catalogue!Without
        <5> QED  BY <3>2, <5>1, <5>2
      <4> QED  BY <1>3, <1>6, <4>1, <4>2, OverNothing DEF WriteOK
    <3>3. CASE w.kind \in {"capability", "product"}
      <4>1. sent'[p] = Catalogue!With(w.new, Catalogue!Without(sent[p], w.gone))
        BY <1>2, <1>3, <1>4, <3>3 DEF PlanWritten, CatalogTypes
      <4> QED  BY <1>2, <1>6, <3>1, <4>1 DEF Catalogue!Kept
    <3> QED  BY <1>3, <3>2, <3>3 DEF Edits
  <2> QED  BY <1>6, <2>1, <2>2 DEF CatalogInv, Catalogue!ReplacedWhole
<1>12. QED  BY <1>7, <1>8, <1>9, <1>10, <1>11 DEF CatalogInv, WriteOK

\* Nothing that requests prepare is touched by the rest.
LEMMA CatalogOthers ==
    ASSUME CatalogInv, UNCHANGED <<plans, caps, bundle, sent, mixed, writing>>,
           \/ /\ sub' = sub /\ DOMAIN products' = Products
              /\ \A x \in Products : products[x] # "absent" => products'[x] # "absent"
           \/ products' = products /\ sub'.plan \in plans /\ DOMAIN sub' = {"plan", "status"}
    PROVE  CatalogInv'
<1>1. CatalogTypes'
  BY DEF CatalogInv, CatalogTypes
<1>2. (\A q \in Staff : WriteOK(writing[q]) /\ DeletesAll(writing[q]))'
  BY DEF CatalogInv, DeletesAll
<1>3. OverlapsNoted' /\ Catalogue!ReplacedWhole'
  BY DEF CatalogInv, OverlapsNoted, Catalogue!ReplacedWhole
<1>4. Catalogue!ReferencesResolve'
  BY DEF CatalogInv, Catalogue!ReferencesResolve, CatalogTypes
<1>5. QED  BY <1>1, <1>2, <1>3, <1>4 DEF CatalogInv

\* Subscriptions and products move without looking at the plans.
LEMMA CatalogSells ==
    ASSUME CatalogInv,
           \/ \E x \in Products :
                 \/ Catalogue!CreateProduct(x)
                 \/ \E active_ \in BOOLEAN : Catalogue!SetProductActive(x, active_)
           \/ \E p \in Plans : Catalogue!Subscribe(p)
           \/ \E status \in {"PAST_DUE", "CANCELLED", "EXPIRED"} :
                 Catalogue!SubscriptionEnds(status)
           \/ \E v \in Catalogue!Values, live \in BOOLEAN :
                 Catalogue!SetOverride([value |-> v, live |-> live])
    PROVE  CatalogInv'
<1>1. ASSUME NEW x \in Products,
             \/ Catalogue!CreateProduct(x)
             \/ \E active_ \in BOOLEAN : Catalogue!SetProductActive(x, active_)
      PROVE  CatalogInv'
  <2>1. /\ DOMAIN products' = Products
        /\ \A y \in Products : products[y] # "absent" => products'[y] # "absent"
    BY <1>1 DEF Catalogue!CreateProduct, Catalogue!SetProductActive, CatalogInv, CatalogTypes
  <2>2. UNCHANGED <<plans, caps, bundle, sub, sent, mixed, writing>>
    BY <1>1 DEF Catalogue!CreateProduct, Catalogue!SetProductActive
  <2> QED  BY <2>1, <2>2, CatalogOthers
<1>2. ASSUME NEW p \in Plans, Catalogue!Subscribe(p) PROVE CatalogInv'
  BY <1>2, CatalogOthers DEF Catalogue!Subscribe, Catalogue!catalog
<1>3. ASSUME NEW status, Catalogue!SubscriptionEnds(status) PROVE CatalogInv'
  <2>1. sub.plan \in plans /\ DOMAIN sub = {"plan", "status"}
    BY <1>3 DEF Catalogue!SubscriptionEnds, CatalogInv, CatalogTypes,
                Catalogue!ReferencesResolve
  <2>2. sub'.plan \in plans /\ DOMAIN sub' = {"plan", "status"}
    BY <1>3, <2>1 DEF Catalogue!SubscriptionEnds
  <2> QED  BY <1>3, <2>2, CatalogOthers DEF Catalogue!SubscriptionEnds, Catalogue!catalog
<1>4. ASSUME NEW o, Catalogue!SetOverride(o) PROVE CatalogInv'
  <2>1. /\ UNCHANGED <<plans, caps, bundle, products, sub, sent, mixed, writing>>
    BY <1>4 DEF Catalogue!SetOverride, Catalogue!catalog
  <2> QED  BY <2>1, CatalogOthers DEF CatalogInv, CatalogTypes
<1>5. QED  BY <1>1, <1>2, <1>3, <1>4

LEMMA CatalogSteps ==
    ASSUME CatalogInv, Catalogue!Next
    PROVE  CatalogInv'
<1>1. ASSUME NEW r \in Staff, Catalogue!Commit(r) PROVE CatalogInv'
  <2>1. writing[r].kind \in Edits \cup {"discard", "idle"}
    BY DEF CatalogInv, WriteOK
  <2>2. CASE writing[r].kind = "idle"
    <3>1. ~Catalogue!Conflicts(writing[r])
      BY <1>1, <2>2, PlanCommitted DEF CatalogInv
    <3>2. writing[r].plan = "none" /\ plans \subseteq Plans /\ "none" \notin Plans
      BY <2>2, OperationsAssumption
         DEF CatalogInv, WriteOK, CatalogTypes, Catalogue!CatalogAssumption
    <3> QED  BY <2>2, <3>1, <3>2 DEF Catalogue!Conflicts
  <2> QED  BY <1>1, <2>1, <2>2, DiscardKeeps, PlanCommitKeeps
<1>2. ASSUME NEW r \in Staff, Catalogue!Abort(r) PROVE CatalogInv'
  BY <1>2, CatalogAbort
<1>3. ASSUME NEW r \in Staff, NEW p \in Plans, Catalogue!OfPlan(r, p) PROVE CatalogInv'
  BY <1>3, OfPlanKeeps
<1>4. ASSUME NEW r \in Staff, NEW x \in Products, Catalogue!DeleteProduct(r, x)
      PROVE  CatalogInv'
  BY <1>4, DeleteProductKeeps
<1>5. QED  BY <1>1, <1>2, <1>3, <1>4, CatalogSells DEF Catalogue!Next

LEMMA CatalogStutters ==
    ASSUME CatalogInv, UNCHANGED catalogVars
    PROVE  CatalogInv'
BY DEF catalogVars, CatalogInv, CatalogTypes, DeletesAll, WriteOK, OverlapsNoted,
       Catalogue!ReferencesResolve, Catalogue!ReplacedWhole

\* What an organization is served comes from a row.
LEMMA ServedFromARow ==
    ASSUME CatalogInv
    PROVE  Catalogue!ServedIsGranted
<1>1. SUFFICES ASSUME Catalogue!Resolved > 0
               PROVE  \/ override.live /\ override.value = Catalogue!Resolved
                      \/ /\ sub.status \notin {"none", "CANCELLED", "EXPIRED"}
                         /\ sub.plan \in plans /\ Code \in DOMAIN caps[sub.plan]
                         /\ caps[sub.plan][Code] = Catalogue!Resolved
  BY DEF Catalogue!ServedIsGranted
<1>2. CASE override.live
  BY <1>2 DEF Catalogue!Resolved
<1>3. CASE ~override.live
  <2>1. \E p \in Catalogue!ActivePlan : Code \in DOMAIN caps[p]
    BY <1>1, <1>3 DEF Catalogue!Resolved
  <2>2. sub.status \in {"ACTIVE", "TRIAL", "PAST_DUE"} /\ Code \in DOMAIN caps[sub.plan]
    BY <2>1 DEF Catalogue!ActivePlan
  <2>3. sub.plan \in plans
    BY <2>2 DEF CatalogInv, Catalogue!ReferencesResolve, Catalogue!NoSub
  <2>4. Catalogue!Resolved = caps[sub.plan][Code]
    BY <1>3, <2>1 DEF Catalogue!Resolved
  <2> QED  BY <2>2, <2>3, <2>4
<1>4. QED  BY <1>2, <1>3

LEMMA CatalogAlways == OperationsSpec => []CatalogInv
<1>1. OperationsInit => CatalogInv
  BY CatalogStarts DEF OperationsInit
<1>2. CatalogInv /\ [OperationsNext]_operationsVars => CatalogInv'
  BY CatalogSteps, CatalogStutters DEF OperationsNext, operationsVars
<1>3. QED  BY <1>1, <1>2, PTL DEF OperationsSpec

\* Whatever plans staff edit at the same time, whoever pays has a plan that
\* exists, a PATCH replaces what it found, and nobody is served more than a row
\* grants (internal/plans.py, capability_service.py).
THEOREM PlansStayWhole == OperationsSpec => []CatalogIsSound
<1>1. CatalogInv => CatalogIsSound
  BY ServedFromARow DEF CatalogIsSound, CatalogInv
<1>2. QED  BY <1>1, CatalogAlways, PTL

-----------------------------------------------------------------------------
(* Sessions: the keys that threads share.                                  *)

\* The phases of the thread that holds the lock.
Fetching == {"fetch", "store", "stamp"}

\* Keys that Cognito published at time t: what they miss came later, and what
\* they have too much was withdrawn later.
AsOf(keys, t) ==
    /\ \A k \in keys : k + 2 <= Len(issued) => t <= issued[k + 2]
    /\ \A k \in Keys!Published \ keys : t <= issued[k]

KeyTypes ==
    /\ now \in Nat
    /\ issued \in Seq(Nat) /\ issued # <<>>
    /\ \A k \in 1..Len(issued) : issued[k] <= now
    /\ cache.keys \subseteq 1..Len(issued) /\ cache.at \in 0..now
    /\ DOMAIN cache = {"keys", "at"}
    /\ DOMAIN req = Threads.requests
    /\ \A r \in Threads.requests :
          /\ DOMAIN req[r] = DOMAIN Keys!Idle
          /\ req[r].phase \in Fetching => req[r].asked \in 0..now
          /\ req[r].keys \subseteq 1..Len(issued)

\* One thread fetches, and its request is no older than MaxFetch.
LockInv ==
    /\ \A r \in Threads.requests : req[r].phase \in Fetching <=> lock = r
    /\ \A r \in Threads.requests : req[r].phase \in Fetching =>
          /\ now <= req[r].asked + Threads.fetch
          /\ cache.at <= req[r].asked
          /\ req[r].phase = "fetch" =>
                cache.keys = {} \/ req[r].asked >= cache.at + Threads.ttl

CacheInv ==
    /\ AsOf(cache.keys, cache.at - Threads.fetch)
    /\ \A r \in Threads.requests :
          /\ req[r].phase = "store" => AsOf(req[r].keys, req[r].asked)
          /\ req[r].phase = "stamp" => AsOf(cache.keys, req[r].asked)

KeyInv == KeyTypes /\ LockInv /\ CacheInv

LEMMA KeyConstants ==
    /\ Threads.ttl \in Nat /\ Threads.fetch \in Nat
    /\ None \notin Threads.requests
BY OperationsAssumption DEF Keys!SessionsAssumption

LEMMA KeysStart == Keys!Init => KeyInv
<1> SUFFICES ASSUME Keys!Init PROVE KeyInv
  OBVIOUS
<1>1. /\ now = 0 /\ issued = <<0>> /\ cache = [keys |-> {}, at |-> 0] /\ lock = None
      /\ req = [r \in Threads.requests |-> Keys!Idle]
  BY DEF Keys!Init
<1>2. Keys!Idle.phase = "idle" /\ Keys!Idle.keys = {}
  BY DEF Keys!Idle
<1>3. KeyTypes
  BY <1>1, <1>2 DEF KeyTypes, Fetching
<1>4. LockInv
  BY <1>1, <1>2, KeyConstants DEF LockInv, Fetching
<1>5. CacheInv
  <2>1. issued[1] = 0 /\ Len(issued) = 1 /\ Keys!Published = {1}
    BY <1>1 DEF Keys!Published
  <2>2. AsOf(cache.keys, cache.at - Threads.fetch)
    BY <1>1, <2>1, KeyConstants DEF AsOf
  <2> QED  BY <1>1, <1>2, <2>2 DEF CacheInv
<1>6. QED  BY <1>3, <1>4, <1>5 DEF KeyInv

\* What is fresh is no older than TTL and a fetch.
LEMMA KeysFollow ==
    ASSUME KeyInv
    PROVE  Keys!KeysFollowCognito /\ Keys!FetchedWhenNeeded
<1>1. Keys!KeysFollowCognito
  <2>1. SUFFICES ASSUME now < cache.at + Threads.ttl
                 PROVE  /\ \A k \in cache.keys : k + 2 <= Len(issued) =>
                              now < issued[k + 2] + Threads.ttl + Threads.fetch
                        /\ \A k \in Keys!Published \ cache.keys :
                              now < issued[k] + Threads.ttl + Threads.fetch
    BY DEF Keys!KeysFollowCognito, Keys!Fresh
  <2>2. AsOf(cache.keys, cache.at - Threads.fetch) /\ KeyTypes
    BY DEF KeyInv, CacheInv
  <2>3. cache.at \in Nat /\ now \in Nat
    BY <2>2 DEF KeyTypes
  <2>4. ASSUME NEW k \in cache.keys, k + 2 <= Len(issued)
        PROVE  now < issued[k + 2] + Threads.ttl + Threads.fetch
    <3>1. cache.at - Threads.fetch <= issued[k + 2] /\ issued[k + 2] \in Nat
      BY <2>2, <2>4 DEF AsOf, KeyTypes
    <3> QED  BY <2>1, <2>3, <3>1, KeyConstants
  <2>5. ASSUME NEW k \in Keys!Published \ cache.keys
        PROVE  now < issued[k] + Threads.ttl + Threads.fetch
    <3>1. cache.at - Threads.fetch <= issued[k] /\ issued[k] \in Nat
      BY <2>2, <2>5 DEF AsOf, KeyTypes, Keys!Published
    <3> QED  BY <2>1, <2>3, <3>1, KeyConstants
  <2> QED  BY <2>4, <2>5
<1>2. Keys!FetchedWhenNeeded
  BY DEF KeyInv, LockInv, Fetching, Keys!FetchedWhenNeeded
<1>3. QED  BY <1>1, <1>2

\* A request that moves outside the fetch disturbs nobody's keys.
LEMMA KeysOutside ==
    ASSUME KeyInv, NEW r \in Threads.requests, NEW q,
           req[r].phase \notin Fetching, q.phase \notin Fetching,
           DOMAIN q = DOMAIN Keys!Idle, q.keys \subseteq 1..Len(issued),
           req' = [req EXCEPT ![r] = q],
           UNCHANGED <<now, issued, cache, lock>>
    PROVE  KeyInv'
<1>1. KeyTypes'
  BY DEF KeyInv, KeyTypes
<1>2. LockInv'
  BY DEF KeyInv, KeyTypes, LockInv
<1>3. CacheInv'
  BY DEF KeyInv, KeyTypes, CacheInv, AsOf, Keys!Published, Fetching
<1>4. QED  BY <1>1, <1>2, <1>3 DEF KeyInv

\* Nothing of the keys changes when people do.
LEMMA KeysAside ==
    ASSUME KeyInv, UNCHANGED <<now, issued, cache, lock>>,
           DOMAIN req' = Threads.requests,
           \A r \in Threads.requests :
              /\ DOMAIN req'[r] = DOMAIN req[r]
              /\ req'[r].phase = req[r].phase /\ req'[r].asked = req[r].asked
              /\ req'[r].keys = req[r].keys
    PROVE  KeyInv'
<1>1. KeyTypes'
  BY DEF KeyInv, KeyTypes
<1>2. LockInv'
  BY DEF KeyInv, LockInv
<1>3. CacheInv'
  BY DEF KeyInv, CacheInv, AsOf, Keys!Published
<1>4. QED  BY <1>1, <1>2, <1>3 DEF KeyInv

LEMMA KeysTick ==
    ASSUME KeyInv, Keys!Tick
    PROVE  KeyInv'
<1>1. /\ now' = now + 1
      /\ \A r \in Threads.requests :
            req[r].phase \in Fetching => now < req[r].asked + Threads.fetch
      /\ UNCHANGED <<issued, cache, lock, req>>
  BY DEF Keys!Tick, Keys!keyVars, Fetching
<1>2. KeyTypes'
  BY <1>1 DEF KeyInv, KeyTypes
<1>3. LockInv'
  BY <1>1, KeyConstants DEF KeyInv, KeyTypes, LockInv
<1>4. CacheInv'
  BY <1>1 DEF KeyInv, CacheInv, AsOf, Keys!Published
<1>5. QED  BY <1>2, <1>3, <1>4 DEF KeyInv

\* A new key leaves what was known as it was known.
LEMMA RotatesAsOf ==
    ASSUME KeyTypes, NEW K \in SUBSET (1..Len(issued)), NEW t \in Int, t <= now,
           AsOf(K, t), issued' = Append(issued, now)
    PROVE  AsOf(K, t)'
<1>1. /\ Len(issued') = Len(issued) + 1 /\ Len(issued) \in Nat /\ Len(issued) > 0
      /\ issued'[Len(issued) + 1] = now
      /\ \A k \in 1..Len(issued) : issued'[k] = issued[k]
  BY DEF KeyTypes
<1>2. ASSUME NEW k \in K, k + 2 <= Len(issued') PROVE t <= issued'[k + 2]
  BY <1>1, <1>2 DEF AsOf
<1>3. ASSUME NEW k \in Keys!Published' \ K PROVE t <= issued'[k]
  BY <1>1, <1>3 DEF AsOf, Keys!Published
<1>4. QED  BY <1>2, <1>3 DEF AsOf

LEMMA KeysRotate ==
    ASSUME KeyInv, Keys!Rotate
    PROVE  KeyInv'
<1>1. issued' = Append(issued, now) /\ UNCHANGED <<now, cache, lock, req>>
  BY DEF Keys!Rotate
<1>2. KeyTypes /\ LockInv /\ CacheInv
  BY DEF KeyInv
<1>3. KeyTypes'
  <2>1. /\ issued' \in Seq(Nat) /\ issued' # <<>>
        /\ Len(issued') = Len(issued) + 1 /\ Len(issued) \in Nat
        /\ \A k \in 1..Len(issued') : issued'[k] <= now
    BY <1>1, <1>2 DEF KeyTypes
  <2> QED  BY <1>1, <1>2, <2>1 DEF KeyTypes
<1>4. LockInv'
  BY <1>1, <1>2 DEF LockInv
<1>5. CacheInv'
  <2>1. AsOf(cache.keys, cache.at - Threads.fetch)'
    <3>1. PICK K, t : K = cache.keys /\ t = cache.at - Threads.fetch
      OBVIOUS
    <3>2. K \in SUBSET (1..Len(issued)) /\ t \in Int /\ t <= now /\ AsOf(K, t)
      BY <1>2, <3>1, KeyConstants DEF KeyTypes, CacheInv
    <3>3. AsOf(K, t)'
      BY <1>1, <1>2, <3>2, RotatesAsOf
    <3>4. K = (cache.keys)' /\ t = (cache.at - Threads.fetch)'
      BY <1>1, <3>1
    <3> QED  BY <3>3, <3>4
  <2>2. ASSUME NEW r \in Threads.requests, req[r].phase = "store"
        PROVE  AsOf(req[r].keys, req[r].asked)'
    <3>1. PICK K, t : K = req[r].keys /\ t = req[r].asked
      OBVIOUS
    <3>2. AsOf(K, t)'
      BY <1>1, <1>2, <2>2, <3>1, RotatesAsOf DEF KeyTypes, CacheInv, Fetching
    <3> QED  BY <1>1, <3>1, <3>2 DEF AsOf
  <2>3. ASSUME NEW r \in Threads.requests, req[r].phase = "stamp"
        PROVE  AsOf(cache.keys, req[r].asked)'
    <3>1. PICK K, t : K = cache.keys /\ t = req[r].asked
      OBVIOUS
    <3>2. AsOf(K, t)'
      BY <1>1, <1>2, <2>3, <3>1, RotatesAsOf DEF KeyTypes, CacheInv, Fetching
    <3> QED  BY <1>1, <3>1, <3>2 DEF AsOf
  <2> QED  BY <1>1, <2>1, <2>2, <2>3 DEF CacheInv
<1>6. QED  BY <1>3, <1>4, <1>5 DEF KeyInv


\* The fields of a request.
LEMMA RequestFields ==
    DOMAIN Keys!Idle = {"phase", "user", "kind", "asks", "token", "once", "ever", "always",
                        "asked", "keys", "home", "orgs"}
BY DEF Keys!Idle

LEMMA KeptFields ==
    ASSUME NEW q, DOMAIN q = DOMAIN Keys!Idle, NEW phase
    PROVE  /\ DOMAIN Keys!Kept(q, phase) = DOMAIN Keys!Idle
           /\ Keys!Kept(q, phase).phase = phase /\ Keys!Kept(q, phase).keys = {}
BY RequestFields DEF Keys!Kept

LEMMA IdleFields == Keys!Idle.phase = "idle" /\ Keys!Idle.keys = {}
BY DEF Keys!Idle

\* What becomes of a request whose token was looked up.
LEMMA CheckedFields ==
    ASSUME KeyTypes, NEW r \in Threads.requests, NEW K, Keys!Checked(r, K)
    PROVE  \E q : /\ req' = [req EXCEPT ![r] = q]
                  /\ DOMAIN q = DOMAIN Keys!Idle
                  /\ q.phase \notin Fetching /\ q.keys = {}
<1>1. DOMAIN req[r] = DOMAIN Keys!Idle
  BY DEF KeyTypes
<1>2. PICK q : q = IF Keys!Known(req[r], K) THEN Keys!Kept(req[r], "known") ELSE Keys!Idle
  OBVIOUS
<1>3. req' = [req EXCEPT ![r] = q]
  BY <1>2 DEF Keys!Checked
<1>4. DOMAIN q = DOMAIN Keys!Idle /\ q.phase \notin Fetching /\ q.keys = {}
  BY <1>1, <1>2, KeptFields, IdleFields DEF Fetching
<1>5. QED  BY <1>3, <1>4

\* The lock is free, or of the one that fetches.
LEMMA KeysEnter ==
    ASSUME KeyInv, NEW r \in Threads.requests, Keys!Enter(r)
    PROVE  KeyInv'
<1>1. /\ req[r].phase = "wait" /\ lock = None /\ KeyTypes
      /\ UNCHANGED <<now, issued, cache>>
  BY DEF Keys!Enter, KeyInv
<1>2. CASE Keys!LooksAgain
  <2>1. Keys!Checked(r, cache.keys) /\ lock' = lock
    BY <1>2 DEF Keys!Enter
  <2>2. PICK q : /\ req' = [req EXCEPT ![r] = q] /\ DOMAIN q = DOMAIN Keys!Idle
                 /\ q.phase \notin Fetching /\ q.keys = {}
    BY <1>1, <2>1, CheckedFields
  <2> QED  BY <1>1, <2>1, <2>2, KeysOutside DEF Fetching
<1>3. CASE ~Keys!LooksAgain
  <2>1. PICK q : q = [req[r] EXCEPT !.phase = "fetch", !.asked = now]
    OBVIOUS
  <2>2. lock' = r /\ req' = [req EXCEPT ![r] = q]
    BY <1>3, <2>1 DEF Keys!Enter
  <2>3. /\ DOMAIN q = DOMAIN Keys!Idle /\ q.phase = "fetch" /\ q.asked = now
        /\ q.keys = req[r].keys
    BY <1>1, <2>1, RequestFields DEF KeyTypes
  <2>4. cache.keys = {} \/ now >= cache.at + Threads.ttl
    BY <1>1, <1>3, KeyConstants DEF Keys!LooksAgain, Keys!Fresh, KeyTypes
  <2>5. \A s \in Threads.requests : req[s].phase \notin Fetching
    BY <1>1, KeyConstants DEF KeyInv, LockInv
  <2>6. KeyTypes'
    BY <1>1, <2>2, <2>3 DEF KeyTypes
  <2>7. \A s \in Threads.requests : req'[s] = IF s = r THEN q ELSE req[s]
    BY <1>1, <2>2 DEF KeyTypes
  <2>8. LockInv'
    BY <1>1, <2>2, <2>3, <2>4, <2>5, <2>7, KeyConstants DEF LockInv, KeyTypes, Fetching
  <2>9. CacheInv'
    BY <1>1, <2>3, <2>5, <2>7 DEF KeyInv, CacheInv, AsOf, Keys!Published, Fetching
  <2> QED  BY <2>6, <2>8, <2>9 DEF KeyInv
<1>4. QED  BY <1>2, <1>3

\* Cognito answers with what it publishes now.
LEMMA KeysAnswer ==
    ASSUME KeyInv, NEW r \in Threads.requests, Keys!Answer(r)
    PROVE  KeyInv'
<1>1. PICK q : q = [req[r] EXCEPT !.phase = "store", !.keys = Keys!Published]
  OBVIOUS
<1>2. /\ req[r].phase = "fetch" /\ KeyTypes /\ req' = [req EXCEPT ![r] = q]
      /\ UNCHANGED <<now, issued, cache, lock>>
  BY <1>1 DEF Keys!Answer, KeyInv, Keys!keyVars
<1>3. /\ DOMAIN q = DOMAIN Keys!Idle /\ q.phase = "store" /\ q.asked = req[r].asked
      /\ q.keys = Keys!Published /\ Keys!Published \subseteq 1..Len(issued)
  BY <1>1, <1>2, RequestFields DEF KeyTypes, Keys!Published
<1>4. \A s \in Threads.requests : req'[s] = IF s = r THEN q ELSE req[s]
  BY <1>2 DEF KeyTypes
<1>5. KeyTypes'
  BY <1>2, <1>3 DEF KeyTypes, Fetching
<1>6. LockInv'
  BY <1>2, <1>3, <1>4 DEF KeyInv, LockInv, Fetching
<1>7. AsOf(Keys!Published, req[r].asked)
  BY <1>2 DEF AsOf, Keys!Published, KeyTypes
<1>8. CacheInv'
  BY <1>2, <1>3, <1>4, <1>7 DEF KeyInv, CacheInv, AsOf, Keys!Published
<1>9. QED  BY <1>5, <1>6, <1>8 DEF KeyInv

\* The one that leaves the lock was alone.
LEMMA KeysLeave ==
    ASSUME KeyInv, NEW r \in Threads.requests, NEW q, NEW at,
           req[r].phase \in Fetching, lock' = None,
           req' = [req EXCEPT ![r] = q], UNCHANGED <<now, issued>>,
           DOMAIN q = DOMAIN Keys!Idle, q.phase \notin Fetching, q.keys = {},
           cache'.keys = cache.keys, cache'.at = at, DOMAIN cache' = {"keys", "at"},
           at \in 0..now,
           AsOf(cache.keys, at - Threads.fetch)
    PROVE  KeyInv'
<1>1. KeyTypes
  BY DEF KeyInv
<1>2. \A s \in Threads.requests : req'[s] = IF s = r THEN q ELSE req[s]
  BY <1>1 DEF KeyTypes
<1>3. \A s \in Threads.requests : req'[s].phase \notin Fetching
  BY <1>2 DEF KeyInv, LockInv
<1>4. KeyTypes'
  BY <1>1, <1>2, <1>3 DEF KeyTypes
<1>5. LockInv'
  BY <1>3, KeyConstants DEF LockInv
<1>6. CacheInv'
  BY <1>3 DEF CacheInv, AsOf, Keys!Published, Fetching
<1>7. QED  BY <1>4, <1>5, <1>6 DEF KeyInv

LEMMA KeysFail ==
    ASSUME KeyInv, NEW r \in Threads.requests, Keys!Fails(r)
    PROVE  KeyInv'
<1>1. /\ req[r].phase = "fetch" /\ lock' = None /\ UNCHANGED <<now, issued, cache>>
      /\ KeyTypes /\ CacheInv
  BY DEF Keys!Fails, KeyInv
<1>2. PICK q : /\ req' = [req EXCEPT ![r] = q] /\ DOMAIN q = DOMAIN Keys!Idle
               /\ q.phase \notin Fetching /\ q.keys = {}
  <2>1. CASE cache.keys # {}
    <3>1. Keys!Checked(r, cache.keys)
      BY <2>1 DEF Keys!Fails
    <3> QED  BY <1>1, <3>1, CheckedFields
  <2>2. CASE cache.keys = {}
    BY <2>2, IdleFields DEF Keys!Fails, Fetching
  <2> QED  BY <2>1, <2>2
<1>3. PICK at : at = cache.at
  OBVIOUS
<1>4. /\ cache'.keys = cache.keys /\ cache'.at = at /\ DOMAIN cache' = {"keys", "at"}
      /\ at \in 0..now
  BY <1>1, <1>3 DEF KeyTypes
<1>5. AsOf(cache.keys, at - Threads.fetch)
  BY <1>1, <1>3 DEF CacheInv
<1>6. req[r].phase \in Fetching
  BY <1>1 DEF Fetching
<1>7. QED  BY <1>1, <1>2, <1>4, <1>5, <1>6, KeysLeave

LEMMA KeysStore ==
    ASSUME KeyInv, NEW r \in Threads.requests, Keys!Store(r)
    PROVE  KeyInv'
<1>1. PICK q, K : q = [req[r] EXCEPT !.phase = "stamp"] /\ K = req[r].keys
  OBVIOUS
<1>2. /\ req[r].phase = "store" /\ KeyTypes /\ LockInv /\ CacheInv
      /\ req' = [req EXCEPT ![r] = q] /\ cache' = [cache EXCEPT !.keys = K]
      /\ UNCHANGED <<now, issued, lock>>
  BY <1>1 DEF Keys!Store, Keys!Goes, KeyInv
<1>3. /\ DOMAIN q = DOMAIN Keys!Idle /\ q.phase = "stamp" /\ q.asked = req[r].asked
      /\ q.keys = req[r].keys
  BY <1>1, <1>2, RequestFields DEF KeyTypes
<1>4. \A s \in Threads.requests : req'[s] = IF s = r THEN q ELSE req[s]
  BY <1>2 DEF KeyTypes
<1>5. cache'.keys = K /\ cache'.at = cache.at /\ DOMAIN cache' = {"keys", "at"}
  BY <1>2 DEF KeyTypes
<1>6. \A s \in Threads.requests \ {r} : req[s].phase \notin Fetching
  BY <1>2 DEF LockInv, Fetching
<1>7. KeyTypes'
  BY <1>1, <1>2, <1>3, <1>4, <1>5 DEF KeyTypes, Fetching
<1>8. LockInv'
  BY <1>2, <1>3, <1>4, <1>5, <1>6 DEF LockInv, Fetching
<1>9. CacheInv'
  <2>1. AsOf(K, req[r].asked) /\ req[r].asked >= cache.at /\ req[r].asked \in Nat
        /\ cache.at \in Nat
    BY <1>1, <1>2 DEF CacheInv, LockInv, KeyTypes, Fetching
  <2>2. AsOf(K, cache.at - Threads.fetch)
    <3>1. ASSUME NEW k \in K, k + 2 <= Len(issued)
          PROVE  cache.at - Threads.fetch <= issued[k + 2]
      <4>1. k + 2 \in 1..Len(issued)
        BY <1>1, <1>2, <3>1 DEF KeyTypes
      <4> QED  BY <1>2, <2>1, <3>1, <4>1, KeyConstants DEF AsOf, KeyTypes
    <3>2. ASSUME NEW k \in Keys!Published \ K
          PROVE  cache.at - Threads.fetch <= issued[k]
      BY <1>2, <2>1, <3>2, KeyConstants DEF AsOf, KeyTypes, Keys!Published
    <3> QED  BY <3>1, <3>2 DEF AsOf
  <2> QED  BY <1>2, <1>3, <1>4, <1>5, <1>6, <2>1, <2>2
           DEF CacheInv, AsOf, Keys!Published, Fetching
<1>10. QED  BY <1>7, <1>8, <1>9 DEF KeyInv

LEMMA KeysStamp ==
    ASSUME KeyInv, NEW r \in Threads.requests, Keys!Stamp(r)
    PROVE  KeyInv'
<1>1. /\ req[r].phase = "stamp" /\ lock' = None /\ UNCHANGED <<now, issued>>
      /\ KeyTypes /\ CacheInv /\ LockInv /\ Keys!Checked(r, cache.keys)
  BY DEF Keys!Stamp, KeyInv
<1>2. PICK at : at = now
  OBVIOUS
<1>3. /\ cache'.keys = cache.keys /\ cache'.at = at /\ DOMAIN cache' = {"keys", "at"}
      /\ at \in 0..now
  BY <1>1, <1>2 DEF Keys!Stamp, Keys!Stamped, KeyTypes
<1>4. PICK q : /\ req' = [req EXCEPT ![r] = q] /\ DOMAIN q = DOMAIN Keys!Idle
               /\ q.phase \notin Fetching /\ q.keys = {}
  BY <1>1, CheckedFields
<1>5. AsOf(cache.keys, at - Threads.fetch)
  <2>1. /\ AsOf(cache.keys, req[r].asked) /\ at <= req[r].asked + Threads.fetch
        /\ req[r].asked \in Nat /\ at \in Nat
    BY <1>1, <1>2 DEF CacheInv, LockInv, KeyTypes, Fetching
  <2>2. ASSUME NEW k \in cache.keys, k + 2 <= Len(issued)
        PROVE  at - Threads.fetch <= issued[k + 2]
    <3>1. k + 2 \in 1..Len(issued)
      BY <1>1, <2>2 DEF KeyTypes
    <3> QED  BY <1>1, <2>1, <2>2, <3>1, KeyConstants DEF AsOf, KeyTypes
  <2>3. ASSUME NEW k \in Keys!Published \ cache.keys
        PROVE  at - Threads.fetch <= issued[k]
    BY <1>1, <2>1, <2>3, KeyConstants DEF AsOf, KeyTypes, Keys!Published
  <2> QED  BY <2>2, <2>3 DEF AsOf
<1>6. req[r].phase \in Fetching
  BY <1>1 DEF Fetching
<1>7. QED  BY <1>1, <1>3, <1>4, <1>5, <1>6, KeysLeave


\* People change; what a request saw of them is no business of the keys.
LEMMA WatchedAside ==
    ASSUME KeyTypes, NEW act, NEW rl
    PROVE  /\ DOMAIN Keys!Watched(act, rl) = Threads.requests
           /\ \A r \in Threads.requests :
                 LET q == Keys!Watched(act, rl)[r] IN
                 /\ DOMAIN q = DOMAIN req[r] /\ q.phase = req[r].phase
                 /\ q.asked = req[r].asked /\ q.keys = req[r].keys
<1>1. ASSUME NEW r \in Threads.requests
      PROVE  /\ DOMAIN Keys!Watched(act, rl)[r] = DOMAIN req[r]
             /\ Keys!Watched(act, rl)[r].phase = req[r].phase
             /\ Keys!Watched(act, rl)[r].asked = req[r].asked
             /\ Keys!Watched(act, rl)[r].keys = req[r].keys
  <2>1. DOMAIN req[r] = DOMAIN Keys!Idle
    BY DEF KeyTypes
  <2>2. CASE req[r] = Keys!Idle
    BY <2>2 DEF Keys!Watched
  <2>3. CASE req[r] # Keys!Idle
    BY <2>1, <2>3, RequestFields DEF Keys!Watched
  <2> QED  BY <2>2, <2>3
<1>2. QED  BY <1>1 DEF Keys!Watched

LEMMA KeysPeople ==
    ASSUME KeyInv, NEW u \in Threads.users,
           \/ Keys!Login(u) \/ \E on \in BOOLEAN : Keys!SetStatus(u, on)
           \/ \E o \in Threads.orgs : Keys!Join(u, o) \/ Keys!Leave(u, o)
    PROVE  KeyInv'
<1>1. KeyTypes /\ UNCHANGED <<now, issued, cache, lock>>
  BY DEF KeyInv, Keys!Login, Keys!Join, Keys!Leave, Keys!SetStatus, Keys!keyVars
<1>2. CASE req' = req
  BY <1>1, <1>2, KeysAside DEF KeyTypes
<1>3. ASSUME NEW act, NEW rl, req' = Keys!Watched(act, rl) PROVE KeyInv'
  BY <1>1, <1>3, WatchedAside, KeysAside
<1>4. PICK act, rl, after, new : act = active /\ rl = rights /\ after = active' /\ new = rights'
  OBVIOUS
<1>5. \/ req' = req \/ req' = Keys!Watched(act, new) \/ req' = Keys!Watched(after, rl)
  BY <1>4 DEF Keys!Login, Keys!Join, Keys!Leave, Keys!SetStatus
<1>6. QED  BY <1>2, <1>3, <1>5

\* Before and after the keys a request only moves on.
LEMMA KeysMoves ==
    ASSUME KeyInv, NEW r \in Threads.requests,
           \/ \E u \in Threads.users, kind \in Threads.kinds, o \in Threads.orgs \cup {None} :
                 Keys!Start(r, u, kind, o)
           \/ Keys!Peek(r) \/ Keys!Load(r) \/ Keys!Enters(r) \/ Keys!Renew(r)
           \/ Keys!SignOut(r) \/ Keys!Finish(r)
    PROVE  KeyInv'
<1>1. /\ KeyTypes /\ UNCHANGED <<now, issued, cache, lock>>
      /\ DOMAIN req[r] = DOMAIN Keys!Idle /\ req[r].keys \subseteq 1..Len(issued)
  BY DEF KeyInv, KeyTypes, Keys!Start, Keys!Peek, Keys!Load, Keys!Enters, Keys!Renew,
         Keys!SignOut, Keys!Finish, Keys!keyVars
<1> DEFINE Moves(q) == /\ req' = [req EXCEPT ![r] = q]
                       /\ DOMAIN q = DOMAIN Keys!Idle
                       /\ q.phase \notin Fetching
                       /\ q.keys \subseteq 1..Len(issued)
<1>2. ASSUME req[r].phase \notin Fetching, \E q : Moves(q) PROVE KeyInv'
  <2>1. PICK q : Moves(q)
    BY <1>2
  <2> QED  BY <1>1, <1>2, <2>1, KeysOutside
<1>3. ASSUME NEW phase, phase \notin Fetching, Keys!Goes(r, phase) PROVE \E q : Moves(q)
  <2>1. PICK q : q = [req[r] EXCEPT !.phase = phase]
    OBVIOUS
  <2>2. req' = [req EXCEPT ![r] = q]
    BY <1>3, <2>1 DEF Keys!Goes
  <2>3. DOMAIN q = DOMAIN Keys!Idle /\ q.phase = phase /\ q.keys = req[r].keys
    BY <1>1, <2>1, RequestFields
  <2> QED  BY <1>1, <1>3, <2>2, <2>3
<1>4. ASSUME req' = [req EXCEPT ![r] = Keys!Idle] PROVE \E q : Moves(q)
  <2>1. Moves(Keys!Idle)
    BY <1>4, IdleFields DEF Fetching
  <2> QED  BY <2>1
<1>5. ASSUME NEW u, NEW kind, NEW o, Keys!Start(r, u, kind, o) PROVE KeyInv'
  <2>1. req[r].phase \notin Fetching
    BY <1>5, IdleFields DEF Keys!Start, Fetching
  <2>2. PICK q : q = [Keys!Idle EXCEPT !.phase = "keys", !.user = u, !.kind = kind,
                          !.asks = o, !.token = token[u], !.once = Keys!Of(u, kind),
                          !.ever = u \in active,
                          !.always = IF u \in active THEN Keys!Of(u, kind) ELSE {}]
    OBVIOUS
  <2>3. req' = [req EXCEPT ![r] = q]
    BY <1>5, <2>2 DEF Keys!Start
  <2>4. DOMAIN q = DOMAIN Keys!Idle /\ q.phase = "keys" /\ q.keys = {}
    BY <2>2, RequestFields, IdleFields
  <2> QED  BY <1>2, <2>1, <2>3, <2>4 DEF Fetching
<1>6. CASE Keys!Peek(r)
  <2>1. req[r].phase \notin Fetching
    BY <1>6 DEF Keys!Peek, Fetching
  <2>2. Keys!Checked(r, cache.keys) \/ Keys!Goes(r, "wait")
    BY <1>6 DEF Keys!Peek
  <2>3. ASSUME Keys!Checked(r, cache.keys) PROVE \E q : Moves(q)
    <3>1. PICK q : /\ req' = [req EXCEPT ![r] = q] /\ DOMAIN q = DOMAIN Keys!Idle
                   /\ q.phase \notin Fetching /\ q.keys = {}
      BY <1>1, <2>3, CheckedFields
    <3> QED  BY <3>1
  <2>4. "wait" \notin Fetching
    BY DEF Fetching
  <2> QED  BY <1>2, <1>3, <2>1, <2>2, <2>3, <2>4
<1>7. CASE Keys!Load(r)
  <2>1. req[r].phase \notin Fetching
    BY <1>7 DEF Keys!Load, Fetching
  <2>2. PICK q : q = IF ~Keys!Enterable(req[r]) THEN [req[r] EXCEPT !.phase = "out"]
                     ELSE IF req[r].kind = "list"
                     THEN [req[r] EXCEPT !.phase = "in",
                                         !.orgs = Keys!Of(req[r].user, req[r].kind)]
                     ELSE IF req[r].kind = "renew" THEN [req[r] EXCEPT !.phase = "renew"]
                     ELSE [req[r] EXCEPT !.phase = "member", !.home = home[req[r].user]]
    OBVIOUS
  <2>3. req' = [req EXCEPT ![r] = q]
    BY <1>7, <2>2 DEF Keys!Load
  <2>4. /\ DOMAIN q = DOMAIN Keys!Idle /\ q.phase \in {"out", "in", "renew", "member"}
        /\ q.keys = req[r].keys
    BY <1>1, <2>2, RequestFields
  <2> QED  BY <1>1, <1>2, <2>1, <2>3, <2>4 DEF Fetching
<1>8. CASE Keys!Enters(r)
  <2>1. req[r].phase \notin Fetching
    BY <1>8 DEF Keys!Enters, Fetching
  <2>2. PICK o : o = IF req[r].asks # None THEN req[r].asks ELSE req[r].home
    OBVIOUS
  <2>3. PICK phase : phase = IF req[r].kind = "logout" THEN "leaving" ELSE "in"
    OBVIOUS
  <2>4. PICK q : q = IF ~Keys!Admitted(req[r], o) THEN Keys!Kept(req[r], "out")
                     ELSE [Keys!Kept(req[r], phase) EXCEPT !.orgs = {o}]
    OBVIOUS
  <2>5. req' = [req EXCEPT ![r] = q]
    BY <1>8, <2>2, <2>3, <2>4 DEF Keys!Enters
  <2>6. /\ DOMAIN q = DOMAIN Keys!Idle /\ q.phase \in {"out", "in", "leaving"} /\ q.keys = {}
    <3>1. CASE ~Keys!Admitted(req[r], o)
      BY <1>1, <2>4, <3>1, KeptFields
    <3>2. CASE Keys!Admitted(req[r], o)
      <4>1. PICK k : k = Keys!Kept(req[r], phase)
        OBVIOUS
      <4>2. DOMAIN k = DOMAIN Keys!Idle /\ k.phase = phase /\ k.keys = {}
        BY <1>1, <4>1, KeptFields
      <4>3. q = [k EXCEPT !.orgs = {o}]
        BY <2>4, <3>2, <4>1
      <4> QED  BY <2>3, <4>2, <4>3, RequestFields
    <3> QED  BY <3>1, <3>2
  <2> QED  BY <1>2, <2>1, <2>5, <2>6 DEF Fetching
<1>9. CASE Keys!Renew(r)
  <2>1. req[r].phase \notin Fetching /\ "in" \notin Fetching
    BY <1>9 DEF Keys!Renew, Fetching
  <2>2. Keys!Goes(r, "in") \/ req' = [req EXCEPT ![r] = Keys!Idle]
    BY <1>9 DEF Keys!Renew
  <2> QED  BY <1>2, <1>3, <1>4, <2>1, <2>2
<1>10. CASE Keys!SignOut(r)
  <2>1. req[r].phase \notin Fetching /\ "in" \notin Fetching /\ Keys!Goes(r, "in")
    BY <1>10 DEF Keys!SignOut, Fetching
  <2> QED  BY <1>2, <1>3, <2>1
<1>11. CASE Keys!Finish(r)
  <2>1. req[r].phase \notin Fetching /\ req' = [req EXCEPT ![r] = Keys!Idle]
    BY <1>11 DEF Keys!Finish, Fetching
  <2> QED  BY <1>2, <1>4, <2>1
<1>12. QED  BY <1>5, <1>6, <1>7, <1>8, <1>9, <1>10, <1>11

LEMMA KeysSteps ==
    ASSUME KeyInv, Keys!Next
    PROVE  KeyInv'
<1>1. ASSUME NEW u \in Threads.users,
             \/ Keys!Login(u) \/ \E on \in BOOLEAN : Keys!SetStatus(u, on)
             \/ \E o \in Threads.orgs : Keys!Join(u, o) \/ Keys!Leave(u, o)
      PROVE  KeyInv'
  BY <1>1, KeysPeople
<1>2. ASSUME NEW r \in Threads.requests,
             \/ Keys!Peek(r) \/ Keys!Enter(r) \/ Keys!Answer(r) \/ Keys!Fails(r)
             \/ Keys!Store(r) \/ Keys!Stamp(r) \/ Keys!Load(r) \/ Keys!Enters(r)
             \/ Keys!Renew(r) \/ Keys!SignOut(r) \/ Keys!Finish(r)
      PROVE  KeyInv'
  BY <1>2, KeysMoves, KeysEnter, KeysAnswer, KeysFail, KeysStore, KeysStamp
<1>3. ASSUME NEW u \in Threads.users, NEW r \in Threads.requests, NEW kind \in Threads.kinds,
             NEW o \in Threads.orgs \cup {None}, Keys!Start(r, u, kind, o)
      PROVE  KeyInv'
  BY <1>3, KeysMoves
<1>4. QED  BY <1>1, <1>2, <1>3, KeysTick, KeysRotate DEF Keys!Next

LEMMA KeysStutter ==
    ASSUME KeyInv, UNCHANGED sessionVars
    PROVE  KeyInv'
BY KeysAside DEF sessionVars, KeyInv, KeyTypes

-----------------------------------------------------------------------------
(* Sessions: the doors.                                                    *)

\* What a request saw of its person is what holds now, and held since.
Seen(q) ==
    q.phase # "idle" =>
        /\ q.user \in active => q.ever
        /\ Doors!Of(q.user, q.kind) \subseteq q.once
        /\ q.always \subseteq Doors!Of(q.user, q.kind)
        /\ q.user \notin active => q.always = {}

\* How far it has come agrees with what it saw.
Passed(q) ==
    /\ q.phase \in {"renew", "member", "leaving", "in"} => q.ever
    /\ q.phase \in {"leaving", "in"} /\ q.kind # "list" => q.orgs \subseteq q.once
    /\ q.phase \notin {"leaving", "in"} => q.orgs = {}
    /\ q.phase \in {"renew", "member", "leaving"} => q.kind # "list"
    /\ q.phase = "out" => q.asks \notin q.always
    /\ q.phase = "in" /\ q.kind = "list" => q.always \subseteq q.orgs

DoorInv ==
    /\ DOMAIN req = Visitors.requests
    /\ \A r \in Visitors.requests :
          DOMAIN req[r] = DOMAIN Doors!Idle /\ Seen(req[r]) /\ Passed(req[r])

LEMMA VisitFields ==
    /\ DOMAIN Doors!Idle = {"phase", "user", "kind", "asks", "token", "once", "ever", "always",
                            "asked", "keys", "home", "orgs"}
    /\ Doors!Idle.phase = "idle" /\ Doors!Idle.orgs = {}
BY DEF Doors!Idle

LEMMA IdlePasses == Seen(Doors!Idle) /\ Passed(Doors!Idle)
BY VisitFields DEF Seen, Passed

LEMMA DoorsStart == Doors!Init => DoorInv
BY IdlePasses DEF Doors!Init, DoorInv

LEMMA DoorsGuard ==
    ASSUME DoorInv
    PROVE  Doors!EntersWhereMember /\ Doors!MembersAreAdmitted
BY DEF DoorInv, Passed, Doors!EntersWhereMember, Doors!MembersAreAdmitted

\* A request that moves is the same person's.
Same(q, p) ==
    /\ q.user = p.user /\ q.kind = p.kind /\ q.asks = p.asks
    /\ q.once = p.once /\ q.ever = p.ever /\ q.always = p.always

LEMMA DoorsMove ==
    ASSUME DoorInv, NEW r \in Visitors.requests, NEW q,
           req' = [req EXCEPT ![r] = q], UNCHANGED <<active, rights>>,
           DOMAIN q = DOMAIN Doors!Idle, Passed(q),
           q = Doors!Idle \/ (Same(q, req[r]) /\ req[r].phase # "idle")
    PROVE  DoorInv'
<1>1. Seen(q)
  <2>1. CASE q = Doors!Idle
    BY <2>1, IdlePasses
  <2>2. CASE Same(q, req[r]) /\ req[r].phase # "idle"
    <3>1. Seen(req[r])
      BY DEF DoorInv
    <3> QED  BY <2>2, <3>1 DEF Seen, Same
  <2> QED  BY <2>1, <2>2
<1>2. \A p : Seen(p)' <=> Seen(p)
  BY DEF Seen, Doors!Of, Doors!In
<1>3. ASSUME NEW s \in Visitors.requests
      PROVE  DOMAIN req'[s] = DOMAIN Doors!Idle /\ Seen(req[s])' /\ Passed(req[s])'
  <2>1. req'[s] = IF s = r THEN q ELSE req[s]
    BY DEF DoorInv
  <2>2. DOMAIN req'[s] = DOMAIN Doors!Idle /\ Seen(req'[s]) /\ Passed(req'[s])
    BY <1>1, <2>1 DEF DoorInv
  <2> QED  BY <1>2, <2>2 DEF Passed, Seen, Doors!Of, Doors!In
<1>4. QED  BY <1>3 DEF DoorInv


LEMMA DoorsAside ==
    ASSUME DoorInv, UNCHANGED <<req, active, rights>>
    PROVE  DoorInv'
BY DEF DoorInv, Seen, Passed, Doors!Of, Doors!In

\* A phase further, or back to none.
LEMMA DoorsGoes ==
    ASSUME DoorInv, NEW r \in Visitors.requests, NEW phase, Doors!Goes(r, phase),
           UNCHANGED <<active, rights>>, req[r].phase # "idle",
           \/ phase \in {"keys", "wait", "fetch", "store", "stamp", "known"} /\ req[r].orgs = {}
           \/ phase = "in" /\ req[r].phase \in {"renew", "leaving"}
    PROVE  DoorInv'
<1>1. PICK q : q = [req[r] EXCEPT !.phase = phase]
  OBVIOUS
<1>2. req' = [req EXCEPT ![r] = q]
  BY <1>1 DEF Doors!Goes
<1>3. DOMAIN req[r] = DOMAIN Doors!Idle /\ Passed(req[r])
  BY DEF DoorInv
<1>4. /\ DOMAIN q = DOMAIN Doors!Idle /\ Same(q, req[r]) /\ q.phase = phase
      /\ q.orgs = req[r].orgs
  BY <1>1, <1>3, VisitFields DEF Same
<1>5. Passed(q)
  BY <1>3, <1>4 DEF Passed, Same
<1>6. QED  BY <1>2, <1>4, <1>5, DoorsMove

LEMMA DoorsIdle ==
    ASSUME DoorInv, NEW r \in Visitors.requests, req' = [req EXCEPT ![r] = Doors!Idle],
           UNCHANGED <<active, rights>>
    PROVE  DoorInv'
BY IdlePasses, DoorsMove

LEMMA VisitKept ==
    ASSUME NEW q, DOMAIN q = DOMAIN Doors!Idle, NEW phase
    PROVE  /\ DOMAIN Doors!Kept(q, phase) = DOMAIN Doors!Idle
           /\ Doors!Kept(q, phase).phase = phase /\ Doors!Kept(q, phase).orgs = q.orgs
           /\ Same(Doors!Kept(q, phase), q)
BY VisitFields DEF Doors!Kept, Same

\* The token is known, or nothing comes of the request.
LEMMA DoorsChecked ==
    ASSUME DoorInv, NEW r \in Visitors.requests, NEW K, Doors!Checked(r, K),
           UNCHANGED <<active, rights>>, req[r].phase \in {"keys", "wait", "fetch", "stamp"}
    PROVE  DoorInv'
<1>1. CASE ~Doors!Known(req[r], K)
  BY <1>1, DoorsIdle DEF Doors!Checked
<1>2. CASE Doors!Known(req[r], K)
  <2>1. PICK q : q = Doors!Kept(req[r], "known")
    OBVIOUS
  <2>2. req' = [req EXCEPT ![r] = q]
    BY <1>2, <2>1 DEF Doors!Checked
  <2>3. DOMAIN req[r] = DOMAIN Doors!Idle /\ Passed(req[r])
    BY DEF DoorInv
  <2>4. /\ DOMAIN q = DOMAIN Doors!Idle /\ q.phase = "known" /\ q.orgs = req[r].orgs
        /\ Same(q, req[r])
    BY <2>1, <2>3, VisitKept
  <2>5. Passed(q)
    BY <2>3, <2>4 DEF Passed
  <2> QED  BY <2>2, <2>4, <2>5, DoorsMove
<1>3. QED  BY <1>1, <1>2

LEMMA DoorsKeys ==
    ASSUME DoorInv, NEW r \in Visitors.requests,
           \/ Doors!Peek(r) \/ Doors!Enter(r) \/ Doors!Answer(r)
           \/ Doors!Fails(r) \/ Doors!Store(r) \/ Doors!Stamp(r)
    PROVE  DoorInv'
<1>1. UNCHANGED <<active, rights>> /\ Passed(req[r]) /\ DOMAIN req[r] = DOMAIN Doors!Idle
  BY DEF Doors!Peek, Doors!Enter, Doors!Answer, Doors!Fails, Doors!Store, Doors!Stamp,
         Doors!peopleVars, DoorInv
<1>2. ASSUME NEW phase, Doors!Goes(r, phase),
             req[r].phase \in {"keys", "store"}, phase \in {"wait", "stamp"}
      PROVE  DoorInv'
  BY <1>1, <1>2, DoorsGoes DEF Passed
<1>3. CASE Doors!Peek(r)
  BY <1>1, <1>2, <1>3, DoorsChecked DEF Doors!Peek
<1>4. CASE Doors!Enter(r)
  <2>1. CASE Doors!LooksAgain
    BY <1>1, <1>4, <2>1, DoorsChecked DEF Doors!Enter
  <2>2. CASE ~Doors!LooksAgain
    <3>1. PICK q : q = [req[r] EXCEPT !.phase = "fetch", !.asked = now]
      OBVIOUS
    <3>2. req' = [req EXCEPT ![r] = q] /\ req[r].phase = "wait"
      BY <1>4, <2>2, <3>1 DEF Doors!Enter
    <3>3. /\ DOMAIN q = DOMAIN Doors!Idle /\ Same(q, req[r]) /\ q.phase = "fetch"
          /\ q.orgs = req[r].orgs
      BY <1>1, <3>1, VisitFields DEF Same
    <3>4. Passed(q)
      BY <1>1, <3>2, <3>3 DEF Passed
    <3> QED  BY <1>1, <3>2, <3>3, <3>4, DoorsMove
  <2> QED  BY <2>1, <2>2
<1>5. CASE Doors!Answer(r)
  <2>1. PICK q : q = [req[r] EXCEPT !.phase = "store", !.keys = Doors!Published]
    OBVIOUS
  <2>2. req' = [req EXCEPT ![r] = q] /\ req[r].phase = "fetch"
    BY <1>5, <2>1 DEF Doors!Answer
  <2>3. /\ DOMAIN q = DOMAIN Doors!Idle /\ Same(q, req[r]) /\ q.phase = "store"
        /\ q.orgs = req[r].orgs
    BY <1>1, <2>1, VisitFields DEF Same
  <2>4. Passed(q)
    BY <1>1, <2>2, <2>3 DEF Passed
  <2> QED  BY <1>1, <2>2, <2>3, <2>4, DoorsMove
<1>6. CASE Doors!Fails(r)
  <2>1. req[r].phase = "fetch"
    BY <1>6 DEF Doors!Fails
  <2>2. Doors!Checked(r, cache.keys) \/ req' = [req EXCEPT ![r] = Doors!Idle]
    BY <1>6 DEF Doors!Fails
  <2> QED  BY <1>1, <2>1, <2>2, DoorsChecked, DoorsIdle
<1>7. CASE Doors!Store(r)
  BY <1>1, <1>2, <1>7 DEF Doors!Store
<1>8. CASE Doors!Stamp(r)
  BY <1>1, <1>8, DoorsChecked DEF Doors!Stamp
<1>9. QED  BY <1>3, <1>4, <1>5, <1>6, <1>7, <1>8

\* A request begins with what it sees.
LEMMA DoorsBegin ==
    ASSUME DoorInv, NEW r \in Visitors.requests, NEW u, NEW kind, NEW o,
           Doors!Start(r, u, kind, o)
    PROVE  DoorInv'
<1>1. PICK q : q = [Doors!Idle EXCEPT !.phase = "keys", !.user = u, !.kind = kind,
                        !.asks = o, !.token = token[u], !.once = Doors!Of(u, kind),
                        !.ever = u \in active,
                        !.always = IF u \in active THEN Doors!Of(u, kind) ELSE {}]
  OBVIOUS
<1>2. req' = [req EXCEPT ![r] = q] /\ UNCHANGED <<active, rights>>
  BY <1>1 DEF Doors!Start, Doors!peopleVars
<1>3. /\ DOMAIN q = DOMAIN Doors!Idle /\ q.phase = "keys" /\ q.orgs = {}
      /\ q.user = u /\ q.kind = kind /\ q.once = Doors!Of(u, kind)
      /\ q.always = IF u \in active THEN Doors!Of(u, kind) ELSE {}
  BY <1>1, VisitFields
<1>4. q.user \in active => q.ever
  BY <1>1, <1>3, VisitFields
<1>5. Seen(q) /\ Passed(q)
  BY <1>3, <1>4 DEF Seen, Passed
<1>6. (Seen(q) => Seen(q)') /\ \A s \in Visitors.requests : Seen(req[s])
  BY <1>2 DEF Seen, Doors!Of, Doors!In, DoorInv
<1>7. ASSUME NEW s \in Visitors.requests
      PROVE  DOMAIN req'[s] = DOMAIN Doors!Idle /\ Seen(req[s])' /\ Passed(req[s])'
  <2>1. req'[s] = IF s = r THEN q ELSE req[s]
    BY <1>2 DEF DoorInv
  <2>2. DOMAIN req'[s] = DOMAIN Doors!Idle /\ Seen(req'[s]) /\ Passed(req'[s])
    BY <1>3, <1>5, <2>1 DEF DoorInv
  <2> QED  BY <1>2, <2>2 DEF Passed, Seen, Doors!Of, Doors!In
<1>8. QED  BY <1>2, <1>7 DEF DoorInv

\* Whoever is let in was seen active, and where they belong.
LEMMA DoorsLoad ==
    ASSUME DoorInv, NEW r \in Visitors.requests, Doors!Load(r)
    PROVE  DoorInv'
<1>1. /\ req[r].phase = "known" /\ UNCHANGED <<active, rights>>
      /\ DOMAIN req[r] = DOMAIN Doors!Idle /\ Seen(req[r]) /\ Passed(req[r])
  BY DEF Doors!Load, Doors!peopleVars, DoorInv
<1>2. PICK q : q = IF ~Doors!Enterable(req[r]) THEN [req[r] EXCEPT !.phase = "out"]
                   ELSE IF req[r].kind = "list"
                   THEN [req[r] EXCEPT !.phase = "in",
                                       !.orgs = Doors!Of(req[r].user, req[r].kind)]
                   ELSE IF req[r].kind = "renew" THEN [req[r] EXCEPT !.phase = "renew"]
                   ELSE [req[r] EXCEPT !.phase = "member", !.home = home[req[r].user]]
  OBVIOUS
<1>3. req' = [req EXCEPT ![r] = q]
  BY <1>2 DEF Doors!Load
<1>4. DOMAIN q = DOMAIN Doors!Idle /\ Same(q, req[r])
  BY <1>1, <1>2, VisitFields DEF Same
<1>5. Passed(q)
  <2>1. CASE ~Doors!Enterable(req[r])
    <3>1. q.phase = "out" /\ q.orgs = req[r].orgs
      BY <1>1, <1>2, <2>1, VisitFields
    <3>2. q.always = {}
      BY <1>1, <1>4, <2>1 DEF Seen, Same, Doors!Enterable
    <3> QED  BY <1>1, <3>1, <3>2 DEF Passed
  <2>2. CASE Doors!Enterable(req[r])
    <3>1. q.ever
      BY <1>1, <1>4, <2>2 DEF Seen, Same, Doors!Enterable
    <3>2. CASE req[r].kind = "list"
      <4>1. q.phase = "in" /\ q.orgs = Doors!Of(req[r].user, req[r].kind) /\ q.kind = "list"
        BY <1>1, <1>2, <2>2, <3>2, VisitFields
      <4>2. q.always \subseteq q.orgs
        BY <1>1, <1>4, <4>1 DEF Seen, Same
      <4> QED  BY <3>1, <4>1, <4>2 DEF Passed
    <3>3. CASE req[r].kind # "list"
      <4>1. /\ q.phase \in {"renew", "member"} /\ q.orgs = req[r].orgs
            /\ q.kind # "list"
        BY <1>1, <1>2, <2>2, <3>3, VisitFields
      <4> QED  BY <1>1, <3>1, <4>1 DEF Passed
    <3> QED  BY <3>2, <3>3
  <2> QED  BY <2>1, <2>2
<1>6. QED  BY <1>1, <1>3, <1>4, <1>5, DoorsMove

LEMMA DoorsEnters ==
    ASSUME DoorInv, NEW r \in Visitors.requests, Doors!Enters(r)
    PROVE  DoorInv'
<1>1. /\ req[r].phase = "member" /\ UNCHANGED <<active, rights>>
      /\ DOMAIN req[r] = DOMAIN Doors!Idle /\ Seen(req[r]) /\ Passed(req[r])
  BY DEF Doors!Enters, Doors!peopleVars, DoorInv
<1>2. PICK o, phase : /\ o = IF req[r].asks # None THEN req[r].asks ELSE req[r].home
                      /\ phase = IF req[r].kind = "logout" THEN "leaving" ELSE "in"
  OBVIOUS
<1>3. CASE ~Doors!Admitted(req[r], o)
  <2>1. PICK q : q = Doors!Kept(req[r], "out")
    OBVIOUS
  <2>2. req' = [req EXCEPT ![r] = q]
    BY <1>2, <1>3, <2>1 DEF Doors!Enters
  <2>3. /\ DOMAIN q = DOMAIN Doors!Idle /\ q.phase = "out" /\ q.orgs = req[r].orgs
        /\ Same(q, req[r])
    BY <1>1, <2>1, VisitKept
  <2>4. q.asks \notin q.always
    <3>1. req[r].always \subseteq Doors!Of(req[r].user, req[r].kind)
      BY <1>1 DEF Seen
    <3>2. None \notin Visitors.orgs
      BY OperationsAssumption DEF Doors!SessionsAssumption
    <3>3. CASE req[r].asks # None
      BY <1>2, <1>3, <2>3, <3>1, <3>3 DEF Doors!Admitted, Same
    <3>4. CASE req[r].asks = None
      BY <2>3, <3>1, <3>2, <3>4 DEF Doors!Of, Doors!In, Same
    <3> QED  BY <3>3, <3>4
  <2>5. Passed(q)
    BY <1>1, <2>3, <2>4 DEF Passed
  <2> QED  BY <1>1, <2>2, <2>3, <2>5, DoorsMove
<1>4. CASE Doors!Admitted(req[r], o)
  <2>1. PICK k : k = Doors!Kept(req[r], phase)
    OBVIOUS
  <2>2. DOMAIN k = DOMAIN Doors!Idle /\ k.phase = phase /\ Same(k, req[r])
    BY <1>1, <2>1, VisitKept
  <2>3. PICK q : q = [k EXCEPT !.orgs = {o}]
    OBVIOUS
  <2>4. req' = [req EXCEPT ![r] = q]
    BY <1>2, <1>4, <2>1, <2>3 DEF Doors!Enters
  <2>5. /\ DOMAIN q = DOMAIN Doors!Idle /\ q.phase = phase /\ q.orgs = {o} /\ Same(q, req[r])
    BY <2>2, <2>3, VisitFields DEF Same
  <2>6. o \in q.once
    BY <1>1, <1>4, <2>5 DEF Seen, Same, Doors!Admitted
  <2>7. phase \in {"in", "leaving"}
    BY <1>2
  <2>8. Passed(q)
    BY <1>1, <2>5, <2>6, <2>7 DEF Passed, Same
  <2> QED  BY <1>1, <2>4, <2>5, <2>8, DoorsMove
<1>5. QED  BY <1>3, <1>4

LEMMA DoorsLeave ==
    ASSUME DoorInv, NEW r \in Visitors.requests,
           Doors!Renew(r) \/ Doors!SignOut(r) \/ Doors!Finish(r)
    PROVE  DoorInv'
<1>1. UNCHANGED <<active, rights>>
  BY DEF Doors!Renew, Doors!SignOut, Doors!Finish, Doors!peopleVars
<1>2. \/ req' = [req EXCEPT ![r] = Doors!Idle]
      \/ Doors!Goes(r, "in") /\ req[r].phase \in {"renew", "leaving"}
  BY DEF Doors!Renew, Doors!SignOut, Doors!Finish
<1>3. QED  BY <1>1, <1>2, DoorsIdle, DoorsGoes

\* Each request sees what changes in its person.
LEMMA DoorsWatch ==
    ASSUME DoorInv, req' = Doors!Watched(active', rights')
    PROVE  DoorInv'
<1>1. PICK act, rl : act = active' /\ rl = rights'
  OBVIOUS
<1>2. ASSUME NEW r \in Visitors.requests
      PROVE  DOMAIN req'[r] = DOMAIN Doors!Idle /\ Seen(req[r])' /\ Passed(req[r])'
  <2>1. DOMAIN req[r] = DOMAIN Doors!Idle /\ Seen(req[r]) /\ Passed(req[r])
    BY DEF DoorInv
  <2>2. CASE req[r] = Doors!Idle
    <3>1. req'[r] = Doors!Idle
      BY <2>2 DEF Doors!Watched
    <3> QED  BY <3>1, VisitFields DEF Seen, Passed
  <2>3. CASE req[r] # Doors!Idle
    <3>1. PICK orgs : orgs = Doors!In(req[r].user, req[r].kind, rl)
      OBVIOUS
    <3>2. PICK q : q = [req[r] EXCEPT
              !.once = req[r].once \cup orgs, !.ever = req[r].ever \/ req[r].user \in act,
              !.always = IF req[r].user \in act THEN req[r].always \cap orgs ELSE {}]
      OBVIOUS
    <3>3. req'[r] = q
      BY <1>1, <2>1, <2>3, <3>1, <3>2, VisitFields DEF Doors!Watched
    <3>4. /\ DOMAIN q = DOMAIN Doors!Idle /\ q.phase = req[r].phase /\ q.user = req[r].user
          /\ q.kind = req[r].kind /\ q.asks = req[r].asks /\ q.orgs = req[r].orgs
          /\ q.once = req[r].once \cup orgs
          /\ q.always = IF req[r].user \in act THEN req[r].always \cap orgs ELSE {}
      BY <2>1, <3>2, VisitFields
    <3>5. q.ever <=> (req[r].ever \/ req[r].user \in act)
      BY <2>1, <3>2, VisitFields
    <3>6. Seen(req[r])'
      <4>1. Doors!Of(q.user, q.kind)' = orgs
        BY <1>1, <3>1, <3>4 DEF Doors!Of, Doors!In
      <4>2. /\ req'[r].phase = q.phase /\ req'[r].user = q.user /\ req'[r].always = q.always
            /\ req'[r].once = q.once /\ (req'[r].ever <=> q.ever)
            /\ Doors!Of(req[r].user, req[r].kind)' = orgs
        BY <3>3, <4>1
      <4> QED  BY <1>1, <3>4, <3>5, <4>2 DEF Seen
    <3>7. Passed(q)
      BY <2>1, <3>4, <3>5 DEF Passed
    <3> QED  BY <3>3, <3>4, <3>6, <3>7 DEF Passed
  <2> QED  BY <2>2, <2>3
<1>3. QED  BY <1>2 DEF DoorInv, Doors!Watched

LEMMA DoorsPeople ==
    ASSUME DoorInv, NEW u \in Visitors.users,
           \/ Doors!Login(u) \/ \E on \in BOOLEAN : Doors!SetStatus(u, on)
           \/ \E o \in Visitors.orgs : Doors!Join(u, o) \/ Doors!Leave(u, o)
    PROVE  DoorInv'
<1>1. CASE Doors!Login(u)
  BY <1>1, DoorsAside DEF Doors!Login, Doors!peopleVars
<1>2. ASSUME NEW on, Doors!SetStatus(u, on) PROVE DoorInv'
  <2>1. req' = Doors!Watched(active', rights) /\ rights' = rights
    BY <1>2 DEF Doors!SetStatus
  <2>2. req' = Doors!Watched(active', rights')
    BY <2>1
  <2> QED  BY <2>2, DoorsWatch
<1>3. ASSUME NEW o, Doors!Join(u, o) \/ Doors!Leave(u, o) PROVE DoorInv'
  <2>1. req' = Doors!Watched(active, rights') /\ active' = active
    BY <1>3 DEF Doors!Join, Doors!Leave
  <2>2. req' = Doors!Watched(active', rights')
    BY <2>1
  <2> QED  BY <2>2, DoorsWatch
<1>4. QED  BY <1>1, <1>2, <1>3

LEMMA DoorsSteps ==
    ASSUME DoorInv, Doors!Next
    PROVE  DoorInv'
<1>1. CASE Doors!Tick \/ Doors!Rotate
  BY <1>1, DoorsAside DEF Doors!Tick, Doors!Rotate, Doors!peopleVars
<1>2. ASSUME NEW u \in Visitors.users,
             \/ Doors!Login(u) \/ \E on \in BOOLEAN : Doors!SetStatus(u, on)
             \/ \E o \in Visitors.orgs : Doors!Join(u, o) \/ Doors!Leave(u, o)
      PROVE  DoorInv'
  BY <1>2, DoorsPeople
<1>3. ASSUME NEW r \in Visitors.requests,
             \/ Doors!Peek(r) \/ Doors!Enter(r) \/ Doors!Answer(r) \/ Doors!Fails(r)
             \/ Doors!Store(r) \/ Doors!Stamp(r) \/ Doors!Load(r) \/ Doors!Enters(r)
             \/ Doors!Renew(r) \/ Doors!SignOut(r) \/ Doors!Finish(r)
      PROVE  DoorInv'
  BY <1>3, DoorsKeys, DoorsLoad, DoorsEnters, DoorsLeave
<1>4. ASSUME NEW u, NEW r \in Visitors.requests, NEW kind, NEW o, Doors!Start(r, u, kind, o)
      PROVE  DoorInv'
  BY <1>4, DoorsBegin
<1>5. QED  BY <1>1, <1>2, <1>3, <1>4 DEF Doors!Next

LEMMA SessionsAlways ==
    OperationsSpec => []((part = "keys" => KeyInv) /\ (part = "doors" => DoorInv))
<1> DEFINE Inv == (part = "keys" => KeyInv) /\ (part = "doors" => DoorInv)
<1>1. OperationsInit => Inv
  BY KeysStart, DoorsStart DEF OperationsInit
<1>2. Inv /\ [OperationsNext]_operationsVars => Inv'
  <2>1. ASSUME KeyInv, Keys!Next \/ UNCHANGED sessionVars PROVE KeyInv'
    BY <2>1, KeysSteps, KeysStutter
  <2>2. ASSUME DoorInv, Doors!Next \/ UNCHANGED sessionVars PROVE DoorInv'
    BY <2>2, DoorsSteps, DoorsAside DEF sessionVars
  <2> QED  BY <2>1, <2>2 DEF OperationsNext, operationsVars
<1>3. QED  BY <1>1, <1>2, PTL DEF OperationsSpec

\* However many threads share the keys of Cognito, those they take for fresh are
\* its own and one thread asks for them; whoever is let in was a member, and
\* no member was kept out (_get_jwks, _load_current_user).
THEOREM KeysAndDoorsHold == OperationsSpec => []MembersGetIn
<1>1. (part = "keys" => KeyInv) /\ (part = "doors" => DoorInv) => MembersGetIn
  BY KeysFollow, DoorsGuard DEF MembersGetIn
<1>2. QED  BY <1>1, SessionsAlways, PTL

-----------------------------------------------------------------------------
(* Teams: members and invitations.                                         *)

\* What a commit makes of the members and of an invitation.
MembersAfter(w) ==
    People!Over([u \in w.delete |-> "none"], People!Over(w.insert, People!Over(w.role, role)))
InviteAfter(w, i) ==
    IF i \in DOMAIN w.invite THEN People!Over(w.invite[i], invite[i]) ELSE invite[i]

InviteFields == {"role", "max", "used", "active", "past"}

PeopleTypes ==
    /\ DOMAIN team = {"status", "expires"} /\ DOMAIN role = Team.users
    /\ DOMAIN invite = Team.invites /\ DOMAIN joined = Team.invites
    /\ DOMAIN tx = Team.requests
    /\ \A i \in Team.invites :
          /\ DOMAIN invite[i] = InviteFields
          /\ joined[i] \in Nat /\ invite[i].max \in Nat
          /\ invite[i].used = joined[i]

\* A request leaves an OWNER to the team it leaves,
OwnerStays(w) ==
    People!Exists \/ DOMAIN w.team # {} => \E u \in Team.users : MembersAfter(w)[u] = "OWNER"

\* and counts whom it lets in.
UseIsCounted(w) ==
    \A i \in Team.invites :
        /\ InviteAfter(w, i).max \in Nat
        /\ InviteAfter(w, i).used = IF i \in w.via THEN joined[i] + 1 ELSE joined[i]
        /\ InviteAfter(w, i).used <= InviteAfter(w, i).max

PeopleInv ==
    /\ PeopleTypes
    /\ People!OwnerRemains /\ People!JoinsWithinMax
    /\ \A r \in Team.requests : tx[r].open => OwnerStays(tx[r]) /\ UseIsCounted(tx[r])

LEMMA PeopleStart == People!Init => PeopleInv
<1> SUFFICES ASSUME People!Init PROVE PeopleInv
  OBVIOUS
<1>1. /\ team = [status |-> "absent", expires |-> "never"]
      /\ role = [u \in Team.users |-> "none"]
      /\ invite = [i \in Team.invites |-> People!NoInvite]
      /\ joined = [i \in Team.invites |-> 0]
      /\ tx = [r \in Team.requests |-> People!Idle]
  BY DEF People!Init
<1>2. /\ DOMAIN People!NoInvite = InviteFields /\ People!NoInvite.max = 0
      /\ People!NoInvite.used = 0 /\ ~People!Idle.open
  BY DEF People!NoInvite, InviteFields, People!Idle
<1>3. PeopleTypes
  BY <1>1, <1>2 DEF PeopleTypes
<1>4. People!OwnerRemains /\ People!JoinsWithinMax
  BY <1>1, <1>2 DEF People!OwnerRemains, People!Exists, People!JoinsWithinMax
<1>5. QED  BY <1>1, <1>2, <1>3, <1>4 DEF PeopleInv

\* Who writes no rows of members, or none of invitations, changes none.
LEMMA QuietMembers ==
    ASSUME PeopleInv, NEW w, DOMAIN w.insert = {}, DOMAIN w.role = {}, w.delete = {},
           DOMAIN w.team # {} => People!Exists
    PROVE  OwnerStays(w)
<1>1. \A u \in Team.users : MembersAfter(w)[u] = role[u]
  BY DEF MembersAfter, People!Over, PeopleInv, PeopleTypes
<1>2. QED  BY <1>1 DEF OwnerStays, PeopleInv, People!OwnerRemains

LEMMA QuietInvites ==
    ASSUME PeopleInv, NEW w, DOMAIN w.invite = {}, w.via = {}
    PROVE  UseIsCounted(w)
BY DEF UseIsCounted, InviteAfter, PeopleInv, PeopleTypes, People!JoinsWithinMax

LEMMA PeoplePrepare ==
    ASSUME PeopleInv, NEW r \in Team.requests, NEW w, People!Prepares(r, w),
           OwnerStays(w), UseIsCounted(w)
    PROVE  PeopleInv'
<1>1. tx' = [tx EXCEPT ![r] = w] /\ UNCHANGED <<team, role, invite, joined>>
  BY DEF People!Prepares
<1>2. \A q \in Team.requests : tx'[q] = IF q = r THEN w ELSE tx[q]
  BY <1>1 DEF PeopleInv, PeopleTypes
<1>3. \A v : (OwnerStays(v)' <=> OwnerStays(v)) /\ (UseIsCounted(v)' <=> UseIsCounted(v))
  BY <1>1 DEF OwnerStays, UseIsCounted, MembersAfter, InviteAfter, People!Exists
<1>4. \A q \in Team.requests : tx'[q].open => OwnerStays(tx'[q]) /\ UseIsCounted(tx'[q])
  BY <1>2 DEF PeopleInv
<1>5. (\A q \in Team.requests : tx[q].open => OwnerStays(tx[q]) /\ UseIsCounted(tx[q]))'
  BY <1>1, <1>4 DEF OwnerStays, UseIsCounted, MembersAfter, InviteAfter, People!Exists
<1>6. PeopleTypes' /\ People!OwnerRemains' /\ People!JoinsWithinMax'
  BY <1>1 DEF PeopleInv, PeopleTypes, People!OwnerRemains, People!Exists, People!JoinsWithinMax
<1>7. QED  BY <1>5, <1>6 DEF PeopleInv

LEMMA PeopleCrash ==
    ASSUME PeopleInv, UNCHANGED <<team, role, invite, joined, tx>>
    PROVE  PeopleInv'
BY DEF PeopleInv, PeopleTypes, People!OwnerRemains, People!Exists, People!JoinsWithinMax,
       OwnerStays, UseIsCounted, MembersAfter, InviteAfter


\* What a request writes besides what it is about: nothing.
LEMMA QuietFields ==
    /\ DOMAIN People!Quiet = {"open", "team", "insert", "role", "delete", "invite", "via",
                              "rule", "drop", "alarm"}
    /\ People!Quiet.team = People!Nothing /\ People!Quiet.insert = People!Nothing
    /\ People!Quiet.role = People!Nothing /\ People!Quiet.delete = {}
    /\ People!Quiet.invite = People!Nothing /\ People!Quiet.via = {}
    /\ DOMAIN People!Nothing = {}
BY DEF People!Quiet, People!Nothing

\* Rules and emergencies are written without members and invitations.
LEMMA PeopleElsewhere ==
    ASSUME PeopleInv, NEW r \in Team.requests, NEW w, People!Prepares(r, w),
           w.insert = People!Nothing, w.role = People!Nothing, w.delete = {},
           w.invite = People!Nothing, w.via = {},
           w.team = People!Nothing \/ People!Exists
    PROVE  PeopleInv'
BY QuietFields, QuietMembers, QuietInvites, PeoplePrepare

LEMMA PeopleRules ==
    ASSUME PeopleInv, NEW r \in Team.requests, NEW a,
           People!OfRule(r, a) \/ People!OfAlarms(r, a)
    PROVE  PeopleInv'
<1> DEFINE Aside(w) == /\ w.team = People!Nothing /\ w.insert = People!Nothing
                       /\ w.role = People!Nothing /\ w.delete = {}
                       /\ w.invite = People!Nothing /\ w.via = {}
<1>1. ASSUME NEW w, People!Prepares(r, w), Aside(w) PROVE PeopleInv'
  BY <1>1, PeopleElsewhere
<1>2. ASSUME NEW columns PROVE Aside(People!RuleWrites(columns))
  BY QuietFields DEF People!RuleWrites
<1>3. Aside([People!Quiet EXCEPT !.drop = TRUE])
  BY QuietFields
<1>4. ASSUME NEW k, NEW columns
      PROVE  Aside([People!Quiet EXCEPT !.alarm = People!Only(k, columns)])
  BY QuietFields
<1> HIDE DEF Aside
<1>5. CASE People!OfRule(r, a)
  BY <1>1, <1>2, <1>3, <1>5
     DEF People!OfRule, People!CreateRule, People!UpdateRule, People!SetRuleActive,
         People!DeleteRule
<1>6. CASE People!OfAlarms(r, a)
  BY <1>1, <1>4, <1>6
     DEF People!OfAlarms, People!StartAlarm, People!ResolveAlarm, People!CancelAlarm
<1>7. QED  BY <1>5, <1>6

LEMMA PeopleTeam ==
    ASSUME PeopleInv, NEW r \in Team.requests, NEW a \in Team.users, People!OfTeam(r, a)
    PROVE  PeopleInv'
<1>1. ASSUME NEW columns, People!Prepares(r, People!TeamWrites(columns)), People!Exists
      PROVE  PeopleInv'
  <2>1. PICK w : w = People!TeamWrites(columns)
    OBVIOUS
  <2>2. /\ w.insert = People!Nothing /\ w.role = People!Nothing /\ w.delete = {}
        /\ w.invite = People!Nothing /\ w.via = {}
    BY <2>1, QuietFields DEF People!TeamWrites
  <2> QED  BY <1>1, <2>1, <2>2, PeopleElsewhere
<1>2. ASSUME NEW operation, People!Crashes(r, operation) PROVE PeopleInv'
  BY <1>2, PeopleCrash DEF People!Crashes
<1>3. ASSUME NEW e, NEW mode, People!CreateTeam(r, a, e, mode) PROVE PeopleInv'
  <2>1. PICK v : v = People!TeamWrites([status |-> "ACTIVE", expires |-> e])
    OBVIOUS
  <2>2. PICK w : w = [v EXCEPT !.insert = People!Only(a, "OWNER"),
                          !.rule = IF mode = "none" THEN People!Nothing
                                   ELSE [mode |-> mode, schedule |-> FALSE, active |-> TRUE]]
    OBVIOUS
  <2>3. People!Prepares(r, w)
    BY <1>3, <2>1, <2>2 DEF People!CreateTeam
  <2>4. /\ DOMAIN v = DOMAIN People!Quiet /\ v.role = People!Nothing /\ v.delete = {}
        /\ v.invite = People!Nothing /\ v.via = {}
    BY <2>1, QuietFields DEF People!TeamWrites
  <2>5. /\ w.insert = People!Only(a, "OWNER") /\ w.role = People!Nothing /\ w.delete = {}
        /\ w.invite = People!Nothing /\ w.via = {}
    BY <2>2, <2>4, QuietFields
  <2>6. MembersAfter(w)[a] = "OWNER"
    BY <2>5, QuietFields DEF MembersAfter, People!Over, People!Only, PeopleInv, PeopleTypes
  <2> QED  BY <2>3, <2>5, <2>6, QuietFields, QuietInvites, PeoplePrepare DEF OwnerStays
<1>4. ASSUME NEW e, People!UpdateTeam(r, a, e) PROVE PeopleInv'
  BY <1>1, <1>4 DEF People!UpdateTeam, People!Manages
<1>5. ASSUME NEW e, People!ActivateTeam(r, a, e) PROVE PeopleInv'
  BY <1>1, <1>2, <1>5 DEF People!ActivateTeam, People!Manages
<1>6. CASE People!SuspendTeam(r, a)
  BY <1>1, <1>6 DEF People!SuspendTeam, People!Manages
<1>7. CASE People!ExpireTeam(r, a)
  BY <1>2, <1>7 DEF People!ExpireTeam
<1>8. CASE People!DeleteTeam(r, a)
  BY <1>1, <1>8 DEF People!DeleteTeam
<1>9. QED  BY <1>3, <1>4, <1>5, <1>6, <1>7, <1>8 DEF People!OfTeam

\* Whoever is promoted, demoted or leaves was not the last OWNER.
LEMMA PeopleMembers ==
    ASSUME PeopleInv, NEW r \in Team.requests, NEW a \in Team.users, People!OfMembers(r, a)
    PROVE  PeopleInv'
<1>1. PICK u \in Team.users :
          \/ People!RemoveMember(r, a, u)
          \/ \E new \in People!Roles : People!AddMember(r, a, u, new)
                                          \/ People!UpdateMember(r, a, u, new)
  BY DEF People!OfMembers
<1>2. ASSUME NEW w, People!Prepares(r, w), w.team = People!Nothing,
             w.invite = People!Nothing, w.via = {},
             \A v \in Team.users \ {u} : MembersAfter(w)[v] = role[v],
             role[u] = "OWNER" => People!AnotherOwner(u)
      PROVE  PeopleInv'
  <2>1. OwnerStays(w)
    <3>1. SUFFICES ASSUME People!Exists
                   PROVE  \E v \in Team.users : MembersAfter(w)[v] = "OWNER"
      BY <1>2, QuietFields DEF OwnerStays
    <3>2. \E v \in Team.users \ {u} : role[v] = "OWNER"
      BY <1>2, <3>1 DEF People!AnotherOwner, PeopleInv, People!OwnerRemains
    <3> QED  BY <1>2, <3>2
  <2> QED  BY <1>2, <2>1, QuietFields, QuietInvites, PeoplePrepare
<1>3. CASE People!RemoveMember(r, a, u)
  <2>1. PICK w : w = [People!Quiet EXCEPT !.delete = {u}]
    OBVIOUS
  <2>2. People!Prepares(r, w) /\ (role[u] = "OWNER" => People!AnotherOwner(u))
    BY <1>3, <2>1 DEF People!RemoveMember
  <2>3. /\ w.team = People!Nothing /\ w.insert = People!Nothing /\ w.role = People!Nothing
        /\ w.delete = {u} /\ w.invite = People!Nothing /\ w.via = {}
    BY <2>1, QuietFields
  <2>4. \A v \in Team.users \ {u} : MembersAfter(w)[v] = role[v]
    BY <2>3, QuietFields DEF MembersAfter, People!Over, PeopleInv, PeopleTypes
  <2> QED  BY <1>2, <2>2, <2>3, <2>4
<1>4. ASSUME NEW new, People!AddMember(r, a, u, new) PROVE PeopleInv'
  <2>1. PICK w : w = [People!Quiet EXCEPT !.insert = People!Only(u, new)]
    OBVIOUS
  <2>2. People!Prepares(r, w) /\ role[u] = "none"
    BY <1>4, <2>1 DEF People!AddMember
  <2>3. /\ w.team = People!Nothing /\ w.insert = People!Only(u, new)
        /\ w.role = People!Nothing /\ w.delete = {} /\ w.invite = People!Nothing /\ w.via = {}
    BY <2>1, QuietFields
  <2>4. \A v \in Team.users \ {u} : MembersAfter(w)[v] = role[v]
    BY <2>3, QuietFields DEF MembersAfter, People!Over, People!Only, PeopleInv, PeopleTypes
  <2> QED  BY <1>2, <2>2, <2>3, <2>4
<1>5. ASSUME NEW new, People!UpdateMember(r, a, u, new) PROVE PeopleInv'
  <2>1. PICK w : w = [People!Quiet EXCEPT !.role = People!Only(u, new)]
    OBVIOUS
  <2>2. People!Prepares(r, w) /\ (role[u] = "OWNER" => People!AnotherOwner(u))
    BY <1>5, <2>1 DEF People!UpdateMember
  <2>3. /\ w.team = People!Nothing /\ w.insert = People!Nothing
        /\ w.role = People!Only(u, new) /\ w.delete = {}
        /\ w.invite = People!Nothing /\ w.via = {}
    BY <2>1, QuietFields
  <2>4. \A v \in Team.users \ {u} : MembersAfter(w)[v] = role[v]
    BY <2>3, QuietFields DEF MembersAfter, People!Over, People!Only, PeopleInv, PeopleTypes
  <2> QED  BY <1>2, <2>2, <2>3, <2>4
<1>6. QED  BY <1>1, <1>3, <1>4, <1>5

\* The columns that changed, over those there were, are the new ones.
LEMMA OverChanged ==
    ASSUME NEW old, NEW new, NEW x \in DOMAIN old
    PROVE  People!Over(People!Changed(old, new), old)[x] =
              IF x \in DOMAIN new THEN new[x] ELSE old[x]
BY DEF People!Over, People!Changed

LEMMA PeopleInvites ==
    ASSUME PeopleInv, NEW r \in Team.requests, NEW a \in Team.users, People!OfInvites(r, a)
    PROVE  PeopleInv'
<1>1. PICK i \in Team.invites :
          \/ \E new \in People!Roles, max \in 1..Team.uses :
                People!CreateInvite(r, a, i, new, max)
          \/ People!RevokeInvite(r, a, i) \/ People!AcceptInvite(r, a, i)
  BY DEF People!OfInvites
<1>2. /\ DOMAIN invite[i] = InviteFields /\ joined[i] \in Nat /\ invite[i].max \in Nat
      /\ invite[i].used = joined[i] /\ joined[i] <= invite[i].max
  BY DEF PeopleInv, PeopleTypes, People!JoinsWithinMax
<1>3. ASSUME NEW w, NEW columns, w.invite = People!Only(i, People!Changed(invite[i], columns)),
             w.via \subseteq {i}
      PROVE  /\ \A x \in InviteFields : InviteAfter(w, i)[x] =
                    IF x \in DOMAIN columns THEN columns[x] ELSE invite[i][x]
             /\ \A j \in Team.invites \ {i} : InviteAfter(w, j) = invite[j] /\ j \notin w.via
  BY <1>2, <1>3, OverChanged DEF InviteAfter, People!Only
<1>4. ASSUME NEW w, NEW columns, w.invite = People!Only(i, People!Changed(invite[i], columns)),
             w.via \subseteq {i}, InviteAfter(w, i).max \in Nat,
             InviteAfter(w, i).used = IF i \in w.via THEN joined[i] + 1 ELSE joined[i],
             InviteAfter(w, i).used <= InviteAfter(w, i).max
      PROVE  UseIsCounted(w)
  <2>1. ASSUME NEW j \in Team.invites, j # i
        PROVE  /\ InviteAfter(w, j).max \in Nat /\ InviteAfter(w, j).used = joined[j]
               /\ InviteAfter(w, j).used <= InviteAfter(w, j).max /\ j \notin w.via
    BY <1>3, <1>4, <2>1 DEF PeopleInv, PeopleTypes, People!JoinsWithinMax
  <2> QED  BY <1>4, <2>1 DEF UseIsCounted
<1>5. ASSUME NEW columns
      PROVE  /\ DOMAIN People!InviteWrites(i, columns) = DOMAIN People!Quiet
             /\ People!InviteWrites(i, columns).team = People!Nothing
             /\ People!InviteWrites(i, columns).insert = People!Nothing
             /\ People!InviteWrites(i, columns).role = People!Nothing
             /\ People!InviteWrites(i, columns).delete = {}
             /\ People!InviteWrites(i, columns).via = {}
             /\ People!InviteWrites(i, columns).invite =
                   People!Only(i, People!Changed(invite[i], columns))
  BY QuietFields DEF People!InviteWrites
<1>6. ASSUME NEW new, NEW max \in 1..Team.uses, People!CreateInvite(r, a, i, new, max)
      PROVE  PeopleInv'
  <2>1. PICK columns : columns = [role |-> new, max |-> max, active |-> TRUE]
    OBVIOUS
  <2>2. PICK w : w = People!InviteWrites(i, columns)
    OBVIOUS
  <2>3. People!Prepares(r, w) /\ invite[i] = People!NoInvite
    BY <1>6, <2>1, <2>2 DEF People!CreateInvite
  <2>4. joined[i] = 0 /\ InviteAfter(w, i).max = max /\ InviteAfter(w, i).used = 0
    <3>1. invite[i].used = 0 /\ joined[i] = 0
      BY <1>2, <2>3 DEF People!NoInvite
    <3>2. \A x \in InviteFields : InviteAfter(w, i)[x] =
              IF x \in DOMAIN columns THEN columns[x] ELSE invite[i][x]
      BY <1>3, <1>5, <2>2
    <3> QED  BY <2>1, <3>1, <3>2 DEF InviteFields
  <2>5. UseIsCounted(w)
    BY <1>4, <1>5, <2>2, <2>4
  <2> QED  BY <1>5, <2>2, <2>3, <2>5, QuietFields, QuietMembers, PeoplePrepare
<1>7. CASE People!RevokeInvite(r, a, i)
  <2>1. PICK columns : columns = [active |-> FALSE]
    OBVIOUS
  <2>2. PICK w : w = People!InviteWrites(i, columns)
    OBVIOUS
  <2>3. People!Prepares(r, w)
    BY <1>7, <2>1, <2>2 DEF People!RevokeInvite
  <2>4. InviteAfter(w, i).max = invite[i].max /\ InviteAfter(w, i).used = invite[i].used
    BY <1>3, <1>5, <2>1, <2>2 DEF InviteFields
  <2>5. UseIsCounted(w)
    BY <1>2, <1>4, <1>5, <2>2, <2>4
  <2> QED  BY <1>5, <2>2, <2>3, <2>5, QuietFields, QuietMembers, PeoplePrepare
<1>8. CASE People!AcceptInvite(r, a, i)
  <2>1. PICK used, more : used = invite[i].used + 1 /\ more = (used < invite[i].max)
    OBVIOUS
  <2>2. PICK columns : columns = [used |-> used, active |-> more]
    OBVIOUS
  <2>3. PICK v : v = People!InviteWrites(i, columns)
    OBVIOUS
  <2>4. PICK w : w = [v EXCEPT !.insert = People!Only(a, invite[i].role), !.via = {i}]
    OBVIOUS
  <2>5. People!Prepares(r, w) /\ role[a] = "none" /\ invite[i].used < invite[i].max
        /\ People!Exists
    BY <1>8, <2>1, <2>2, <2>3, <2>4 DEF People!AcceptInvite, People!Valid, People!Exists
  <2>6. /\ w.team = People!Nothing /\ w.insert = People!Only(a, invite[i].role)
        /\ w.role = People!Nothing /\ w.delete = {} /\ w.via = {i}
        /\ w.invite = People!Only(i, People!Changed(invite[i], columns))
    BY <1>5, <2>3, <2>4, QuietFields
  <2>7. InviteAfter(w, i).max = invite[i].max /\ InviteAfter(w, i).used = used
    BY <1>3, <2>2, <2>6 DEF InviteFields
  <2>8. UseIsCounted(w)
    BY <1>2, <1>4, <2>1, <2>5, <2>6, <2>7
  <2>9. OwnerStays(w)
    <3>1. \A v_ \in Team.users \ {a} : MembersAfter(w)[v_] = role[v_]
      BY <2>6, QuietFields DEF MembersAfter, People!Over, People!Only, PeopleInv, PeopleTypes
    <3>2. \E v_ \in Team.users \ {a} : role[v_] = "OWNER"
      BY <2>5 DEF PeopleInv, People!OwnerRemains
    <3> QED  BY <3>1, <3>2 DEF OwnerStays
  <2> QED  BY <2>5, <2>8, <2>9, PeoplePrepare
<1>9. QED  BY <1>1, <1>6, <1>7, <1>8

\* What was prepared still holds when it is written, if nobody wrote in between.
LEMMA PeopleCommit ==
    ASSUME PeopleInv, \A r, s \in Team.requests : r = s,
           NEW r \in Team.requests, People!Commit(r)
    PROVE  PeopleInv'
<1>1. PICK w : w = tx[r]
  OBVIOUS
<1>2. /\ w.open /\ OwnerStays(w) /\ UseIsCounted(w)
      /\ team' = People!Over(w.team, team)
      /\ role' = MembersAfter(w)
      /\ invite' = [i \in Team.invites |-> InviteAfter(w, i)]
      /\ joined' = [i \in Team.invites |-> IF i \in w.via THEN joined[i] + 1 ELSE joined[i]]
      /\ tx' = [tx EXCEPT ![r] = People!Idle]
  BY <1>1 DEF People!Commit, PeopleInv, MembersAfter, InviteAfter
<1>3. \A q \in Team.requests : ~tx'[q].open
  BY <1>2 DEF PeopleInv, PeopleTypes, People!Idle
<1>4. PeopleTypes'
  <2>1. DOMAIN team' = {"status", "expires"} /\ DOMAIN role' = Team.users
    BY <1>2 DEF People!Over, MembersAfter, PeopleInv, PeopleTypes
  <2>2. ASSUME NEW i \in Team.invites
        PROVE  /\ DOMAIN invite'[i] = InviteFields
               /\ joined'[i] \in Nat /\ invite'[i].max \in Nat
               /\ invite'[i].used = joined'[i]
    <3>1. DOMAIN InviteAfter(w, i) = InviteFields
      BY DEF InviteAfter, People!Over, PeopleInv, PeopleTypes
    <3> QED  BY <1>2, <3>1 DEF UseIsCounted, PeopleInv, PeopleTypes
  <2> QED  BY <1>2, <2>1, <2>2 DEF PeopleInv, PeopleTypes
<1>5. People!OwnerRemains'
  <2>1. SUFFICES ASSUME team'.status # "absent"
                 PROVE  \E u \in Team.users : role'[u] = "OWNER"
    BY DEF People!OwnerRemains, People!Exists
  <2>2. People!Exists \/ DOMAIN w.team # {}
    BY <1>2, <2>1 DEF People!Over, People!Exists, PeopleInv, PeopleTypes
  <2> QED  BY <1>2, <2>2 DEF OwnerStays
<1>6. People!JoinsWithinMax'
  BY <1>2 DEF UseIsCounted, People!JoinsWithinMax
<1>7. QED  BY <1>3, <1>4, <1>5, <1>6 DEF PeopleInv

LEMMA PeopleClock ==
    ASSUME PeopleInv, People!DatePasses \/ \E i \in Team.invites : People!InviteExpires(i)
    PROVE  PeopleInv'
<1>1. UNCHANGED <<role, joined, tx>>
  BY DEF People!DatePasses, People!InviteExpires
<1>2. team'.status = team.status /\ DOMAIN team' = {"status", "expires"}
  BY DEF People!DatePasses, People!InviteExpires, PeopleInv, PeopleTypes
<1>3. /\ DOMAIN invite' = Team.invites
      /\ \A i \in Team.invites :
            /\ DOMAIN invite'[i] = InviteFields
            /\ invite'[i].max = invite[i].max /\ invite'[i].used = invite[i].used
  BY DEF People!DatePasses, People!InviteExpires, PeopleInv, PeopleTypes, InviteFields
<1>4. PeopleTypes' /\ People!OwnerRemains' /\ People!JoinsWithinMax'
  BY <1>1, <1>2, <1>3
     DEF PeopleInv, PeopleTypes, People!OwnerRemains, People!Exists, People!JoinsWithinMax
<1>5. ASSUME NEW w, OwnerStays(w), UseIsCounted(w) PROVE OwnerStays(w)' /\ UseIsCounted(w)'
  <2>1. OwnerStays(w)'
    BY <1>1, <1>2, <1>5 DEF OwnerStays, MembersAfter, People!Exists
  <2>2. ASSUME NEW i \in Team.invites
        PROVE  /\ InviteAfter(w, i)'.max = InviteAfter(w, i).max
               /\ InviteAfter(w, i)'.used = InviteAfter(w, i).used
    <3>1. {"max", "used"} \subseteq InviteFields
      BY DEF InviteFields
    <3> QED  BY <1>3, <3>1 DEF InviteAfter, People!Over, PeopleInv, PeopleTypes
  <2> QED  BY <1>1, <1>5, <2>1, <2>2 DEF UseIsCounted
<1>6. (\A r \in Team.requests : tx[r].open => OwnerStays(tx[r]) /\ UseIsCounted(tx[r]))'
  <2>1. ASSUME NEW r \in Team.requests, tx[r].open
        PROVE  (OwnerStays(tx[r]) /\ UseIsCounted(tx[r]))'
    <3>1. PICK w : w = tx[r] /\ w = tx'[r]
      BY <1>1
    <3>2. OwnerStays(w)' /\ UseIsCounted(w)'
      BY <1>5, <2>1, <3>1 DEF PeopleInv
    <3> QED  BY <3>1, <3>2 DEF OwnerStays, UseIsCounted, MembersAfter, InviteAfter
  <2> QED  BY <1>1, <2>1
<1>7. QED  BY <1>4, <1>6 DEF PeopleInv

LEMMA PeopleSteps ==
    ASSUME PeopleInv, \A r, s \in Team.requests : r = s, People!Next
    PROVE  PeopleInv'
<1>1. ASSUME NEW r \in Team.requests, People!Abort(r) PROVE PeopleInv'
  <2>1. tx' = [tx EXCEPT ![r] = People!Idle] /\ UNCHANGED <<team, role, invite, joined>>
    BY <1>1 DEF People!Abort
  <2>2. \A q \in Team.requests : ~tx'[q].open
    BY <2>1 DEF PeopleInv, PeopleTypes, People!Idle
  <2> QED  BY <2>1, <2>2 DEF PeopleInv, PeopleTypes, People!OwnerRemains, People!Exists,
                              People!JoinsWithinMax
<1>2. ASSUME NEW r \in Team.requests, NEW a \in Team.users,
             \/ People!OfTeam(r, a) \/ People!OfMembers(r, a) \/ People!OfInvites(r, a)
             \/ People!OfRule(r, a) \/ People!OfAlarms(r, a)
      PROVE  PeopleInv'
  BY <1>2, PeopleTeam, PeopleMembers, PeopleInvites, PeopleRules
<1>3. QED  BY <1>1, <1>2, PeopleCommit, PeopleClock DEF People!Next

LEMMA PeopleStutter ==
    ASSUME PeopleInv, UNCHANGED teamVars
    PROVE  PeopleInv'
BY PeopleCrash DEF teamVars

\* If requests do not overlap, a team keeps an OWNER whoever is promoted, demoted
\* or leaves, and an invitation lets in max_uses people (team_service.py,
\* team_invite_service.py).
THEOREM MembersAreCountedAlone ==
    ASSUME \A r, s \in Team.requests : r = s
    PROVE  OperationsSpec => []MembersAreCounted
<1> DEFINE Inv == part = "people" => PeopleInv
<1>1. OperationsInit => Inv
  BY PeopleStart DEF OperationsInit
<1>2. Inv /\ [OperationsNext]_operationsVars => Inv'
  BY PeopleSteps, PeopleStutter DEF OperationsNext, operationsVars
<1>3. Inv => MembersAreCounted
  BY DEF PeopleInv, MembersAreCounted
<1>4. QED  BY <1>1, <1>2, <1>3, PTL DEF OperationsSpec

-----------------------------------------------------------------------------
(* Teams: the rule and the emergencies.                                    *)

\* What a commit makes of the team, the rule and an emergency.
TeamAfter(w) == Rules!Over(w.team, team)
RuleAfter(w) == IF w.drop THEN Rules!NoRule ELSE Rules!Over(w.rule, rule)
AlarmAfter(w, k) == IF k \in DOMAIN w.alarm THEN Rules!Over(w.alarm[k], alarm[k]) ELSE alarm[k]

RuleTypes ==
    /\ DOMAIN team = {"status", "expires"} /\ DOMAIN rule = {"mode", "schedule", "active"}
    /\ DOMAIN alarm = RuledTeam.alarms /\ DOMAIN tx = RuledTeam.requests
    /\ \A k \in RuledTeam.alarms : alarm[k] = [by |-> alarm[k].by, status |-> alarm[k].status]

\* A request leaves deleted what is,
StaysDeleted(w) == team.status = "DELETED" => TeamAfter(w).status = "DELETED"

\* leaves no rule by schedule without one,
RuleIsWhole(w) == RuleAfter(w).mode = "SCHEDULED" => RuleAfter(w).schedule

\* opens no second emergency of a person, and leaves alone those that ended.
AlarmsAreApart(w) ==
    /\ \A j, k \in RuledTeam.alarms :
          AlarmAfter(w, j).status = "ACTIVE" /\ AlarmAfter(w, k).status = "ACTIVE"
              /\ AlarmAfter(w, j).by = AlarmAfter(w, k).by => j = k
    /\ \A k \in RuledTeam.alarms :
          alarm[k].status \in {"RESOLVED", "CANCELLED"} => AlarmAfter(w, k) = alarm[k]

RuledInv ==
    /\ RuleTypes
    /\ Rules!ScheduledHasSchedule /\ Rules!OneAlarmPerPerson
    /\ \A r \in RuledTeam.requests :
          tx[r].open => StaysDeleted(tx[r]) /\ RuleIsWhole(tx[r]) /\ AlarmsAreApart(tx[r])

LEMMA RulesStart == Rules!Init => RuledInv
<1> SUFFICES ASSUME Rules!Init PROVE RuledInv
  OBVIOUS
<1>1. /\ team = [status |-> "absent", expires |-> "never"]
      /\ rule = Rules!NoRule
      /\ alarm = [k \in RuledTeam.alarms |-> Rules!NoAlarm]
      /\ tx = [r \in RuledTeam.requests |-> Rules!Idle]
  BY DEF Rules!Init
<1>2. /\ DOMAIN Rules!NoRule = {"mode", "schedule", "active"} /\ Rules!NoRule.mode = "none"
      /\ Rules!NoAlarm = [by |-> "nobody", status |-> "none"] /\ ~Rules!Idle.open
  BY DEF Rules!NoRule, Rules!NoAlarm, Rules!Idle
<1>3. RuleTypes
  BY <1>1, <1>2 DEF RuleTypes
<1>4. Rules!ScheduledHasSchedule /\ Rules!OneAlarmPerPerson
  BY <1>1, <1>2 DEF Rules!ScheduledHasSchedule, Rules!OneAlarmPerPerson
<1>5. QED  BY <1>1, <1>2, <1>3, <1>4 DEF RuledInv

\* What is not written stays.
LEMMA QuietTeam ==
    ASSUME RuledInv, NEW w, DOMAIN w.team = {}
    PROVE  StaysDeleted(w)
BY DEF StaysDeleted, TeamAfter, Rules!Over, RuledInv, RuleTypes

LEMMA QuietRule ==
    ASSUME RuledInv, NEW w, DOMAIN w.rule = {}, ~w.drop
    PROVE  RuleIsWhole(w)
<1>1. /\ Rules!Over(w.rule, rule)["mode"] = rule["mode"]
      /\ Rules!Over(w.rule, rule)["schedule"] = rule["schedule"]
  BY DEF Rules!Over, RuledInv, RuleTypes
<1>2. QED  BY <1>1 DEF RuleIsWhole, RuleAfter, RuledInv, Rules!ScheduledHasSchedule

LEMMA QuietAlarms ==
    ASSUME RuledInv, NEW w, DOMAIN w.alarm = {}
    PROVE  AlarmsAreApart(w)
BY DEF AlarmsAreApart, AlarmAfter, RuledInv, Rules!OneAlarmPerPerson

LEMMA RulesPrepare ==
    ASSUME RuledInv, NEW r \in RuledTeam.requests, NEW w, Rules!Prepares(r, w),
           StaysDeleted(w), RuleIsWhole(w), AlarmsAreApart(w)
    PROVE  RuledInv'
<1>1. tx' = [tx EXCEPT ![r] = w] /\ UNCHANGED <<team, rule, alarm>>
  BY DEF Rules!Prepares
<1>2. \A q \in RuledTeam.requests : tx'[q] = IF q = r THEN w ELSE tx[q]
  BY <1>1 DEF RuledInv, RuleTypes
<1>3. \A q \in RuledTeam.requests :
         tx'[q].open => StaysDeleted(tx'[q]) /\ RuleIsWhole(tx'[q]) /\ AlarmsAreApart(tx'[q])
  BY <1>2 DEF RuledInv
<1>4. (\A q \in RuledTeam.requests :
         tx[q].open => StaysDeleted(tx[q]) /\ RuleIsWhole(tx[q]) /\ AlarmsAreApart(tx[q]))'
  BY <1>1, <1>3 DEF StaysDeleted, RuleIsWhole, AlarmsAreApart, TeamAfter, RuleAfter, AlarmAfter
<1>5. RuleTypes' /\ Rules!ScheduledHasSchedule' /\ Rules!OneAlarmPerPerson'
  BY <1>1 DEF RuledInv, RuleTypes, Rules!ScheduledHasSchedule, Rules!OneAlarmPerPerson
<1>6. QED  BY <1>4, <1>5 DEF RuledInv

LEMMA RulesAside ==
    ASSUME RuledInv, UNCHANGED <<team, rule, alarm, tx>>
    PROVE  RuledInv'
BY DEF RuledInv, RuleTypes, Rules!ScheduledHasSchedule, Rules!OneAlarmPerPerson,
       StaysDeleted, RuleIsWhole, AlarmsAreApart, TeamAfter, RuleAfter, AlarmAfter

LEMMA QuietWrites ==
    /\ DOMAIN Rules!Quiet = {"open", "team", "insert", "role", "delete", "invite", "via",
                             "rule", "drop", "alarm"}
    /\ Rules!Quiet.team = Rules!Nothing /\ Rules!Quiet.rule = Rules!Nothing
    /\ Rules!Quiet.alarm = Rules!Nothing /\ Rules!Quiet.drop = FALSE
    /\ DOMAIN Rules!Nothing = {}
BY DEF Rules!Quiet, Rules!Nothing

\* The columns that changed, over those there were, are the new ones.
LEMMA OverWritten ==
    ASSUME NEW old, NEW new, NEW x \in DOMAIN old
    PROVE  Rules!Over(Rules!Changed(old, new), old)[x] =
              IF x \in DOMAIN new THEN new[x] ELSE old[x]
BY DEF Rules!Over, Rules!Changed

\* Members and invitations are written without the rest.
LEMMA RulesElsewhere ==
    ASSUME RuledInv, NEW r \in RuledTeam.requests, NEW a,
           Rules!OfMembers(r, a) \/ Rules!OfInvites(r, a)
    PROVE  RuledInv'
<1> DEFINE Aside(w) == /\ w.team = Rules!Nothing /\ w.rule = Rules!Nothing
                       /\ w.alarm = Rules!Nothing /\ ~w.drop
<1>1. ASSUME NEW w, Rules!Prepares(r, w), Aside(w) PROVE RuledInv'
  BY <1>1, QuietWrites, QuietTeam, QuietRule, QuietAlarms, RulesPrepare
<1>2. ASSUME NEW x PROVE /\ Aside([Rules!Quiet EXCEPT !.insert = x])
                         /\ Aside([Rules!Quiet EXCEPT !.role = x])
                         /\ Aside([Rules!Quiet EXCEPT !.delete = x])
  BY QuietWrites
<1>3. ASSUME NEW i, NEW columns
      PROVE  /\ Aside(Rules!InviteWrites(i, columns))
             /\ DOMAIN Rules!InviteWrites(i, columns) = DOMAIN Rules!Quiet
  BY QuietWrites DEF Rules!InviteWrites
<1>4. ASSUME NEW v, Aside(v), DOMAIN v = DOMAIN Rules!Quiet, NEW x, NEW y
      PROVE  Aside([v EXCEPT !.insert = x, !.via = y])
  BY <1>4, QuietWrites
<1> HIDE DEF Aside
<1>5. CASE Rules!OfMembers(r, a)
  BY <1>1, <1>2, <1>5
     DEF Rules!OfMembers, Rules!AddMember, Rules!UpdateMember, Rules!RemoveMember
<1>6. CASE Rules!OfInvites(r, a)
  BY <1>1, <1>3, <1>4, <1>6
     DEF Rules!OfInvites, Rules!CreateInvite, Rules!RevokeInvite, Rules!AcceptInvite
<1>7. QED  BY <1>5, <1>6

\* A deleted team is not written another status.
LEMMA RulesTeam ==
    ASSUME RuledInv, NEW r \in RuledTeam.requests, NEW a, Rules!OfTeam(r, a)
    PROVE  RuledInv'
<1>1. ASSUME NEW columns
      PROVE  /\ DOMAIN Rules!TeamWrites(columns) = DOMAIN Rules!Quiet
             /\ Rules!TeamWrites(columns).team = Rules!Changed(team, columns)
             /\ Rules!TeamWrites(columns).rule = Rules!Nothing
             /\ Rules!TeamWrites(columns).alarm = Rules!Nothing
             /\ ~Rules!TeamWrites(columns).drop
  BY QuietWrites DEF Rules!TeamWrites
<1>2. ASSUME NEW columns, NEW w, w.team = Rules!Changed(team, columns),
             team.status = "DELETED" /\ "status" \in DOMAIN columns =>
                columns.status = "DELETED"
      PROVE  StaysDeleted(w)
  BY <1>2, OverWritten DEF StaysDeleted, TeamAfter, RuledInv, RuleTypes
<1>3. ASSUME NEW columns, Rules!Prepares(r, Rules!TeamWrites(columns)),
             team.status = "DELETED" /\ "status" \in DOMAIN columns =>
                columns.status = "DELETED"
      PROVE  RuledInv'
  <2>1. StaysDeleted(Rules!TeamWrites(columns))
    BY <1>1, <1>2, <1>3
  <2> QED  BY <1>1, <1>3, <2>1, QuietWrites, QuietRule, QuietAlarms, RulesPrepare
<1>4. ASSUME NEW operation, Rules!Crashes(r, operation) PROVE RuledInv'
  BY <1>4, RulesAside DEF Rules!Crashes
<1>5. ASSUME NEW e, NEW mode, Rules!CreateTeam(r, a, e, mode) PROVE RuledInv'
  <2>1. PICK columns : columns = [status |-> "ACTIVE", expires |-> e]
    OBVIOUS
  <2>2. PICK v : v = Rules!TeamWrites(columns)
    OBVIOUS
  <2>3. PICK new : new = IF mode = "none" THEN Rules!Nothing
                         ELSE [mode |-> mode, schedule |-> FALSE, active |-> TRUE]
    OBVIOUS
  <2>4. PICK w : w = [v EXCEPT !.insert = Rules!Only(a, "OWNER"), !.rule = new]
    OBVIOUS
  <2>5. Rules!Prepares(r, w) /\ team.status = "absent" /\ mode # "SCHEDULED"
    BY <1>5, <2>1, <2>2, <2>3, <2>4 DEF Rules!CreateTeam, Rules!Exists
  <2>6. /\ w.team = Rules!Changed(team, columns) /\ w.rule = new
        /\ w.alarm = Rules!Nothing /\ ~w.drop
    BY <1>1, <2>2, <2>4, QuietWrites
  <2>7. RuleIsWhole(w)
    <3>1. CASE mode = "none"
      BY <2>3, <2>6, <3>1, QuietWrites, QuietRule
    <3>2. CASE mode # "none"
      <4>1. Rules!Over(w.rule, rule).mode = mode
        BY <2>3, <2>6, <3>2 DEF Rules!Over, RuledInv, RuleTypes
      <4> QED  BY <2>5, <2>6, <4>1 DEF RuleIsWhole, RuleAfter
    <3> QED  BY <3>1, <3>2
  <2> QED  BY <1>2, <2>5, <2>6, <2>7, QuietWrites, QuietAlarms, RulesPrepare
<1>6. ASSUME NEW e, Rules!UpdateTeam(r, a, e) PROVE RuledInv'
  BY <1>3, <1>6 DEF Rules!UpdateTeam
<1>7. ASSUME NEW e, Rules!ActivateTeam(r, a, e) PROVE RuledInv'
  <2>1. team.status # "DELETED"
    BY <1>7 DEF Rules!ActivateTeam
  <2> QED  BY <1>3, <1>4, <1>7, <2>1 DEF Rules!ActivateTeam
<1>8. CASE Rules!SuspendTeam(r, a)
  BY <1>3, <1>8 DEF Rules!SuspendTeam
<1>9. CASE Rules!ExpireTeam(r, a)
  BY <1>4, <1>9 DEF Rules!ExpireTeam
<1>10. CASE Rules!DeleteTeam(r, a)
  BY <1>3, <1>10 DEF Rules!DeleteTeam
<1>11. QED  BY <1>5, <1>6, <1>7, <1>8, <1>9, <1>10 DEF Rules!OfTeam


\* ALWAYS erases the schedule, and SCHEDULED comes with one or finds one.
LEMMA RulesRule ==
    ASSUME RuledInv, NEW r \in RuledTeam.requests, NEW a, Rules!OfRule(r, a)
    PROVE  RuledInv'
<1>1. ASSUME NEW columns
      PROVE  /\ Rules!RuleWrites(columns).team = Rules!Nothing
             /\ Rules!RuleWrites(columns).rule = Rules!Changed(rule, columns)
             /\ Rules!RuleWrites(columns).alarm = Rules!Nothing
             /\ ~Rules!RuleWrites(columns).drop
  BY QuietWrites DEF Rules!RuleWrites
<1>2. ASSUME NEW columns, Rules!Prepares(r, Rules!RuleWrites(columns)),
             Rules!Over(Rules!Changed(rule, columns), rule).mode = "SCHEDULED" =>
                Rules!Over(Rules!Changed(rule, columns), rule).schedule
      PROVE  RuledInv'
  <2>1. RuleIsWhole(Rules!RuleWrites(columns))
    BY <1>1, <1>2 DEF RuleIsWhole, RuleAfter
  <2> QED  BY <1>1, <1>2, <2>1, QuietWrites, QuietTeam, QuietAlarms, RulesPrepare
<1>3. ASSUME NEW columns, "mode" \in DOMAIN columns, "schedule" \in DOMAIN columns,
             Rules!Prepares(r, Rules!RuleWrites(columns)),
             columns.mode = "SCHEDULED" => columns.schedule
      PROVE  RuledInv'
  <2>1. /\ Rules!Over(Rules!Changed(rule, columns), rule).mode = columns.mode
        /\ Rules!Over(Rules!Changed(rule, columns), rule).schedule = columns.schedule
    BY <1>3, OverWritten DEF RuledInv, RuleTypes
  <2> QED  BY <1>2, <1>3, <2>1
<1>4. ASSUME NEW mode, NEW schedule, NEW active_,
             Rules!CreateRule(r, a, mode, schedule, active_)
      PROVE  RuledInv'
  <2>1. PICK columns : columns = [mode |-> mode, schedule |-> schedule, active |-> active_]
    OBVIOUS
  <2>2. Rules!Prepares(r, Rules!RuleWrites(columns)) /\ (mode = "SCHEDULED" => schedule)
    BY <1>4, <2>1 DEF Rules!CreateRule
  <2> QED  BY <1>3, <2>1, <2>2
<1>5. ASSUME NEW mode, NEW schedule, Rules!UpdateRule(r, a, mode, schedule) PROVE RuledInv'
  <2>1. PICK columns : columns = [mode |-> IF mode = "same" THEN rule.mode ELSE mode,
                schedule |-> schedule \/ (rule.schedule /\ mode # "ALWAYS")]
    OBVIOUS
  <2>2. /\ Rules!Prepares(r, Rules!RuleWrites(columns))
        /\ columns.mode = "SCHEDULED" => columns.schedule
    BY <1>5, <2>1 DEF Rules!UpdateRule
  <2>3. "mode" \in DOMAIN columns /\ "schedule" \in DOMAIN columns
    BY <2>1
  <2> QED  BY <1>3, <2>2, <2>3
<1>6. ASSUME NEW active_, Rules!SetRuleActive(r, a, active_) PROVE RuledInv'
  <2>1. PICK columns : columns = [active |-> active_]
    OBVIOUS
  <2>2. Rules!Prepares(r, Rules!RuleWrites(columns))
    BY <1>6, <2>1 DEF Rules!SetRuleActive
  <2>3. /\ Rules!Over(Rules!Changed(rule, columns), rule).mode = rule.mode
        /\ Rules!Over(Rules!Changed(rule, columns), rule).schedule = rule.schedule
    BY <2>1, OverWritten DEF RuledInv, RuleTypes
  <2> QED  BY <1>2, <2>2, <2>3 DEF RuledInv, Rules!ScheduledHasSchedule
<1>7. CASE Rules!DeleteRule(r, a)
  <2>1. PICK w : w = [Rules!Quiet EXCEPT !.drop = TRUE]
    OBVIOUS
  <2>2. Rules!Prepares(r, w)
    BY <1>7, <2>1 DEF Rules!DeleteRule
  <2>3. w.team = Rules!Nothing /\ w.alarm = Rules!Nothing /\ w.drop
    BY <2>1, QuietWrites
  <2>4. RuleIsWhole(w)
    BY <2>3 DEF RuleIsWhole, RuleAfter, Rules!NoRule
  <2> QED  BY <2>2, <2>3, <2>4, QuietWrites, QuietTeam, QuietAlarms, RulesPrepare
<1>8. QED  BY <1>4, <1>5, <1>6, <1>7 DEF Rules!OfRule

\* Whoever starts an emergency has none open, and only an open one is ended.
LEMMA RulesAlarms ==
    ASSUME RuledInv, NEW r \in RuledTeam.requests, NEW a, Rules!OfAlarms(r, a)
    PROVE  RuledInv'
<1>1. PICK k \in RuledTeam.alarms :
          Rules!StartAlarm(r, a, k) \/ Rules!ResolveAlarm(r, a, k) \/ Rules!CancelAlarm(r, a, k)
  BY DEF Rules!OfAlarms
<1>2. ASSUME NEW columns, Rules!Prepares(r, [Rules!Quiet EXCEPT !.alarm = Rules!Only(k, columns)]),
             alarm[k].status \notin {"RESOLVED", "CANCELLED"},
             \A j \in RuledTeam.alarms \ {k} :
                ~(/\ Rules!Over(columns, alarm[k]).status = "ACTIVE" /\ alarm[j].status = "ACTIVE"
                  /\ Rules!Over(columns, alarm[k]).by = alarm[j].by)
      PROVE  RuledInv'
  <2>1. PICK w : w = [Rules!Quiet EXCEPT !.alarm = Rules!Only(k, columns)]
    OBVIOUS
  <2>2. /\ w.team = Rules!Nothing /\ w.rule = Rules!Nothing /\ ~w.drop
        /\ w.alarm = Rules!Only(k, columns)
    BY <2>1, QuietWrites
  <2>3. /\ AlarmAfter(w, k) = Rules!Over(columns, alarm[k])
        /\ \A j \in RuledTeam.alarms \ {k} : AlarmAfter(w, j) = alarm[j]
    BY <2>2 DEF AlarmAfter, Rules!Only
  <2>4. AlarmsAreApart(w)
    <3>1. ASSUME NEW i \in RuledTeam.alarms, NEW j \in RuledTeam.alarms,
                 AlarmAfter(w, i).status = "ACTIVE", AlarmAfter(w, j).status = "ACTIVE",
                 AlarmAfter(w, i).by = AlarmAfter(w, j).by
          PROVE  i = j
      <4>1. CASE i # k /\ j # k
        BY <2>3, <3>1, <4>1 DEF RuledInv, Rules!OneAlarmPerPerson
      <4>2. CASE i = k \/ j = k
        BY <1>2, <2>3, <3>1, <4>2
      <4> QED  BY <4>1, <4>2
    <3>2. ASSUME NEW j \in RuledTeam.alarms, alarm[j].status \in {"RESOLVED", "CANCELLED"}
          PROVE  AlarmAfter(w, j) = alarm[j]
      BY <1>2, <2>3, <3>2
    <3> QED  BY <3>1, <3>2 DEF AlarmsAreApart
  <2> QED  BY <1>2, <2>1, <2>2, <2>4, QuietWrites, QuietTeam, QuietRule, RulesPrepare
<1>3. CASE Rules!StartAlarm(r, a, k)
  <2>1. PICK columns : columns = [by |-> a, status |-> "ACTIVE"]
    OBVIOUS
  <2>2. /\ Rules!Prepares(r, [Rules!Quiet EXCEPT !.alarm = Rules!Only(k, columns)])
        /\ alarm[k] = Rules!NoAlarm
        /\ \A j \in RuledTeam.alarms : alarm[j] # [by |-> a, status |-> "ACTIVE"]
    BY <1>3, <2>1 DEF Rules!StartAlarm
  <2>3. "by" \in DOMAIN alarm[k] /\ alarm[k].status = "none"
    BY <2>2 DEF Rules!NoAlarm
  <2>4. Rules!Over(columns, alarm[k]).by = a
    BY <2>1, <2>3 DEF Rules!Over
  <2>5. \A j \in RuledTeam.alarms : ~(alarm[j].status = "ACTIVE" /\ alarm[j].by = a)
    BY <2>2 DEF RuledInv, RuleTypes
  <2> QED  BY <1>2, <2>2, <2>3, <2>4, <2>5
<1>4. ASSUME NEW status, status \in {"RESOLVED", "CANCELLED"}, Rules!MayEnd(a, k),
             Rules!Prepares(r, [Rules!Quiet EXCEPT !.alarm =
                                   Rules!Only(k, [status |-> status])])
      PROVE  RuledInv'
  <2>1. PICK columns : columns = [status |-> status]
    OBVIOUS
  <2>2. "status" \in DOMAIN alarm[k] /\ alarm[k].status = "ACTIVE"
    <3>1. alarm[k] = [by |-> alarm[k].by, status |-> alarm[k].status]
      BY DEF RuledInv, RuleTypes
    <3>2. \A x, y : "status" \in DOMAIN [by |-> x, status |-> y]
      OBVIOUS
    <3> QED  BY <1>4, <3>1, <3>2 DEF Rules!MayEnd
  <2>3. Rules!Over(columns, alarm[k]).status = status
    BY <2>1, <2>2 DEF Rules!Over
  <2> QED  BY <1>2, <1>4, <2>1, <2>2, <2>3
<1>5. QED  BY <1>1, <1>3, <1>4 DEF Rules!ResolveAlarm, Rules!CancelAlarm

\* What was prepared still holds when it is written, if nobody wrote in between.
LEMMA RulesCommit ==
    ASSUME RuledInv, \A r, s \in RuledTeam.requests : r = s,
           NEW r \in RuledTeam.requests, Rules!Commit(r)
    PROVE  RuledInv' /\ Rules!KeepsEnds
<1>1. PICK w : w = tx[r]
  OBVIOUS
<1>2. /\ StaysDeleted(w) /\ RuleIsWhole(w) /\ AlarmsAreApart(w)
      /\ team' = TeamAfter(w) /\ rule' = RuleAfter(w)
      /\ alarm' = [k \in RuledTeam.alarms |-> AlarmAfter(w, k)]
      /\ tx' = [tx EXCEPT ![r] = Rules!Idle]
  BY <1>1 DEF Rules!Commit, RuledInv, TeamAfter, RuleAfter, AlarmAfter
<1>3. \A q \in RuledTeam.requests : ~tx'[q].open
  BY <1>2 DEF RuledInv, RuleTypes, Rules!Idle
<1>4. RuleTypes'
  <2>1. DOMAIN team' = {"status", "expires"}
    BY <1>2 DEF TeamAfter, Rules!Over, RuledInv, RuleTypes
  <2>2. DOMAIN rule' = {"mode", "schedule", "active"}
    BY <1>2 DEF RuleAfter, Rules!NoRule, Rules!Over, RuledInv, RuleTypes
  <2>3. ASSUME NEW k \in RuledTeam.alarms
        PROVE  alarm'[k] = [by |-> alarm'[k].by, status |-> alarm'[k].status]
    <3>1. PICK x : x = AlarmAfter(w, k)
      OBVIOUS
    <3>2. x = alarm[k] \/ x = Rules!Over(w.alarm[k], alarm[k])
      BY <3>1 DEF AlarmAfter
    <3>3. alarm[k] = [by |-> alarm[k].by, status |-> alarm[k].status]
      BY DEF RuledInv, RuleTypes
    <3>4. x = [by |-> x.by, status |-> x.status]
      BY <3>2, <3>3 DEF Rules!Over
    <3> QED  BY <1>2, <3>1, <3>4
  <2> QED  BY <1>2, <2>1, <2>2, <2>3 DEF RuledInv, RuleTypes
<1>5. Rules!ScheduledHasSchedule' /\ Rules!OneAlarmPerPerson'
  BY <1>2 DEF Rules!ScheduledHasSchedule, Rules!OneAlarmPerPerson, RuleIsWhole, AlarmsAreApart
<1>6. Rules!KeepsEnds
  BY <1>2 DEF Rules!KeepsEnds, StaysDeleted, AlarmsAreApart
<1>7. QED  BY <1>3, <1>4, <1>5, <1>6 DEF RuledInv

LEMMA RulesClock ==
    ASSUME RuledInv, Rules!DatePasses
    PROVE  RuledInv'
<1>1. UNCHANGED <<rule, alarm, tx>>
  BY DEF Rules!DatePasses
<1>2. team'.status = team.status /\ DOMAIN team' = DOMAIN team
  BY DEF Rules!DatePasses, RuledInv, RuleTypes
<1>3. RuleTypes' /\ Rules!ScheduledHasSchedule' /\ Rules!OneAlarmPerPerson'
  BY <1>1, <1>2 DEF RuledInv, RuleTypes, Rules!ScheduledHasSchedule, Rules!OneAlarmPerPerson
<1>4. ASSUME NEW w, StaysDeleted(w) PROVE StaysDeleted(w)'
  BY <1>2, <1>4 DEF StaysDeleted, TeamAfter, Rules!Over, RuledInv, RuleTypes
<1>5. ASSUME NEW r \in RuledTeam.requests, tx[r].open
      PROVE  (StaysDeleted(tx[r]) /\ RuleIsWhole(tx[r]) /\ AlarmsAreApart(tx[r]))'
  <2>1. PICK w : w = tx[r] /\ w = tx'[r]
    BY <1>1
  <2>2. StaysDeleted(w)' /\ RuleIsWhole(w) /\ AlarmsAreApart(w)
    BY <1>4, <1>5, <2>1 DEF RuledInv
  <2> QED  BY <1>1, <2>1, <2>2
           DEF StaysDeleted, TeamAfter, RuleIsWhole, RuleAfter, AlarmsAreApart, AlarmAfter
<1>6. QED  BY <1>1, <1>3, <1>5 DEF RuledInv

LEMMA RulesSteps ==
    ASSUME RuledInv, \A r, s \in RuledTeam.requests : r = s, Rules!Next
    PROVE  RuledInv'
<1>1. ASSUME NEW r \in RuledTeam.requests, Rules!Abort(r) PROVE RuledInv'
  <2>1. tx' = [tx EXCEPT ![r] = Rules!Idle] /\ UNCHANGED <<team, rule, alarm>>
    BY <1>1 DEF Rules!Abort
  <2>2. \A q \in RuledTeam.requests : ~tx'[q].open
    BY <2>1 DEF RuledInv, RuleTypes, Rules!Idle
  <2> QED  BY <2>1, <2>2 DEF RuledInv, RuleTypes, Rules!ScheduledHasSchedule,
                              Rules!OneAlarmPerPerson
<1>2. ASSUME NEW r \in RuledTeam.requests, NEW a \in RuledTeam.users,
             \/ Rules!OfTeam(r, a) \/ Rules!OfMembers(r, a) \/ Rules!OfInvites(r, a)
             \/ Rules!OfRule(r, a) \/ Rules!OfAlarms(r, a)
      PROVE  RuledInv'
  BY <1>2, RulesTeam, RulesElsewhere, RulesRule, RulesAlarms
<1>3. ASSUME NEW i, Rules!InviteExpires(i) PROVE RuledInv'
  BY <1>3, RulesAside DEF Rules!InviteExpires
<1>4. QED  BY <1>1, <1>2, <1>3, RulesCommit, RulesClock DEF Rules!Next

\* Only a commit writes to the team or to an emergency, but for the clock.
LEMMA EndsAreKept ==
    ASSUME RuledInv, \A r, s \in RuledTeam.requests : r = s, Rules!Next
    PROVE  Rules!KeepsEnds
<1>1. CASE UNCHANGED <<team, alarm>>
  BY <1>1 DEF Rules!KeepsEnds
<1>2. CASE Rules!DatePasses
  <2>1. team'.status = team.status /\ alarm' = alarm
    BY <1>2 DEF Rules!DatePasses, RuledInv, RuleTypes
  <2> QED  BY <2>1 DEF Rules!KeepsEnds
<1>3. ASSUME NEW r \in RuledTeam.requests, Rules!Commit(r) PROVE Rules!KeepsEnds
  BY <1>3, RulesCommit
<1>4. ASSUME NEW r, Rules!Abort(r) PROVE UNCHANGED <<team, alarm>>
  BY <1>4 DEF Rules!Abort
<1>5. ASSUME NEW i, Rules!InviteExpires(i) PROVE UNCHANGED <<team, alarm>>
  BY <1>5 DEF Rules!InviteExpires
<1>6. ASSUME NEW r, NEW w, Rules!Prepares(r, w) PROVE UNCHANGED <<team, alarm>>
  BY <1>6 DEF Rules!Prepares
<1>7. ASSUME NEW r, NEW operation, Rules!Crashes(r, operation) PROVE UNCHANGED <<team, alarm>>
  BY <1>7 DEF Rules!Crashes
<1>8. ASSUME NEW r, NEW a,
             \/ Rules!OfTeam(r, a) \/ Rules!OfMembers(r, a) \/ Rules!OfInvites(r, a)
             \/ Rules!OfRule(r, a) \/ Rules!OfAlarms(r, a)
      PROVE  UNCHANGED <<team, alarm>>
  <2>1. CASE Rules!OfTeam(r, a)
    BY <1>6, <1>7, <2>1
       DEF Rules!OfTeam, Rules!CreateTeam, Rules!UpdateTeam, Rules!ActivateTeam,
           Rules!SuspendTeam, Rules!ExpireTeam, Rules!DeleteTeam
  <2>2. CASE Rules!OfMembers(r, a) \/ Rules!OfInvites(r, a)
    BY <1>6, <2>2
       DEF Rules!OfMembers, Rules!AddMember, Rules!UpdateMember, Rules!RemoveMember,
           Rules!OfInvites, Rules!CreateInvite, Rules!RevokeInvite, Rules!AcceptInvite
  <2>3. CASE Rules!OfRule(r, a) \/ Rules!OfAlarms(r, a)
    BY <1>6, <2>3
       DEF Rules!OfRule, Rules!CreateRule, Rules!UpdateRule, Rules!SetRuleActive,
           Rules!DeleteRule, Rules!OfAlarms, Rules!StartAlarm, Rules!ResolveAlarm,
           Rules!CancelAlarm
  <2> QED  BY <1>8, <2>1, <2>2, <2>3
<1>9. QED  BY <1>1, <1>2, <1>3, <1>4, <1>5, <1>8 DEF Rules!Next

LEMMA RulesStep ==
    ASSUME \A r, s \in RuledTeam.requests : r = s,
           part = "rules" => RuledInv, [OperationsNext]_operationsVars
    PROVE  /\ (part = "rules" => RuledInv)'
           /\ [part = "rules" => Rules!KeepsEnds]_operationsVars
<1>1. CASE part = "rules" /\ Rules!Next /\ UNCHANGED part
  BY <1>1, RulesSteps, EndsAreKept
<1>2. CASE UNCHANGED <<part, team, rule, alarm, tx>>
  BY <1>2, RulesAside DEF Rules!KeepsEnds
<1>3. CASE part # "rules" /\ UNCHANGED part
  BY <1>3
<1>4. QED  BY <1>1, <1>2, <1>3 DEF OperationsNext, operationsVars, teamVars

\* If requests do not overlap, a rule by schedule has one and nobody has two
\* emergencies open (visibility rules, emergency_event_service.py).
THEOREM TeamRulesHoldAlone ==
    ASSUME \A r, s \in RuledTeam.requests : r = s
    PROVE  OperationsSpec => []TeamRulesHold
<1> DEFINE Inv == part = "rules" => RuledInv
<1>1. OperationsInit => Inv
  BY RulesStart DEF OperationsInit
<1>2. Inv /\ [OperationsNext]_operationsVars => Inv'
  BY RulesStep
<1>3. Inv => TeamRulesHold
  BY DEF RuledInv, TeamRulesHold
<1>4. QED  BY <1>1, <1>2, <1>3, PTL DEF OperationsSpec

\* If requests do not overlap, a deleted team stays deleted and what ended an
\* emergency stands.
THEOREM EndsAreFinalAlone ==
    ASSUME \A r, s \in RuledTeam.requests : r = s
    PROVE  OperationsSpec => EndsAreFinal
<1> DEFINE Inv == part = "rules" => RuledInv
<1>1. OperationsInit => Inv
  BY RulesStart DEF OperationsInit
<1>2. Inv /\ [OperationsNext]_operationsVars =>
          Inv' /\ [part = "rules" => Rules!KeepsEnds]_operationsVars
  BY RulesStep
<1>3. QED  BY <1>1, <1>2, PTL DEF OperationsSpec, EndsAreFinal

=============================================================================
