---------------------------- MODULE Queues_proofs ------------------------------
(***************************************************************************)
(* The two queues at either end of the program.  EventBus, where events    *)
(* wait for the agents: no wake-up is lost and no producer's events change *)
(* order, for any number of producers, any queue size and any number of    *)
(* events.  AudioQueue, where calls wait for the driver's ear: the channel *)
(* is in order and no critical call is lost from it, for any messages,     *)
(* agents and subjects, any age and any number of ids it remembers.        *)
(***************************************************************************)
EXTENDS EventBus, AudioQueue, FiniteSetTheorems, WellFoundedInduction, TLAPS

(***************************************************************************)
(* The bus.                                                                *)
(***************************************************************************)
USE DEF producerVars, queueVars, loopVars

\* A consumer past the first statement of next_events() has bound its loop, so a
\* producer that delivers to it will schedule a wake-up.
BoundInside == pc # "away" => bound

WakeInv ==
  /\ scheduled \in Nat
  /\ at \in [Producers -> {"idle", "deliver", "wake"}]
  /\ BoundInside
  /\ NoLostWakeup

LEMMA WakeInit == Init => WakeInv
BY DEF Init, WakeInv, BoundInside, NoLostWakeup

LEMMA WakeStep == WakeInv /\ [Next]_vars => WakeInv'
<1> SUFFICES ASSUME WakeInv, [Next]_vars PROVE WakeInv'
  OBVIOUS
<1> USE DEF WakeInv, BoundInside, NoLostWakeup
<1>1. ASSUME NEW p \in Producers, Publish(p) PROVE WakeInv'
  BY <1>1 DEF Publish
<1>2. ASSUME NEW p \in Producers, Deliver(p) PROVE WakeInv'
  <2>1. CASE closed
    BY <1>2, <2>1 DEF Deliver
  <2>2. CASE ~closed
    <3>1. at'[p] = "wake"
      BY <1>2, <2>2 DEF Deliver
    <3> QED BY <1>2, <2>2, <3>1 DEF Deliver
  <2> QED BY <2>1, <2>2
<1>3. ASSUME NEW p \in Producers, Wake(p) PROVE WakeInv'
  <2>1. pc = "waiting" => scheduled' > 0
    BY <1>3 DEF Wake, NeedsWake
  <2> QED BY <1>3, <2>1 DEF Wake
<1>4. CASE RunCallback
  BY <1>4 DEF RunCallback
<1>5. CASE Call
  BY <1>5 DEF Call
<1>6. CASE FirstDrain
  BY <1>6 DEF FirstDrain
<1>7. CASE ClearWaiter
  BY <1>7 DEF ClearWaiter
<1>8. CASE Recheck
  BY <1>8 DEF Recheck, Drain
<1>9. CASE Woken \/ Timeout \/ Close
  BY <1>9 DEF Woken, Timeout, Close
<1>10. CASE UNCHANGED vars
  BY <1>10 DEF vars
<1> QED
  BY <1>1, <1>2, <1>3, <1>4, <1>5, <1>6, <1>7, <1>8, <1>9, <1>10 DEF Next, Consume

\* next_events() may be awaited without a timeout: whatever the producers do
\* between its two drains and its wait, a sleeping consumer with a queued event has
\* a wake-up under way.
THEOREM WakeupSafe == Spec => []NoLostWakeup
<1>1. WakeInv => NoLostWakeup
  BY DEF WakeInv
<1> QED BY <1>1, WakeInit, WakeStep, PTL DEF Spec
-------------------------------------------------------------------------------
(* OrderKept.  An event a producer has handed over carries a number its       *)
(* counter has reached; while the producer is still to deliver its current    *)
(* event, none with that number was.  Evicting the oldest event and draining  *)
(* the queue leave the order of what is left alone.                           *)

InOrder(s) == \A i, j \in DOMAIN s : i < j /\ s[i].from = s[j].from => s[i].n < s[j].n

Behind(e) == e.n <= sent[e.from] /\ (at[e.from] = "deliver" => e.n < sent[e.from])

HandedBehind ==
  /\ \A i \in DOMAIN taken : Behind(taken[i])
  /\ \A i \in DOMAIN queue : Behind(queue[i])

DeliversOne == \A p \in Producers : at[p] = "deliver" => sent[p] \in 1..MaxEvents

OrderInv == TypeOK /\ DeliversOne /\ HandedBehind /\ OrderKept

LEMMA OrderMeansInOrder == OrderKept <=> InOrder(taken \o queue)
BY DEF OrderKept, InOrder

LEMMA BoundedType ==
  ASSUME NEW s \in Seq(Events), NEW e \in Events, NEW cap \in Nat \ {0}, Len(s) <= cap
  PROVE  /\ AppendBounded(s, e, cap) \in Seq(Events)
         /\ Len(AppendBounded(s, e, cap)) <= cap
BY DEF AppendBounded

LEMMA InOrderAppend ==
  ASSUME NEW t \in Seq(Events), NEW q \in Seq(Events), NEW e \in Events, InOrder(t \o q),
         \A i \in DOMAIN t : t[i].from = e.from => t[i].n < e.n,
         \A i \in DOMAIN q : q[i].from = e.from => q[i].n < e.n
  PROVE  InOrder(t \o Append(q, e))
<1> DEFINE s == t \o q
<1> DEFINE r == t \o Append(q, e)
<1>1. s \in Seq(Events) /\ Len(s) = Len(t) + Len(q)
  OBVIOUS
<1>2. r \in Seq(Events) /\ Len(r) = Len(s) + 1
  OBVIOUS
<1>3. \A i \in 1..Len(s) : r[i] = s[i]
  OBVIOUS
<1>4. r[Len(s) + 1] = e
  OBVIOUS
<1>5. \A i \in 1..Len(s) : s[i].from = e.from => s[i].n < e.n
  OBVIOUS
<1> HIDE DEF s, r
<1>6. InOrder(r)
  <2> SUFFICES ASSUME NEW i \in DOMAIN r, NEW j \in DOMAIN r, i < j, r[i].from = r[j].from
               PROVE  r[i].n < r[j].n
    BY DEF InOrder
  <2>1. i \in 1..Len(s)
    BY <1>1, <1>2
  <2>2. CASE j = Len(s) + 1
    <3>1. r[j] = e /\ r[i] = s[i]
      BY <1>3, <1>4, <2>1, <2>2
    <3>2. s[i].from = e.from => s[i].n < e.n
      BY <1>5, <2>1
    <3> QED BY <3>1, <3>2
  <2>3. CASE j # Len(s) + 1
    <3>1. j \in 1..Len(s)
      <4>1. Len(s) \in Nat /\ j \in 1..(Len(s) + 1)
        BY <1>1, <1>2
      <4> QED BY <2>3, <4>1
    <3>2. InOrder(s)
      BY DEF s
    <3> QED BY <1>1, <1>3, <2>1, <3>1, <3>2 DEF InOrder
  <2> QED BY <2>2, <2>3
<1> QED BY <1>6 DEF r

LEMMA InOrderTail ==
  ASSUME NEW t \in Seq(Events), NEW q \in Seq(Events), q # << >>, InOrder(t \o q)
  PROVE  InOrder(t \o Tail(q))
<1> DEFINE s == t \o q
<1> DEFINE r == t \o Tail(q)
<1> DEFINE from(i) == IF i <= Len(t) THEN i ELSE i + 1
<1>1. s \in Seq(Events) /\ r \in Seq(Events) /\ Len(r) = Len(s) - 1 /\ Len(t) \in Nat
  OBVIOUS
<1>2. \A i \in 1..Len(r) : r[i] = s[from(i)]
  OBVIOUS
<1> HIDE DEF s, r
<1>3. InOrder(r)
  <2> SUFFICES ASSUME NEW i \in DOMAIN r, NEW j \in DOMAIN r, i < j, r[i].from = r[j].from
               PROVE  r[i].n < r[j].n
    BY DEF InOrder
  <2>1. from(i) \in DOMAIN s /\ from(j) \in DOMAIN s /\ from(i) < from(j)
    BY <1>1
  <2>2. i \in 1..Len(r) /\ j \in 1..Len(r)
    BY <1>1
  <2>3. InOrder(s)
    BY DEF s
  <2> HIDE DEF from
  <2>4. r[i] = s[from(i)] /\ r[j] = s[from(j)]
    BY <1>2, <2>2
  <2> QED BY <2>1, <2>3, <2>4 DEF InOrder
<1> QED BY <1>3 DEF r

LEMMA DeliverOrder ==
  ASSUME OrderInv, NEW p \in Producers, Deliver(p)
  PROVE  OrderInv'
<1>1. TypeOK /\ at[p] = "deliver" /\ sent[p] \in 1..MaxEvents
  BY DEF OrderInv, Deliver, DeliversOne
<1>2. Current(p) \in Events
  BY <1>1 DEF Current, Events
<1>3. UNCHANGED <<history, sent, closed, bound, waiter, scheduled, pc, taken>>
  BY DEF Deliver
<1>4. at' = [at EXCEPT ![p] = at'[p]] /\ at'[p] \in {"idle", "wake"}
  BY <1>1 DEF Deliver, TypeOK
<1>5. CASE closed
  <2>1. queue' = queue /\ dropped' = dropped
    BY <1>5 DEF Deliver
  <2>2. HandedBehind'
    <3>1. \A q \in Producers : at'[q] = "deliver" => at[q] = "deliver"
      BY <1>1, <1>4 DEF TypeOK
    <3>2. \A i \in DOMAIN taken : taken[i] \in Events
      BY <1>1 DEF TypeOK
    <3>3. \A i \in DOMAIN queue : queue[i] \in Events
      BY <1>1 DEF TypeOK
    <3>4. \A e \in Events : e.from \in Producers
      BY DEF Events
    <3> HIDE DEF Events
    <3>5. ASSUME NEW e \in Events, Behind(e) PROVE Behind(e)'
      <4>1. e.from \in Producers
        BY <3>4
      <4> QED BY <1>3, <3>1, <3>5, <4>1 DEF Behind
    <3>6. \A i \in DOMAIN taken : Behind(taken[i])'
      <4> SUFFICES ASSUME NEW i \in DOMAIN taken PROVE Behind(taken[i])'
        OBVIOUS
      <4>1. taken[i] \in Events /\ Behind(taken[i]) /\ taken' = taken
        BY <1>3, <3>2 DEF OrderInv, HandedBehind
      <4> QED BY <3>5, <4>1
    <3>7. \A i \in DOMAIN queue : Behind(queue[i])'
      <4> SUFFICES ASSUME NEW i \in DOMAIN queue PROVE Behind(queue[i])'
        OBVIOUS
      <4>1. queue[i] \in Events /\ Behind(queue[i]) /\ queue' = queue
        BY <2>1, <3>3 DEF OrderInv, HandedBehind
      <4> QED BY <3>5, <4>1
    <3> QED BY <1>3, <2>1, <3>6, <3>7 DEF HandedBehind
  <2>3. TypeOK' /\ DeliversOne'
    BY <1>1, <1>3, <1>4, <2>1 DEF OrderInv, TypeOK, DeliversOne
  <2>4. OrderKept'
    BY <1>3, <2>1 DEF OrderInv, OrderKept
  <2> QED BY <2>2, <2>3, <2>4 DEF OrderInv
<1>6. CASE ~closed
  <2>1. queue' = AppendBounded(queue, Current(p), QueueSize) /\ dropped' \in Nat
    BY <1>6, <1>1 DEF Deliver, TypeOK
  <2>2. queue' \in Seq(Events) /\ Len(queue') <= QueueSize
    BY <1>1, <1>2, <2>1, BoundedType, SizesAssumption DEF TypeOK
  <2>3. TypeOK' /\ DeliversOne'
    BY <1>1, <1>3, <1>4, <2>1, <2>2 DEF OrderInv, TypeOK, DeliversOne
  <2> DEFINE kept == IF Len(queue) < QueueSize THEN queue ELSE Tail(queue)
  <2>4. kept \in Seq(Events) /\ queue' = Append(kept, Current(p))
    <3>1. Len(queue) < QueueSize \/ queue # << >>
      BY SizesAssumption
    <3> QED BY <1>1, <2>1, <3>1 DEF AppendBounded, TypeOK
  <2>5. \A i \in DOMAIN kept : \E j \in DOMAIN queue : kept[i] = queue[j]
    <3>1. CASE Len(queue) < QueueSize
      BY <3>1
    <3>2. CASE ~(Len(queue) < QueueSize)
      <4>1. queue # << >> /\ queue \in Seq(Events) /\ kept = Tail(queue)
        BY <1>1, <3>2, SizesAssumption DEF TypeOK
      <4>2. \A i \in DOMAIN kept : i + 1 \in DOMAIN queue /\ kept[i] = queue[i + 1]
        BY <4>1
      <4> QED BY <4>2
    <3> QED BY <3>1, <3>2
  <2>6. InOrder(taken \o kept)
    <3>1. InOrder(taken \o queue)
      BY OrderMeansInOrder DEF OrderInv
    <3>2. CASE Len(queue) < QueueSize
      BY <3>1, <3>2
    <3>3. CASE ~(Len(queue) < QueueSize)
      <4>1. queue # << >> /\ kept = Tail(queue)
        BY <1>1, <3>3, SizesAssumption DEF TypeOK
      <4>2. queue \in Seq(Events) /\ taken \in Seq(Events)
        BY <1>1 DEF TypeOK
      <4> QED BY <3>1, <4>1, <4>2, InOrderTail
    <3> QED BY <3>2, <3>3
  <2> HIDE DEF kept
  <2>7. Current(p).from = p /\ Current(p).n = sent[p]
    BY DEF Current
  <2>8. \A i \in DOMAIN taken : taken[i].from = p => taken[i].n < sent[p]
    BY <1>1 DEF OrderInv, HandedBehind, Behind
  <2>9. \A i \in DOMAIN kept : kept[i].from = p => kept[i].n < sent[p]
    BY <1>1, <2>5 DEF OrderInv, HandedBehind, Behind
  <2>10. InOrder(taken \o Append(kept, Current(p)))
    <3>1. taken \in Seq(Events)
      BY <1>1 DEF TypeOK
    <3> QED BY <1>2, <2>4, <2>6, <2>7, <2>8, <2>9, <3>1, InOrderAppend
  <2>11. OrderKept'
    <3>1. taken' \o queue' = taken \o Append(kept, Current(p))
      BY <1>3, <2>4
    <3> QED BY <2>10, <3>1 DEF OrderKept, InOrder
  <2>12. ASSUME NEW e \in Events, Behind(e) PROVE Behind(e)'
    <3>1. at'[e.from] = "deliver" => at[e.from] = "deliver"
      BY <1>1, <1>4 DEF TypeOK, Events
    <3> QED BY <1>3, <2>12, <3>1 DEF Behind
  <2>13. Behind(Current(p))'
    <3>1. Current(p)' = Current(p)
      BY <1>3 DEF Current
    <3>2. at'[p] # "deliver" /\ sent'[p] = sent[p]
      BY <1>3, <1>4
    <3> QED BY <1>1, <2>7, <3>1, <3>2 DEF Behind
  <2>14. \A i \in DOMAIN queue' : Behind(queue[i])'
    <3> SUFFICES ASSUME NEW i \in DOMAIN queue' PROVE Behind(queue[i])'
      OBVIOUS
    <3>1. (i \in DOMAIN kept /\ queue'[i] = kept[i]) \/ queue'[i] = Current(p)
      BY <1>2, <2>4
    <3>2. CASE queue'[i] = Current(p)
      <4>1. Current(p)' = Current(p)
        BY <1>3 DEF Current
      <4> QED BY <2>13, <3>2, <4>1 DEF Behind
    <3>3. CASE i \in DOMAIN kept /\ queue'[i] = kept[i]
      <4>1. PICK j \in DOMAIN queue : kept[i] = queue[j]
        BY <2>5, <3>3
      <4>2. queue[j] \in Events
        BY <1>1 DEF TypeOK
      <4>3. Behind(queue[j])
        BY DEF OrderInv, HandedBehind
      <4>4. queue'[i] = queue[j]
        BY <3>3, <4>1
      <4>5. /\ queue[j].n <= sent'[queue[j].from]
            /\ at'[queue[j].from] = "deliver" => queue[j].n < sent'[queue[j].from]
        BY <2>12, <4>2, <4>3 DEF Behind
      <4> QED BY <4>4, <4>5 DEF Behind
    <3> QED BY <3>1, <3>2, <3>3
  <2>15. \A i \in DOMAIN taken' : Behind(taken[i])'
    <3> SUFFICES ASSUME NEW i \in DOMAIN taken PROVE Behind(taken[i])'
      BY <1>3
    <3>1. taken[i] \in Events
      BY <1>1 DEF TypeOK
    <3>2. Behind(taken[i])
      BY DEF OrderInv, HandedBehind
    <3>3. /\ taken[i].n <= sent'[taken[i].from]
          /\ at'[taken[i].from] = "deliver" => taken[i].n < sent'[taken[i].from]
      BY <2>12, <3>1, <3>2 DEF Behind
    <3> QED BY <1>3, <3>3 DEF Behind
  <2>16. HandedBehind'
    BY <2>14, <2>15 DEF HandedBehind
  <2> QED BY <2>3, <2>11, <2>16 DEF OrderInv
<1> QED BY <1>5, <1>6

LEMMA DrainOrder ==
  ASSUME OrderInv, Drain, UNCHANGED <<sent, at>>
  PROVE  /\ taken' \in Seq(Events) /\ queue' = << >>
         /\ HandedBehind' /\ OrderKept'
<1>1. taken \in Seq(Events) /\ queue \in Seq(Events) /\ taken' = taken \o queue /\ queue' = << >>
  BY DEF OrderInv, TypeOK, Drain
<1>2. taken' \in Seq(Events)
  BY <1>1
<1>3. taken' \o queue' = taken \o queue
  BY <1>1, <1>2
<1>4. OrderKept'
  BY <1>3 DEF OrderInv, OrderKept
<1>5. \A i \in DOMAIN taken' : \/ i \in DOMAIN taken /\ taken'[i] = taken[i]
                               \/ \E j \in DOMAIN queue : taken'[i] = queue[j]
  <2> SUFFICES ASSUME NEW i \in DOMAIN taken', i \notin DOMAIN taken
               PROVE  \E j \in DOMAIN queue : taken'[i] = queue[j]
    BY <1>1
  <2>1. i - Len(taken) \in DOMAIN queue /\ taken'[i] = queue[i - Len(taken)]
    BY <1>1, <1>2
  <2> QED BY <2>1
<1>6. HandedBehind'
  BY <1>1, <1>5 DEF OrderInv, HandedBehind, Behind
<1> QED BY <1>1, <1>2, <1>4, <1>6

LEMMA OrderStep == OrderInv /\ [Next]_vars => OrderInv'
<1> SUFFICES ASSUME OrderInv, [Next]_vars PROVE OrderInv'
  OBVIOUS
<1>1. ASSUME NEW p \in Producers, Publish(p) PROVE OrderInv'
  <2>1. TypeOK /\ sent[p] \in Nat /\ sent[p] < MaxEvents /\ at[p] = "idle"
    BY <1>1 DEF OrderInv, TypeOK, Publish
  <2>2. sent'[p] = sent[p] + 1 /\ \A q \in Producers \ {p} : sent'[q] = sent[q] /\ at'[q] = at[q]
    BY <1>1, <2>1 DEF Publish, TypeOK
  <2>3. sent' \in [Producers -> 0..MaxEvents] /\ at' \in [Producers -> {"idle", "deliver", "wake"}]
    BY <1>1, <2>1, SizesAssumption DEF Publish, TypeOK
  <2>4. [from |-> p, n |-> sent[p] + 1] \in Events
    BY <2>1, SizesAssumption DEF Events
  <2>5. history' \in Seq(Events) /\ Len(history') <= HistoryCap
    BY <1>1, <2>1, <2>4, BoundedType, SizesAssumption DEF Publish, TypeOK
  <2>6. UNCHANGED <<queue, dropped, closed, bound, waiter, scheduled, pc, taken>>
    BY <1>1 DEF Publish
  <2>7. TypeOK'
    BY <2>1, <2>3, <2>5, <2>6 DEF TypeOK
  <2>8. DeliversOne'
    BY <2>1, <2>2, SizesAssumption DEF OrderInv, DeliversOne
  <2>9. ASSUME NEW e \in Events, Behind(e) PROVE Behind(e)'
    <3>1. e.from \in Producers /\ e.n \in Int /\ sent[p] \in Int
      BY <2>1 DEF Events
    <3>2. CASE e.from = p
      BY <2>2, <2>9, <3>1, <3>2 DEF Behind
    <3>3. CASE e.from # p
      BY <2>2, <2>9, <3>1, <3>3 DEF Behind
    <3> QED BY <3>2, <3>3
  <2>10. \A i \in DOMAIN taken : taken[i] \in Events /\ Behind(taken[i])
    BY <2>1 DEF OrderInv, HandedBehind, TypeOK
  <2>11. \A i \in DOMAIN queue : queue[i] \in Events /\ Behind(queue[i])
    BY <2>1 DEF OrderInv, HandedBehind, TypeOK
  <2>12. HandedBehind'
    BY <2>6, <2>9, <2>10, <2>11 DEF HandedBehind, Behind
  <2> QED BY <2>6, <2>7, <2>8, <2>12 DEF OrderInv, OrderKept
<1>2. ASSUME NEW p \in Producers, Deliver(p) PROVE OrderInv'
  BY <1>2, DeliverOrder
<1>3. ASSUME NEW p \in Producers, Wake(p) PROVE OrderInv'
  <2>1. TypeOK' /\ \A q \in Producers : at'[q] = "deliver" => at[q] = "deliver"
    BY <1>3 DEF Wake, OrderInv, TypeOK
  <2>2. UNCHANGED <<sent, queue, taken>>
    BY <1>3 DEF Wake
  <2>3. \A i \in DOMAIN taken : taken[i].from \in Producers
    <3>1. \A i \in DOMAIN taken : taken[i] \in Events
      BY DEF OrderInv, TypeOK
    <3> QED BY <3>1 DEF Events
  <2>4. \A i \in DOMAIN queue : queue[i].from \in Producers
    <3>1. \A i \in DOMAIN queue : queue[i] \in Events
      BY DEF OrderInv, TypeOK
    <3> QED BY <3>1 DEF Events
  <2>5. HandedBehind'
    BY <2>1, <2>2, <2>3, <2>4 DEF OrderInv, HandedBehind, Behind
  <2> QED BY <2>1, <2>2, <2>5 DEF OrderInv, DeliversOne, OrderKept
<1>4. ASSUME Drain, UNCHANGED <<history, sent, at, dropped, closed, bound, waiter, scheduled>>,
             pc' \in {"away", "clear", "waiting"}
      PROVE  OrderInv'
  <2>1. taken' \in Seq(Events) /\ queue' = << >> /\ HandedBehind' /\ OrderKept'
    BY <1>4, DrainOrder
  <2> QED BY <1>4, <2>1, SizesAssumption DEF OrderInv, TypeOK, DeliversOne
<1>5. CASE FirstDrain
  BY <1>4, <1>5 DEF FirstDrain
<1>6. CASE Recheck
  BY <1>4, <1>6 DEF Recheck
<1>7. CASE Woken
  BY <1>4, <1>7 DEF Woken
<1>8. ASSUME TypeOK', UNCHANGED <<sent, at, queue, taken>> PROVE OrderInv'
  BY <1>8 DEF OrderInv, DeliversOne, HandedBehind, Behind, OrderKept
<1>9. CASE RunCallback
  BY <1>8, <1>9 DEF RunCallback, OrderInv, TypeOK
<1>10. CASE Call \/ ClearWaiter \/ Timeout
  BY <1>8, <1>10 DEF Call, ClearWaiter, Timeout, OrderInv, TypeOK
<1>11. CASE Close
  <2>1. UNCHANGED <<sent, at, taken>> /\ queue' = << >>
    BY <1>11 DEF Close
  <2>2. TypeOK'
    BY <1>11, SizesAssumption DEF Close, OrderInv, TypeOK
  <2>3. HandedBehind'
    BY <2>1 DEF OrderInv, HandedBehind, Behind
  <2>4. taken \in Seq(Events) /\ queue \in Seq(Events)
    BY DEF OrderInv, TypeOK
  <2>5. taken' \o queue' = taken
    BY <2>1, <2>4
  <2>6. InOrder(taken)
    <3>1. \A i \in DOMAIN taken : i \in DOMAIN (taken \o queue) /\ (taken \o queue)[i] = taken[i]
      BY <2>4
    <3> QED BY <3>1, OrderMeansInOrder DEF OrderInv, InOrder
  <2>7. OrderKept'
    BY <2>5, <2>6 DEF OrderKept, InOrder
  <2> QED BY <2>1, <2>2, <2>3, <2>7 DEF OrderInv, DeliversOne
<1>12. CASE UNCHANGED vars
  BY <1>8, <1>12 DEF vars, OrderInv, TypeOK
<1> QED
  BY <1>1, <1>2, <1>3, <1>5, <1>6, <1>7, <1>9, <1>10, <1>11, <1>12 DEF Next, Consume

LEMMA OrderInit == Init => OrderInv
<1> SUFFICES ASSUME Init PROVE OrderInv
  OBVIOUS
<1>1. TypeOK
  <2>1. sent \in [Producers -> 0..MaxEvents] /\ at \in [Producers -> {"idle", "deliver", "wake"}]
    BY SizesAssumption DEF Init
  <2>2. history \in Seq(Events) /\ queue \in Seq(Events) /\ taken \in Seq(Events)
    BY DEF Init
  <2>3. Len(history) <= HistoryCap /\ Len(queue) <= QueueSize
    BY SizesAssumption DEF Init
  <2> QED BY <2>1, <2>2, <2>3 DEF Init, TypeOK
<1>2. taken \o queue = << >>
  BY DEF Init
<1> QED BY <1>1, <1>2 DEF Init, OrderInv, DeliversOne, HandedBehind, OrderKept

\* What one producer publishes reaches the consumer in that order and once,
\* however producers interleave and however often a full queue loses its oldest.
THEOREM OrderSafe == Spec => []OrderKept
<1>1. OrderInv => OrderKept
  BY DEF OrderInv
<1> QED BY <1>1, OrderInit, OrderStep, PTL DEF Spec

\* Every reachable state of a subscription is well typed: the ring buffer and the
\* queue never outgrow their sizes.
THEOREM TypeCorrect == Spec => []TypeOK
<1>1. OrderInv => TypeOK
  BY DEF OrderInv
<1> QED BY <1>1, OrderInit, OrderStep, PTL DEF Spec
-------------------------------------------------------------------------------
(***************************************************************************)
(* The desktop's queue: positions.                                         *)
(***************************************************************************)
LEMMA Least ==
  ASSUME NEW T, T \subseteq Nat, T # {}
  PROVE  \E i \in T : \A j \in T : i <= j
<1>1. PICK i \in T : \A j \in T : ~(<<j, i>> \in OpToRel(<, Nat))
  BY WFMin, NatLessThanWellFounded
<1>2. ASSUME NEW j \in T PROVE i <= j
  <2>1. i \in Nat /\ j \in Nat
    BY <1>1, <1>2
  <2>2. ~(<<j, i>> \in OpToRel(<, Nat))
    BY <1>1, <1>2
  <2>3. ~(j < i)
    BY <2>1, <2>2 DEF OpToRel
  <2> QED BY <2>1, <2>3
<1> QED BY <1>2

\* What holds of a sequence's entries up to some place holds of the first ones.
LEMMA FirstOnes ==
  ASSUME NEW n \in Nat, NEW T, T \subseteq 1..n,
         \A i \in T, j \in 1..n : j < i => j \in T
  PROVE  /\ Cardinality(T) \in 0..n
         /\ T = 1..Cardinality(T)
<1> DEFINE out == {i \in 1..(n + 1) : i \notin T}
<1>1. n + 1 \in out
  OBVIOUS
<1>2. PICK k \in out : \A j \in out : k <= j
  <2>1. out \subseteq Nat /\ out # {}
    BY <1>1
  <2> HIDE DEF out
  <2> QED BY <2>1, Least
<1>3. T = 1..(k - 1)
  <2>1. ASSUME NEW i \in 1..(k - 1) PROVE i \in T
    BY <1>2, <2>1
  <2>2. ASSUME NEW i \in T PROVE i \in 1..(k - 1)
    <3>1. i \in 1..n /\ k \in 1..(n + 1) /\ k \notin T
      BY <1>2, <2>2
    <3>2. ~(i >= k)
      BY <2>2, <3>1
    <3> QED BY <3>1, <3>2
  <2> QED BY <2>1, <2>2
<1>4. k - 1 \in 0..n
  BY <1>2
<1>5. Cardinality(1..(k - 1)) = k - 1
  BY <1>4, FS_Interval
<1> QED BY <1>3, <1>4, <1>5

\* The entries of a finite set of positions, numbered by how many are ahead.
LEMMA Counted ==
  ASSUME NEW n \in Nat, NEW T, T \subseteq 1..n
  PROVE  /\ IsFiniteSet(T) /\ Cardinality(T) \in Nat
         /\ \A k \in 1..Cardinality(T) :
              \E i \in T : Cardinality({j \in T : j < i}) = k - 1
         /\ \A i \in T : Cardinality({j \in T : j < i}) \in 0..(Cardinality(T) - 1)
         /\ \A i, l \in T : i < l =>
              Cardinality({j \in T : j < i}) < Cardinality({j \in T : j < l})
<1> DEFINE Ahead(i) == {j \in T : j < i}
           c == Cardinality(T)
           place == [i \in T |-> Cardinality(Ahead(i)) + 1]
<1>1. IsFiniteSet(T) /\ c \in Nat
  <2>1. IsFiniteSet(1..n)
    BY FS_Interval
  <2>2. IsFiniteSet(T)
    BY <2>1, FS_Subset
  <2> QED BY <2>2, FS_CardinalityType
<1>2. ASSUME NEW i \in T
      PROVE  /\ IsFiniteSet(Ahead(i)) /\ Cardinality(Ahead(i)) \in Nat
             /\ Cardinality(Ahead(i)) < c
  <2>1. Ahead(i) \subseteq T /\ i \notin Ahead(i)
    OBVIOUS
  <2> HIDE DEF Ahead, c
  <2>2. IsFiniteSet(Ahead(i)) /\ Cardinality(Ahead(i)) \in Nat
    BY <1>1, <2>1, FS_Subset, FS_CardinalityType
  <2>3. Cardinality(Ahead(i)) <= c /\ Cardinality(Ahead(i)) # c
    BY <1>1, <2>1, FS_Subset DEF c
  <2> QED BY <1>1, <2>2, <2>3
<1>3. ASSUME NEW i \in T, NEW l \in T, i < l
      PROVE  Cardinality(Ahead(i)) < Cardinality(Ahead(l))
  <2>1. Ahead(i) \subseteq Ahead(l) /\ i \in Ahead(l) /\ i \notin Ahead(i)
    <3>1. i \in Int /\ l \in Int /\ \A j \in T : j \in Int
      OBVIOUS
    <3>2. \A j \in T : j < i => j < l
      BY <1>3, <3>1
    <3>3. i \in Ahead(l) /\ i \notin Ahead(i)
      BY <1>3, <3>1
    <3> QED BY <3>2, <3>3
  <2> HIDE DEF Ahead
  <2>2. /\ Cardinality(Ahead(i)) <= Cardinality(Ahead(l))
        /\ Cardinality(Ahead(i)) # Cardinality(Ahead(l))
    BY <1>2, <2>1, FS_Subset
  <2> QED BY <1>2, <2>2
<1> HIDE DEF Ahead, c
<1>4. place \in Injection(T, 1..c)
  <2>1. place \in [T -> 1..c]
    BY <1>1, <1>2
  <2>2. ASSUME NEW i \in T, NEW l \in T, i # l PROVE place[i] # place[l]
    <3>1. i < l \/ l < i
      BY <2>2
    <3> QED BY <1>2, <1>3, <3>1
  <2> HIDE DEF place
  <2> QED BY <2>1, <2>2 DEF Injection, IsInjective
<1>5. place \in Surjection(T, 1..c)
  <2>1. IsFiniteSet(1..c) /\ Cardinality(1..c) = c
    BY <1>1, FS_Interval
  <2> HIDE DEF place
  <2> QED BY <1>4, <2>1, FS_Injection DEF c
<1>6. ASSUME NEW k \in 1..c PROVE \E i \in T : Cardinality(Ahead(i)) = k - 1
  <2>1. PICK i \in T : place[i] = k
    <3> HIDE DEF place
    <3> QED BY <1>5, <1>6 DEF Surjection
  <2> QED BY <1>1, <1>2, <1>6, <2>1
<1>7. \A i \in T : Cardinality(Ahead(i)) \in 0..(c - 1)
  BY <1>1, <1>2
<1> QED BY <1>1, <1>3, <1>6, <1>7 DEF Ahead, c
-------------------------------------------------------------------------------
(***************************************************************************)
(* The queue.  Within: what is left of a queue, in its order.              *)
(***************************************************************************)
Queues == Seq(Entries)

InLine(q) ==
  \A i, j \in 1..Len(q) : i < j =>
    /\ q[i].msg # q[j].msg
    /\ ~Replaces(q[j].msg, q[i].msg)
    /\ Rank(q[i].msg) <= Rank(q[j].msg)

Within(new, q) ==
  \E f \in [1..Len(new) -> 1..Len(q)] :
    /\ \A k, l \in 1..Len(new) : k < l => f[k] < f[l]
    /\ \A k \in 1..Len(new) : new[k].msg = q[f[k]].msg

\* The critical calls of a queue are in what is left of it.
KeepsCriticals(new, q) ==
  \A i \in 1..Len(q) : Critical(q[i].msg) =>
    \E k \in 1..Len(new) : new[k].msg = q[i].msg

LEMMA LeftInOrder ==
  ASSUME NEW new \in Queues, NEW q \in Queues, Within(new, q), InLine(q)
  PROVE  /\ InLine(new)
         /\ q = <<>> => new = <<>>
         /\ \A k \in 1..Len(new) : \E i \in 1..Len(q) : new[k].msg = q[i].msg
<1>1. PICK f \in [1..Len(new) -> 1..Len(q)] :
        /\ \A k, l \in 1..Len(new) : k < l => f[k] < f[l]
        /\ \A k \in 1..Len(new) : new[k].msg = q[f[k]].msg
  BY DEF Within
<1>2. InLine(new)
  BY <1>1 DEF InLine
<1>3. ASSUME q = <<>> PROVE new = <<>>
  <2>1. \A k \in 1..Len(new) : f[k] \in 1..Len(q)
    BY <1>1
  <2>2. Len(q) = 0
    BY <1>3
  <2>3. Len(new) \in Nat /\ ~(1 \in 1..Len(new))
    BY <2>1, <2>2 DEF Queues
  <2>4. Len(new) = 0
    BY <2>3
  <2> QED BY <2>4 DEF Queues
<1>4. \A k \in 1..Len(new) : f[k] \in 1..Len(q) /\ new[k].msg = q[f[k]].msg
  BY <1>1
<1> QED BY <1>2, <1>3, <1>4

LEMMA LeftOfLeft ==
  ASSUME NEW new \in Queues, NEW mid \in Queues, NEW q \in Queues,
         Within(new, mid), Within(mid, q)
  PROVE  Within(new, q)
<1>1. PICK f \in [1..Len(new) -> 1..Len(mid)] :
        /\ \A k, l \in 1..Len(new) : k < l => f[k] < f[l]
        /\ \A k \in 1..Len(new) : new[k].msg = mid[f[k]].msg
  BY DEF Within
<1>2. PICK g \in [1..Len(mid) -> 1..Len(q)] :
        /\ \A k, l \in 1..Len(mid) : k < l => g[k] < g[l]
        /\ \A k \in 1..Len(mid) : mid[k].msg = q[g[k]].msg
  BY DEF Within
<1> DEFINE h == [k \in 1..Len(new) |-> g[f[k]]]
<1>3. h \in [1..Len(new) -> 1..Len(q)]
  BY <1>1, <1>2
<1>4. \A k, l \in 1..Len(new) : k < l => h[k] < h[l]
  BY <1>1, <1>2
<1>5. \A k \in 1..Len(new) : new[k].msg = q[h[k]].msg
  BY <1>1, <1>2
<1> HIDE DEF h
<1> QED BY <1>3, <1>4, <1>5 DEF Within

LEMMA WholeIsWithin == ASSUME NEW q \in Queues PROVE Within(q, q)
<1> DEFINE f == [k \in 1..Len(q) |-> k]
<1>1. f \in [1..Len(q) -> 1..Len(q)] /\ \A k \in 1..Len(q) : f[k] = k
  OBVIOUS
<1> HIDE DEF f
<1> QED BY <1>1 DEF Within

LEMMA FreshFacts ==
  ASSUME NEW q \in Queues
  PROVE  /\ Fresh(q) \in Queues /\ Within(Fresh(q), q)
         /\ KeepsCriticals(Fresh(q), q)
<1> DEFINE n == Len(q)
           kept == {i \in 1..n : PriorityOf[q[i].msg] = "info" => q[i].age <= StaleAfter}
           c == Cardinality(kept)
           Ahead(i) == Cardinality({j \in kept : j < i})
           f == [k \in 1..c |-> CHOOSE i \in kept : Ahead(i) = k - 1]
           new == Fresh(q)
<1>1. n \in Nat /\ kept \subseteq 1..n /\ \A i \in kept : i \in Int
  BY DEF Queues
<1>2. new = [k \in 1..c |-> q[f[k]]]
  BY DEF Fresh
<1> HIDE DEF kept, new
<1>3. /\ c \in Nat
      /\ \A k \in 1..c : \E i \in kept : Ahead(i) = k - 1
      /\ \A i, l \in kept : i < l => Ahead(i) < Ahead(l)
  BY <1>1, Counted
<1>4. \A k \in 1..c : f[k] \in kept /\ Ahead(f[k]) = k - 1
  BY <1>3
<1>5. f \in [1..c -> kept]
  BY <1>4
<1> HIDE DEF f, c, Ahead
<1>6. ASSUME NEW k \in 1..c, NEW l \in 1..c, k < l PROVE f[k] < f[l]
  <2>0. f[k] \in kept /\ f[l] \in kept
    BY <1>4
  <2>1. f[k] \in Int /\ f[l] \in Int
    BY <1>1, <2>0
  <2>2. Ahead(f[k]) = k - 1 /\ Ahead(f[l]) = l - 1
    BY <1>4
  <2>3. CASE f[l] = f[k]
    BY <1>6, <2>2, <2>3
  <2>4. CASE f[l] < f[k]
    <3>1. Ahead(f[l]) < Ahead(f[k])
      BY <1>3, <2>0, <2>4
    <3> QED BY <1>3, <1>6, <2>2, <3>1
  <2> QED BY <2>1, <2>3, <2>4
<1>7. \A k \in 1..c : f[k] \in 1..n
  BY <1>1, <1>4
<1>8. new \in Queues /\ Len(new) = c
  <2>1. \A k \in 1..c : q[f[k]] \in Entries
    BY <1>7 DEF Queues
  <2>2. new \in [1..c -> Entries]
    BY <1>2, <2>1
  <2> QED BY <1>3, <2>2 DEF Queues
<1>9. Within(new, q)
  <2>1. f \in [1..Len(new) -> 1..Len(q)]
    BY <1>5, <1>7, <1>8
  <2> QED BY <1>2, <1>6, <1>8, <2>1 DEF Within
<1>10. KeepsCriticals(new, q)
  <2> SUFFICES ASSUME NEW i \in 1..n, Critical(q[i].msg)
               PROVE  \E k \in 1..c : new[k].msg = q[i].msg
    BY <1>8 DEF KeepsCriticals
  <2>1. i \in kept
    BY DEF Critical, kept
  <2>2. \E k \in 1..c : f[k] = i
    <3>1. Ahead(i) \in 0..(c - 1)
      BY <1>1, <2>1, Counted DEF Ahead, c
    <3>2. f[Ahead(i) + 1] \in kept /\ Ahead(f[Ahead(i) + 1]) = Ahead(i) /\ Ahead(i) + 1 \in 1..c
      BY <1>3, <1>4, <3>1
    <3> DEFINE l == f[Ahead(i) + 1]
    <3>3. l \in kept /\ Ahead(l) = Ahead(i)
      BY <3>2
    <3> HIDE DEF l
    <3>6. l \in Int /\ i \in Int
      BY <1>1, <2>1, <3>3
    <3>4. ~(i < l) /\ ~(l < i)
      BY <1>3, <2>1, <3>1, <3>3
    <3>5. l = i
      BY <3>4, <3>6
    <3> QED BY <3>2, <3>5 DEF l
  <2> QED BY <1>2, <2>2
<1> QED BY <1>8, <1>9, <1>10 DEF new

\* A call replaces one that waits at most, and never a critical one.
LEMMA SupersededFacts ==
  ASSUME NEW q \in Queues, InLine(q), NEW m
  PROVE  /\ Superseded(q, m) \in Queues /\ Within(Superseded(q, m), q)
         /\ KeepsCriticals(Superseded(q, m), q)
         /\ \A k \in 1..Len(Superseded(q, m)) :
              ~Replaces(m, Superseded(q, m)[k].msg)
<1> DEFINE n == Len(q)
           hits == {i \in 1..n : Replaces(m, q[i].msg)}
           first == CHOOSE i \in hits : \A j \in hits : i <= j
           new == Superseded(q, m)
<1>1. n \in Nat
  BY DEF Queues
<1>2. CASE hits = {}
  <2>1. new = q
    BY <1>2 DEF Superseded
  <2>2. Within(new, q)
    BY <2>1, WholeIsWithin
  <2>3. KeepsCriticals(new, q)
    BY <2>1 DEF KeepsCriticals
  <2>4. \A k \in 1..n : ~Replaces(m, q[k].msg)
    BY <1>2
  <2> HIDE DEF new
  <2> QED BY <2>1, <2>2, <2>3, <2>4 DEF new
<1>3. CASE hits # {}
  <2>1. PICK i \in hits : TRUE
    BY <1>3
  <2>2. hits = {i} /\ i \in 1..n
    <3>1. ASSUME NEW j \in hits, j # i PROVE FALSE
      <4>1. /\ i \in 1..n /\ j \in 1..n /\ (i < j \/ j < i)
            /\ Replaces(m, q[i].msg) /\ Replaces(m, q[j].msg)
        BY <1>1, <2>1, <3>1
      <4>2. Replaces(q[j].msg, q[i].msg) /\ Replaces(q[i].msg, q[j].msg)
        BY <4>1 DEF Replaces
      <4> QED BY <4>1, <4>2 DEF InLine
    <3> QED BY <2>1, <3>1
  <2>3. first = i
    BY <1>1, <2>2
  <2> HIDE DEF first
  <2>4. new = SubSeq(q, 1, i - 1) \o SubSeq(q, i + 1, Len(q))
    BY <1>3, <2>3 DEF Superseded, first
  <2>5. /\ new \in Queues /\ Len(new) = n - 1
        /\ \A k \in 1..(n - 1) : new[k] = q[IF k < i THEN k ELSE k + 1]
    <3> DEFINE head == SubSeq(q, 1, i - 1)
               rest == SubSeq(q, i + 1, Len(q))
    <3>1. q \in Seq(Entries) /\ i \in 1..n /\ n \in Nat
      BY <1>1, <2>2 DEF Queues
    <3>2. /\ head \in Seq(Entries) /\ Len(head) = i - 1
          /\ \A k \in 1..(i - 1) : head[k] = q[k]
      BY <3>1
    <3>3. /\ rest \in Seq(Entries) /\ Len(rest) = n - i
          /\ \A k \in 1..(n - i) : rest[k] = q[i + k]
      BY <3>1
    <3>4. new = head \o rest
      BY <2>4
    <3> HIDE DEF hits, new, head, rest, n
    <3>5. new \in Seq(Entries) /\ Len(new) = n - 1
      <4>1. new \in Seq(Entries) /\ Len(new) = Len(head) + Len(rest)
        <5>1. head \in Seq(Entries) /\ rest \in Seq(Entries)
          BY <3>2, <3>3
        <5> QED BY <3>4, <5>1
      <4> QED BY <3>1, <3>2, <3>3, <4>1
    <3>6. ASSUME NEW k \in 1..(n - 1) PROVE new[k] = q[IF k < i THEN k ELSE k + 1]
      <4>1. CASE k < i
        <5>1. k \in 1..(i - 1)
          BY <3>1, <4>1
        <5>2. new[k] = head[k]
          BY <3>2, <3>3, <3>4, <5>1
        <5> QED BY <3>2, <4>1, <5>1, <5>2
      <4>2. CASE k >= i
        <5>1. k - (i - 1) \in 1..(n - i) /\ i + (k - (i - 1)) = k + 1
          BY <3>1, <4>2
        <5>2. new[k] = rest[k - (i - 1)]
          BY <3>1, <3>2, <3>3, <3>4, <4>2
        <5> QED BY <3>1, <3>3, <4>2, <5>1, <5>2
      <4> QED BY <3>1, <4>1, <4>2
    <3> QED BY <3>5, <3>6 DEF Queues
  <2> HIDE DEF hits, new
  <2>6. Within(new, q)
    <3> DEFINE f == [k \in 1..(n - 1) |-> IF k < i THEN k ELSE k + 1]
    <3>1. f \in [1..Len(new) -> 1..n]
      BY <1>1, <2>2, <2>5
    <3>2. \A k, l \in 1..Len(new) : k < l => f[k] < f[l]
      BY <1>1, <2>2, <2>5
    <3>3. \A k \in 1..Len(new) : new[k].msg = q[f[k]].msg
      BY <1>1, <2>5
    <3> HIDE DEF f
    <3> QED BY <3>1, <3>2, <3>3 DEF Within
  <2>7. KeepsCriticals(new, q)
    <3> SUFFICES ASSUME NEW j \in 1..n, Critical(q[j].msg)
                 PROVE  \E k \in 1..(n - 1) : new[k].msg = q[j].msg
      BY <2>5 DEF KeepsCriticals
    <3>1. j # i
      BY <2>2 DEF Replaces, hits
    <3>2. CASE j < i
      BY <1>1, <2>2, <2>5, <3>2
    <3>3. CASE j > i
      <4>1. j - 1 \in 1..(n - 1) /\ ~(j - 1 < i) /\ (j - 1) + 1 = j
        BY <1>1, <2>2, <3>3
      <4> QED BY <2>5, <4>1
    <3> QED BY <1>1, <2>2, <3>1, <3>2, <3>3
  <2>8. ASSUME NEW k \in 1..Len(new) PROVE ~Replaces(m, new[k].msg)
    <3> DEFINE j == IF k < i THEN k ELSE k + 1
    <3>1. j \in 1..n /\ j # i /\ new[k] = q[j]
      BY <1>1, <2>2, <2>5
    <3> QED BY <2>2, <3>1 DEF hits
  <2> QED BY <2>5, <2>6, <2>7, <2>8 DEF new
<1> QED BY <1>2, <1>3

\* A call that is not in the queue and replaces nothing there goes to its place.
LEMMA InsertedFacts ==
  ASSUME NEW q \in Queues, InLine(q), NEW e \in Entries,
         \A i \in 1..Len(q) : q[i].msg # e.msg /\ ~Replaces(e.msg, q[i].msg)
  PROVE  /\ Inserted(q, e) \in Queues /\ InLine(Inserted(q, e))
         /\ KeepsCriticals(Inserted(q, e), q)
         /\ \A k \in 1..Len(Inserted(q, e)) :
              \/ Inserted(q, e)[k].msg = e.msg
              \/ \E i \in 1..Len(q) : Inserted(q, e)[k].msg = q[i].msg
         /\ \E k \in 1..Len(Inserted(q, e)) : Inserted(q, e)[k].msg = e.msg
<1> DEFINE n == Len(q)
           before == {i \in 1..n : Rank(q[i].msg) <= Rank(e.msg)}
           here == Cardinality(before)
           new == Inserted(q, e)
           Place(i) == IF i <= here THEN i ELSE i + 1
           From(k) == IF k <= here THEN k ELSE k - 1
<1>1. n \in Nat /\ q \in Seq(Entries) /\ \A i \in 1..n : Rank(q[i].msg) \in Int
  BY DEF Queues, Rank
<1>2. Rank(e.msg) \in Int
  BY DEF Rank
<1>3. here \in 0..n /\ before = 1..here
  <2>1. before \subseteq 1..n
    OBVIOUS
  <2>2. ASSUME NEW i \in before, NEW j \in 1..n, j < i PROVE j \in before
    <3>1. Rank(q[j].msg) <= Rank(q[i].msg)
      BY <2>2 DEF InLine
    <3> QED BY <1>1, <1>2, <2>2, <3>1
  <2> HIDE DEF before
  <2> QED BY <1>1, <2>1, <2>2, FirstOnes
<1>4. \A i \in 1..n : IF i <= here THEN Rank(q[i].msg) <= Rank(e.msg)
                      ELSE Rank(e.msg) <= Rank(q[i].msg)
  BY <1>1, <1>2, <1>3
<1>5. new = SubSeq(q, 1, here) \o <<e>> \o SubSeq(q, here + 1, n)
  BY DEF Inserted
<1> HIDE DEF here, new, before
<1>6. /\ new \in Queues /\ Len(new) = n + 1 /\ new[here + 1] = e
      /\ \A k \in 1..(n + 1) : k # here + 1 => new[k] = q[From(k)]
  <2>1. /\ SubSeq(q, 1, here) \in Seq(Entries) /\ Len(SubSeq(q, 1, here)) = here
        /\ \A k \in 1..here : SubSeq(q, 1, here)[k] = q[k]
    BY <1>1, <1>3
  <2>2. /\ SubSeq(q, here + 1, n) \in Seq(Entries) /\ Len(SubSeq(q, here + 1, n)) = n - here
        /\ \A k \in 1..(n - here) : SubSeq(q, here + 1, n)[k] = q[here + k]
    BY <1>1, <1>3
  <2> DEFINE head == SubSeq(q, 1, here) \o <<e>>
  <2>3. /\ head \in Seq(Entries) /\ Len(head) = here + 1 /\ head[here + 1] = e
        /\ \A k \in 1..here : head[k] = q[k]
    BY <1>3, <2>1
  <2>4. new = head \o SubSeq(q, here + 1, n)
    BY <1>5
  <2> HIDE DEF head
  <2>5. new \in Seq(Entries) /\ Len(new) = n + 1 /\ new[here + 1] = e
    BY <1>1, <1>3, <2>2, <2>3, <2>4
  <2>6. ASSUME NEW k \in 1..(n + 1), k # here + 1 PROVE new[k] = q[From(k)]
    <3>1. CASE k <= here
      BY <1>1, <1>3, <2>2, <2>3, <2>4, <3>1
    <3>2. CASE k > here + 1
      <4>1. k - (here + 1) \in 1..(n - here) /\ here + (k - (here + 1)) = k - 1
        BY <1>1, <1>3, <3>2
      <4>2. new[k] = SubSeq(q, here + 1, n)[k - (here + 1)]
        BY <1>1, <1>3, <2>2, <2>3, <2>4, <3>2
      <4>3. SubSeq(q, here + 1, n)[k - (here + 1)] = q[here + (k - (here + 1))]
        BY <2>2, <4>1
      <4>4. From(k) = k - 1
        BY <1>3, <3>2
      <4> QED BY <4>1, <4>2, <4>3, <4>4
    <3> QED BY <1>1, <1>3, <2>6, <3>1, <3>2
  <2> QED BY <2>5, <2>6 DEF Queues
<1>7. \A k \in 1..(n + 1) : k # here + 1 => From(k) \in 1..n
  BY <1>1, <1>3
<1>8. InLine(new)
  <2> SUFFICES ASSUME NEW i \in 1..(n + 1), NEW j \in 1..(n + 1), i < j
               PROVE  /\ new[i].msg # new[j].msg /\ ~Replaces(new[j].msg, new[i].msg)
                      /\ Rank(new[i].msg) <= Rank(new[j].msg)
    BY <1>6 DEF InLine
  <2>1. CASE i # here + 1 /\ j # here + 1
    <3>1. From(i) < From(j) /\ From(i) \in 1..n /\ From(j) \in 1..n
      BY <1>1, <1>3, <1>7, <2>1
    <3>2. new[i] = q[From(i)] /\ new[j] = q[From(j)]
      BY <1>6, <2>1
    <3> HIDE DEF From
    <3> QED BY <3>1, <3>2 DEF InLine
  <2>2. CASE i = here + 1
    <3>1. From(j) \in 1..n /\ From(j) > here /\ new[j] = q[From(j)] /\ new[i] = e
      BY <1>1, <1>3, <1>6, <1>7, <2>2
    <3>2. Rank(e.msg) <= Rank(q[From(j)].msg)
      BY <1>3, <1>4, <3>1
    <3>3. ~Replaces(q[From(j)].msg, e.msg)
      BY <3>1 DEF Replaces
    <3> QED BY <3>1, <3>2, <3>3
  <2>3. CASE j = here + 1
    <3>1. From(i) \in 1..n /\ From(i) <= here /\ new[i] = q[From(i)] /\ new[j] = e
      BY <1>1, <1>3, <1>6, <1>7, <2>3
    <3>2. Rank(q[From(i)].msg) <= Rank(e.msg)
      BY <1>3, <1>4, <3>1
    <3> QED BY <3>1, <3>2
  <2> QED BY <2>1, <2>2, <2>3
<1>9. ASSUME NEW i \in 1..n PROVE \E k \in 1..(n + 1) : new[k].msg = q[i].msg
  <2>1. Place(i) \in 1..(n + 1) /\ Place(i) # here + 1 /\ From(Place(i)) = i
    BY <1>1, <1>3
  <2> QED BY <1>6, <2>1
<1>10. KeepsCriticals(new, q)
  BY <1>6, <1>9 DEF KeepsCriticals
<1>11. \A k \in 1..(n + 1) : new[k].msg = e.msg \/ \E i \in 1..n : new[k].msg = q[i].msg
  BY <1>6, <1>7
<1>12. here + 1 \in 1..(n + 1)
  BY <1>1, <1>3
<1> QED BY <1>6, <1>8, <1>10, <1>11, <1>12 DEF new
-------------------------------------------------------------------------------
(***************************************************************************)
(* The channel.  It is loose between a call's end and the next one's start.*)
(***************************************************************************)
Channels == [queue : Queues, current : Messages \cup {NoMessage},
             saying : Messages \cup {NoMessage}, posted : SUBSET Messages]

On(ch, m) == ch.current = m \/ \E i \in 1..Len(ch.queue) : ch.queue[i].msg = m

Loose(ch) ==
  /\ ch \in Channels /\ InLine(ch.queue)
  /\ \A i \in 1..Len(ch.queue) : ch.queue[i].msg # ch.current

Sound(ch) == Loose(ch) /\ (ch.current = NoMessage => ch.queue = <<>>)

LEMMA StartedFacts ==
  ASSUME NEW ch \in Channels, InLine(ch.queue), engine \in BOOLEAN,
         NEW m \in Messages,
         \A i \in 1..Len(ch.queue) : ch.queue[i].msg # m
  PROVE  /\ Sound(Started(ch, m)) /\ Started(ch, m).queue = ch.queue
         /\ Started(ch, m).current = m
<1> DEFINE posted == IF engine THEN ch.posted ELSE ch.posted \cup {m}
           new == Started(ch, m)
<1>1. posted \in SUBSET Messages
  BY DEF Channels
<1>2. new = [ch EXCEPT !.current = m, !.saying = m, !.posted = posted]
  BY DEF Started
<1> HIDE DEF posted, new
<1>3. new \in Channels /\ new.queue = ch.queue /\ new.current = m
  BY <1>1, <1>2 DEF Channels
<1>4. m # NoMessage
  BY MessagesAssumption, LimitsAssumption
<1> QED BY <1>3, <1>4 DEF Sound, Loose, new

LEMMA AdvancedFacts ==
  ASSUME NEW ch, Loose(ch), engine \in BOOLEAN
  PROVE  /\ Sound(Advanced(ch))
         /\ \A m \in Messages : On(Advanced(ch), m) <=> On(ch, m)
<1>1. CASE ch.current # NoMessage \/ ch.queue = <<>>
  <2>1. Advanced(ch) = ch
    BY <1>1 DEF Advanced
  <2> QED BY <1>1, <2>1 DEF Sound
<1>2. CASE ch.current = NoMessage /\ ch.queue # <<>>
  <2> DEFINE q == ch.queue
             rest == Tail(q)
             first == Head(q).msg
             mid == [ch EXCEPT !.queue = rest]
  <2>1. q \in Seq(Entries) /\ q # <<>>
    BY <1>2 DEF Loose, Channels, Queues
  <2>2. /\ rest \in Seq(Entries) /\ Len(rest) = Len(q) - 1 /\ first = q[1].msg
        /\ Len(q) \in Nat /\ Len(q) >= 1
        /\ \A i \in 1..Len(rest) : rest[i] = q[i + 1]
    <3> HIDE DEF q
    <3> QED BY <2>1
  <2>3. first \in Messages
    <3> HIDE DEF q, first, rest
    <3>1. q[1] \in Entries
      BY <2>1, <2>2
    <3> QED BY <2>2, <3>1 DEF Entries
  <2>4. Advanced(ch) = Started(mid, first)
    BY <1>2 DEF Advanced
  <2>5. mid \in Channels /\ mid.queue = rest
    BY <2>2 DEF Loose, Channels, Queues
  <2>6. InLine(q)
    BY DEF Loose
  <2> HIDE DEF mid, rest, first
  <2>7. InLine(rest) /\ \A i \in 1..Len(rest) : rest[i].msg # first
    <3> HIDE DEF q
    <3>1. \A i \in 1..Len(rest) : rest[i] = q[i + 1] /\ i + 1 \in 1..Len(q)
      BY <2>2
    <3>2. 1 \in 1..Len(q) /\ \A i \in 1..Len(rest) : 1 < i + 1 /\ i \in Int
      BY <2>2
    <3>3. InLine(rest)
      <4> SUFFICES ASSUME NEW i \in 1..Len(rest), NEW j \in 1..Len(rest), i < j
                   PROVE  /\ rest[i].msg # rest[j].msg
                          /\ ~Replaces(rest[j].msg, rest[i].msg)
                          /\ Rank(rest[i].msg) <= Rank(rest[j].msg)
        BY DEF InLine
      <4>1. i + 1 < j + 1 /\ rest[i] = q[i + 1] /\ rest[j] = q[j + 1]
            /\ i + 1 \in 1..Len(q) /\ j + 1 \in 1..Len(q)
        BY <3>1, <3>2
      <4> QED BY <2>6, <4>1 DEF InLine
    <3>4. \A i \in 1..Len(rest) : rest[i].msg # first
      BY <2>2, <2>6, <3>1, <3>2 DEF InLine
    <3> QED BY <3>3, <3>4
  <2>8. /\ Sound(Advanced(ch)) /\ Advanced(ch).queue = rest
        /\ Advanced(ch).current = first
    BY <2>3, <2>4, <2>5, <2>7, StartedFacts
  <2>9. ASSUME NEW m \in Messages, On(ch, m) PROVE On(Advanced(ch), m)
    <3>1. PICK i \in 1..Len(q) : q[i].msg = m
      BY MessagesAssumption, LimitsAssumption, <1>2, <2>9 DEF On
    <3> HIDE DEF q
    <3>2. CASE i = 1
      BY <2>2, <2>8, <3>1, <3>2 DEF On
    <3>3. CASE i # 1
      <4>1. i - 1 \in 1..Len(rest) /\ (i - 1) + 1 = i
        BY <2>2, <3>1, <3>3
      <4>2. rest[i - 1].msg = m
        BY <2>2, <3>1, <4>1
      <4> QED BY <2>8, <4>1, <4>2 DEF On
    <3> QED BY <3>2, <3>3
  <2>10. ASSUME NEW m \in Messages, On(Advanced(ch), m) PROVE On(ch, m)
    <3>1. m = first \/ \E i \in 1..Len(rest) : rest[i].msg = m
      BY <2>8, <2>10 DEF On
    <3> HIDE DEF q
    <3>2. 1 \in 1..Len(q) /\ \A i \in 1..Len(rest) : i + 1 \in 1..Len(q)
      BY <2>2
    <3>3. \E i \in 1..Len(q) : q[i].msg = m
      BY <2>2, <3>1, <3>2
    <3> QED BY <3>3 DEF On, q
  <2> QED BY <2>8, <2>9, <2>10
<1> QED BY <1>1, <1>2

\* A channel that has lost its current call, by its end or by a cut.
LEMMA Ended ==
  ASSUME NEW ch, Loose(ch), NEW saying \in Messages \cup {NoMessage},
         NEW posted \in SUBSET Messages
  PROVE  LET new == [ch EXCEPT !.current = NoMessage, !.saying = saying, !.posted = posted]
         IN  Loose(new) /\ \A m \in Messages : On(new, m) <=> On(ch, m) /\ m # ch.current
<1> DEFINE new == [ch EXCEPT !.current = NoMessage, !.saying = saying, !.posted = posted]
<1>1. new \in Channels /\ new.queue = ch.queue /\ new.current = NoMessage
  BY DEF Loose, Channels
<1> HIDE DEF new
<1>2. \A i \in 1..Len(ch.queue) : ch.queue[i].msg # NoMessage
  <2>1. ch.queue \in Seq(Entries)
    BY DEF Loose, Channels, Queues
  <2>2. \A i \in 1..Len(ch.queue) : ch.queue[i] \in Entries
    BY <2>1
  <2> QED BY MessagesAssumption, LimitsAssumption, <2>2 DEF Entries
<1>3. Loose(new)
  BY <1>1, <1>2 DEF Loose
<1>4. \A m \in Messages : On(new, m) <=> On(ch, m) /\ m # ch.current
  BY MessagesAssumption, LimitsAssumption, <1>1 DEF On, Loose
<1> QED BY <1>3, <1>4 DEF new

\* The end of call m, told to a channel whose speaker now says `saying`.
LEMMA FinishFacts ==
  ASSUME NEW ch, Sound(ch), engine \in BOOLEAN, NEW m \in Messages,
         NEW saying \in Messages \cup {NoMessage}, NEW posted \in SUBSET Messages
  PROVE  LET old == [ch EXCEPT !.saying = saying, !.posted = posted]
         IN  /\ Sound(Finish(old, m))
             /\ \A x \in Messages :
                  On(Finish(old, m), x) <=> On(ch, x) /\ ~(x = m /\ ch.current = m)
<1> DEFINE old == [ch EXCEPT !.saying = saying, !.posted = posted]
           new == [ch EXCEPT !.current = NoMessage, !.saying = saying, !.posted = posted]
<1>1. /\ old \in Channels /\ old.queue = ch.queue /\ old.current = ch.current
  BY DEF Sound, Loose, Channels
<1>2. CASE ch.current # m
  <2>1. Finish(old, m) = old
    BY <1>1, <1>2 DEF Finish
  <2> HIDE DEF old
  <2>2. Sound(old) /\ \A x \in Messages : On(old, x) <=> On(ch, x)
    BY <1>1 DEF Sound, Loose, On
  <2> QED BY <1>2, <2>1, <2>2 DEF old
<1>3. CASE ch.current = m
  <2>1. new = [old EXCEPT !.current = NoMessage]
    BY DEF Sound, Loose, Channels
  <2>2. Finish(old, m) = Advanced(new)
    BY <1>1, <1>3, <2>1 DEF Finish
  <2>3. Loose(new) /\ \A x \in Messages : On(new, x) <=> On(ch, x) /\ x # ch.current
    BY Ended DEF Sound
  <2> HIDE DEF old, new
  <2>4. /\ Sound(Advanced(new))
        /\ \A x \in Messages : On(Advanced(new), x) <=> On(new, x)
    BY <2>3, AdvancedFacts
  <2> QED BY <1>3, <2>2, <2>3, <2>4 DEF old
<1> QED BY <1>2, <1>3

LEMMA StoppedFacts ==
  ASSUME NEW ch, Sound(ch), engine \in BOOLEAN
  PROVE  /\ Sound(Stopped(ch))
         /\ \A m \in Messages : On(Stopped(ch), m) <=> On(ch, m) /\ m # ch.current
<1>1. CASE ch.current = NoMessage
  <2>1. Stopped(ch) = Advanced(ch)
    BY <1>1 DEF Stopped
  <2> QED BY MessagesAssumption, LimitsAssumption, <1>1, <2>1, AdvancedFacts DEF Sound
<1>2. CASE ch.current # NoMessage
  <2> DEFINE new == [ch EXCEPT !.current = NoMessage, !.saying = NoMessage, !.posted = ch.posted]
  <2>1. ch \in Channels /\ ch.posted \in SUBSET Messages
    BY DEF Sound, Loose, Channels
  <2>2. Cut(ch) = new
    BY <2>1 DEF Cut, Channels
  <2>3. Stopped(ch) = Advanced(new)
    BY <1>2, <2>2 DEF Stopped
  <2>4. Loose(new) /\ \A m \in Messages : On(new, m) <=> On(ch, m) /\ m # ch.current
    BY <2>1, Ended DEF Sound
  <2> HIDE DEF new
  <2> QED BY <2>3, <2>4, AdvancedFacts
<1> QED BY <1>1, <1>2
-------------------------------------------------------------------------------
(***************************************************************************)
(* What happens to the channel.                                            *)
(***************************************************************************)
\* What the driver's controls or its own end have settled is off the channel until it is
\* pushed again: a call that stays on it was not settled before.
Unsettled == \A m \in Messages : On(air, m) => m \notin settled

DesktopInv ==
  /\ Sound(air) /\ Unsettled
  /\ engine \in BOOLEAN /\ seen \in Seq(Messages)
  /\ muted \subseteq Agents /\ master \in BOOLEAN /\ open \in BOOLEAN
  /\ settled \subseteq Messages

\* Critical calls that are on the channel stay on it, or are settled by the step.
Kept ==
  \A m \in Messages : Critical(m) /\ On(air, m) => On(air', m) \/ m \in settled' \ settled

LEMMA DesktopInit == AudioInit => DesktopInv
<1> SUFFICES ASSUME AudioInit PROVE DesktopInv
  OBVIOUS
<1>1. /\ air.queue = <<>> /\ air.current = NoMessage /\ air.saying = NoMessage /\ air.posted = {}
      /\ air = [queue |-> <<>>, current |-> NoMessage, saying |-> NoMessage, posted |-> {}]
  BY DEF AudioInit, Quiet
<1>2. air \in Channels
  BY <1>1 DEF Channels, Queues
<1>3. Sound(air)
  BY <1>1, <1>2 DEF Sound, Loose, InLine
<1>4. seen \in Seq(Messages) /\ settled \subseteq Messages /\ muted \subseteq Agents
  BY DEF AudioInit
<1>5. engine \in BOOLEAN /\ master \in BOOLEAN /\ open \in BOOLEAN
  BY DEF AudioInit
<1>6. Unsettled
  BY DEF AudioInit, Unsettled
<1> QED BY <1>3, <1>4, <1>5, <1>6 DEF DesktopInv

LEMMA RememberedType ==
  ASSUME seen \in Seq(Messages), NEW m \in Messages
  PROVE  Remembered(m) \in Seq(Messages)
<1>1. Append(seen, m) \in Seq(Messages)
  OBVIOUS
<1>2. CASE seen # <<>>
  <2>1. Tail(seen) \in Seq(Messages)
    BY <1>2
  <2>2. Append(Tail(seen), m) \in Seq(Messages)
    BY <2>1
  <2> QED BY <1>1, <2>2 DEF Remembered
<1>3. CASE seen = <<>>
  <2>1. Len(seen) < SeenLimit
    BY MessagesAssumption, LimitsAssumption, <1>3
  <2> QED BY <1>1, <2>1 DEF Remembered
<1> QED BY <1>2, <1>3

\* What the queue is when a new call has expired and replaced what it does.
LEMMA WaitingFacts ==
  ASSUME DesktopInv, NEW m \in Messages, ~IsDuplicate(m)
  PROVE  LET waiting == Superseded(Fresh(air.queue), m)
         IN  /\ waiting \in Queues /\ InLine(waiting) /\ KeepsCriticals(waiting, air.queue)
             /\ air.queue = <<>> => waiting = <<>>
             /\ \A k \in 1..Len(waiting) :
                  /\ waiting[k].msg # m /\ waiting[k].msg # air.current
                  /\ ~Replaces(m, waiting[k].msg)
                  /\ \E i \in 1..Len(air.queue) : waiting[k].msg = air.queue[i].msg
<1> DEFINE q == air.queue
           mid == Fresh(q)
           waiting == Superseded(mid, m)
<1>1. q \in Queues /\ InLine(q)
      /\ \A i \in 1..Len(q) : q[i].msg # m /\ q[i].msg # air.current
  BY DEF DesktopInv, Sound, Loose, Channels, IsDuplicate, Queued
<1> HIDE DEF q
<1>2. mid \in Queues /\ Within(mid, q) /\ KeepsCriticals(mid, q)
  BY <1>1, FreshFacts
<1>3. InLine(mid)
  BY <1>1, <1>2, LeftInOrder
<1> HIDE DEF mid
<1>4. /\ waiting \in Queues /\ Within(waiting, mid) /\ KeepsCriticals(waiting, mid)
      /\ \A k \in 1..Len(waiting) : ~Replaces(m, waiting[k].msg)
  BY <1>2, <1>3, SupersededFacts
<1> HIDE DEF waiting
<1>5. Within(waiting, q)
  BY <1>1, <1>2, <1>4, LeftOfLeft
<1>6. InLine(waiting) /\ (q = <<>> => waiting = <<>>)
      /\ \A k \in 1..Len(waiting) : \E i \in 1..Len(q) : waiting[k].msg = q[i].msg
  BY <1>1, <1>4, <1>5, LeftInOrder
<1>7. KeepsCriticals(waiting, q)
  <2> SUFFICES ASSUME NEW i \in 1..Len(q), Critical(q[i].msg)
               PROVE  \E k \in 1..Len(waiting) : waiting[k].msg = q[i].msg
    BY DEF KeepsCriticals
  <2>1. PICK j \in 1..Len(mid) : mid[j].msg = q[i].msg
    BY <1>2 DEF KeepsCriticals
  <2>2. Critical(mid[j].msg)
    BY <2>1
  <2> QED BY <1>4, <2>1, <2>2 DEF KeepsCriticals
<1> QED BY <1>1, <1>4, <1>6, <1>7 DEF q, mid, waiting

LEMMA Pushed ==
  ASSUME DesktopInv, NEW m \in Messages, Push(m)
  PROVE  DesktopInv' /\ Kept
<1> DEFINE waiting == Superseded(Fresh(air.queue), m)
           ch == [air EXCEPT !.queue = waiting]
<1>1. /\ waiting \in Queues /\ InLine(waiting) /\ KeepsCriticals(waiting, air.queue)
      /\ air.queue = <<>> => waiting = <<>>
      /\ \A k \in 1..Len(waiting) :
           /\ waiting[k].msg # m /\ waiting[k].msg # air.current
           /\ ~Replaces(m, waiting[k].msg)
           /\ \E i \in 1..Len(air.queue) : waiting[k].msg = air.queue[i].msg
  BY WaitingFacts DEF Push
<1>2. air' = IF Critical(m) /\ air.current # NoMessage /\ ~Critical(air.current)
             THEN Started(Cut(ch), m)
             ELSE IF air.current = NoMessage /\ waiting = <<>> THEN Started(ch, m)
             ELSE [ch EXCEPT !.queue = Inserted(waiting, Entry(m))]
  BY DEF Push
<1>3. seen' \in Seq(Messages) /\ settled' \subseteq Messages
      /\ UNCHANGED <<muted, master, engine, open>>
  BY RememberedType DEF Push, DesktopInv
<1>4. air.current # m
  BY DEF Push, IsDuplicate
<1> HIDE DEF waiting
<1>5. /\ ch \in Channels /\ ch.queue = waiting /\ ch.current = air.current
  BY <1>1 DEF DesktopInv, Sound, Loose, Channels
<1> HIDE DEF ch
<1>6. ASSUME NEW x \in Messages, Critical(x), On(air, x)
      PROVE  x = air.current \/ \E k \in 1..Len(waiting) : waiting[k].msg = x
  <2> SUFFICES ASSUME x # air.current PROVE \E k \in 1..Len(waiting) : waiting[k].msg = x
    OBVIOUS
  <2>1. PICK i \in 1..Len(air.queue) : air.queue[i].msg = x
    BY <1>6 DEF On
  <2>2. Critical(air.queue[i].msg)
    BY <1>6, <2>1
  <2>3. KeepsCriticals(waiting, air.queue)
    BY <1>1
  <2> QED BY <2>1, <2>2, <2>3 DEF KeepsCriticals
<1>10. ASSUME \A x \in Messages : On(air', x) =>
                x = m \/ x = air.current \/ \E k \in 1..Len(waiting) : waiting[k].msg = x
       PROVE  Unsettled'
  <2>1. \A x \in Messages : On(air', x) => x = m \/ On(air, x)
    BY <1>1, <1>10 DEF On
  <2>2. settled' = settled \ {m}
    BY DEF Push
  <2> QED BY <2>1, <2>2 DEF Unsettled, DesktopInv
<1>7. CASE Critical(m) /\ air.current # NoMessage /\ ~Critical(air.current)
  <2> DEFINE mid == Cut(ch)
  <2>1. mid \in Channels /\ mid.queue = waiting
    BY <1>5 DEF Cut, Channels
  <2> HIDE DEF mid
  <2>2. /\ Sound(Started(mid, m)) /\ Started(mid, m).queue = waiting
        /\ Started(mid, m).current = m
    BY <1>1, <2>1, StartedFacts DEF DesktopInv
  <2>3. air' = Started(mid, m)
    BY <1>2, <1>7 DEF mid
  <2>4. Kept
    BY <1>6, <1>7, <2>2, <2>3 DEF Kept, On
  <2>5. Unsettled'
    BY <1>10, <2>2, <2>3 DEF On
  <2> QED BY <1>3, <2>2, <2>3, <2>4, <2>5 DEF DesktopInv
<1>8. CASE air.current = NoMessage /\ waiting = <<>>
  <2>1. /\ Sound(Started(ch, m)) /\ Started(ch, m).queue = waiting
        /\ Started(ch, m).current = m
    BY <1>1, <1>5, StartedFacts DEF DesktopInv
  <2>2. air' = Started(ch, m)
    BY <1>2, <1>8
  <2>3. Kept
    BY MessagesAssumption, LimitsAssumption, <1>6, <1>8, <2>1, <2>2 DEF Kept, On
  <2>4. Unsettled'
    BY <1>10, <2>1, <2>2 DEF On
  <2> QED BY <1>3, <2>1, <2>2, <2>3, <2>4 DEF DesktopInv
<1>9. CASE /\ ~(Critical(m) /\ air.current # NoMessage /\ ~Critical(air.current))
           /\ ~(air.current = NoMessage /\ waiting = <<>>)
  <2> DEFINE q == Inserted(waiting, Entry(m))
             e == Entry(m)
  <2>1. e \in Entries /\ e.msg = m
    BY MessagesAssumption, LimitsAssumption DEF Entry, Entries
  <2> HIDE DEF e
  <2>2. /\ q \in Queues /\ InLine(q) /\ KeepsCriticals(q, waiting)
        /\ \A k \in 1..Len(q) :
             q[k].msg = m \/ \E i \in 1..Len(waiting) : q[k].msg = waiting[i].msg
    <3>1. q = Inserted(waiting, e)
      BY DEF e
    <3> QED BY <1>1, <2>1, <3>1, InsertedFacts
  <2>3. air' = [ch EXCEPT !.queue = q]
    BY <1>2, <1>9
  <2> HIDE DEF q
  <2>4. air' \in Channels /\ air'.queue = q /\ air'.current = air.current
    BY <1>5, <2>2, <2>3 DEF Channels
  <2>5. air.current # NoMessage
    BY <1>1, <1>9 DEF DesktopInv, Sound
  <2>6. \A k \in 1..Len(q) : q[k].msg # air.current
    BY <1>1, <1>4, <2>2
  <2>7. Sound(air')
    BY <2>2, <2>4, <2>5, <2>6 DEF Sound, Loose
  <2>8. Kept
    <3> SUFFICES ASSUME NEW x \in Messages, Critical(x), On(air, x) PROVE On(air', x)
      BY DEF Kept
    <3>1. CASE x = air.current
      BY <2>4, <3>1 DEF On
    <3>2. CASE \E k \in 1..Len(waiting) : waiting[k].msg = x
      BY <2>2, <2>4, <3>2 DEF On, KeepsCriticals
    <3> QED BY <1>6, <3>1, <3>2
  <2>9. Unsettled'
    <3> SUFFICES ASSUME NEW x \in Messages, On(air', x)
                 PROVE  x = m \/ x = air.current \/ \E k \in 1..Len(waiting) : waiting[k].msg = x
      BY <1>10
    <3> QED BY <2>2, <2>4 DEF On
  <2> QED BY <1>3, <2>7, <2>8, <2>9 DEF DesktopInv
<1> QED BY <1>7, <1>8, <1>9

\* A step that leaves the channel alone keeps what is on it.
LEMMA Unmoved == ASSUME air' = air PROVE Kept /\ (DesktopInv /\ settled' = settled => Unsettled')
  BY DEF Kept, On, Unsettled, DesktopInv

LEMMA Remembering ==
  ASSUME DesktopInv, NEW m \in Messages, PushMuted(m) \/ MarkHeard(m)
  PROVE  DesktopInv' /\ Kept
<1>1. seen' = Remembered(m) /\ UNCHANGED <<air, muted, master, engine, open, settled>>
  BY DEF PushMuted, MarkHeard
<1>2. seen' \in Seq(Messages)
  BY <1>1, RememberedType DEF DesktopInv
<1> QED BY <1>1, <1>2, Unmoved DEF DesktopInv

\* The two ways in which a call comes to its end.
LEMMA PostedEnded ==
  ASSUME DesktopInv, NEW m \in Messages, PostedEnd(m)
  PROVE  DesktopInv' /\ Kept
<1> DEFINE old == [air EXCEPT !.saying = air.saying, !.posted = air.posted \ {m}]
<1>1. air \in Channels /\ air.saying \in Messages \cup {NoMessage}
      /\ air.posted \ {m} \in SUBSET Messages
  BY DEF DesktopInv, Sound, Loose, Channels
<1>2. old = [air EXCEPT !.posted = @ \ {m}]
  BY <1>1 DEF Channels
<1>3. air' = Finish(old, m)
  BY <1>2 DEF PostedEnd
<1>4. /\ Sound(Finish(old, m))
      /\ \A x \in Messages : On(Finish(old, m), x) <=> On(air, x) /\ ~(x = m /\ air.current = m)
  BY <1>1, FinishFacts DEF DesktopInv
<1> HIDE DEF old
<1>5. Kept /\ Unsettled'
  BY <1>3, <1>4 DEF Kept, PostedEnd, Unsettled, DesktopInv
<1>6. settled' \subseteq Messages /\ UNCHANGED <<seen, muted, master, engine, open>>
  BY DEF PostedEnd, DesktopInv
<1> QED BY <1>3, <1>4, <1>5, <1>6 DEF DesktopInv

LEMMA EngineEnded ==
  ASSUME DesktopInv, EngineEnd
  PROVE  DesktopInv' /\ Kept
<1> DEFINE m == air.saying
           old == [air EXCEPT !.saying = NoMessage, !.posted = air.posted]
<1>1. air \in Channels /\ m \in Messages /\ air.posted \in SUBSET Messages
  BY DEF DesktopInv, Sound, Loose, Channels, EngineEnd
<1>2. old = [air EXCEPT !.saying = NoMessage]
  BY <1>1 DEF Channels
<1>3. air' = Finish(old, m)
  BY <1>2 DEF EngineEnd
<1>4. settled' = IF air.current = m THEN settled \cup {m} ELSE settled
  BY DEF EngineEnd
<1> HIDE DEF m
<1>5. /\ Sound(Finish(old, m))
      /\ \A x \in Messages : On(Finish(old, m), x) <=> On(air, x) /\ ~(x = m /\ air.current = m)
  BY <1>1, FinishFacts DEF DesktopInv
<1> HIDE DEF old
<1>6. Kept /\ Unsettled'
  BY <1>3, <1>4, <1>5 DEF Kept, Unsettled, DesktopInv
<1>7. settled' \subseteq Messages /\ UNCHANGED <<seen, muted, master, engine, open>>
  BY <1>1, <1>4 DEF EngineEnd, DesktopInv
<1> QED BY <1>3, <1>5, <1>6, <1>7 DEF DesktopInv

\* A channel with only some of what waited is sound but for its idleness.
LEMMA LeftWaiting ==
  ASSUME NEW ch, Sound(ch), NEW q \in Queues, Within(q, ch.queue)
  PROVE  LET new == [ch EXCEPT !.queue = q]
         IN  /\ Loose(new) /\ new.queue = q /\ new.current = ch.current
             /\ ch.queue = <<>> => q = <<>>
             /\ \A m \in Messages : On(new, m) => On(ch, m)
<1> DEFINE new == [ch EXCEPT !.queue = q]
<1>1. new \in Channels /\ new.queue = q /\ new.current = ch.current
  BY DEF Sound, Loose, Channels
<1> HIDE DEF new
<1>2. ch.queue \in Queues /\ InLine(ch.queue)
      /\ \A i \in 1..Len(ch.queue) : ch.queue[i].msg # ch.current
  BY DEF Sound, Loose, Channels
<1>3. InLine(q)
      /\ \A k \in 1..Len(q) : \E i \in 1..Len(ch.queue) : q[k].msg = ch.queue[i].msg
  BY <1>2, LeftInOrder
<1>4. Loose(new)
  BY <1>1, <1>2, <1>3 DEF Loose
<1>5. ch.queue = <<>> => q = <<>>
  BY <1>2, LeftInOrder
<1>6. \A m \in Messages : On(new, m) => On(ch, m)
  BY <1>1, <1>3 DEF On
<1> QED BY <1>1, <1>4, <1>5, <1>6 DEF new

LEMMA Ticked == ASSUME DesktopInv, Tick PROVE DesktopInv' /\ Kept
<1> DEFINE q == Fresh(air.queue)
           ch == [air EXCEPT !.queue = q]
<1>1. Sound(air) /\ air.queue \in Queues /\ engine \in BOOLEAN
  BY DEF DesktopInv, Sound, Loose, Channels
<1>2. q \in Queues /\ Within(q, air.queue) /\ KeepsCriticals(q, air.queue)
  BY <1>1, FreshFacts
<1>3. air' = Advanced(ch)
  BY DEF Tick
<1> HIDE DEF q
<1>4. Loose(ch) /\ ch.queue = q /\ ch.current = air.current
      /\ \A m \in Messages : On(ch, m) => On(air, m)
  BY <1>1, <1>2, LeftWaiting
<1> HIDE DEF ch
<1>5. Sound(air') /\ \A m \in Messages : On(air', m) <=> On(ch, m)
  BY <1>1, <1>3, <1>4, AdvancedFacts
<1>6. \A m \in Messages : Critical(m) /\ On(air, m) => On(ch, m)
  BY <1>2, <1>4 DEF On, KeepsCriticals
<1>7. Unsettled'
  BY <1>4, <1>5 DEF Unsettled, DesktopInv, Tick
<1> QED BY <1>5, <1>6, <1>7 DEF DesktopInv, Kept, Tick

LEMMA Waited == ASSUME DesktopInv, Wait PROVE DesktopInv' /\ Kept
<1> DEFINE n == Len(air.queue)
           q == [i \in 1..n |-> Older(air.queue[i])]
           ch == [air EXCEPT !.queue = q]
           f == [i \in 1..n |-> i]
<1>1. Sound(air) /\ air \in Channels /\ air.queue \in Seq(Entries) /\ n \in Nat
  BY DEF DesktopInv, Sound, Loose, Channels, Queues
<1>2. \A e \in Entries : Older(e) \in Entries /\ Older(e).msg = e.msg
  <2> SUFFICES ASSUME NEW e \in Entries
               PROVE  Older(e) \in Entries /\ Older(e).msg = e.msg
    OBVIOUS
  <2> DEFINE age == IF e.age > StaleAfter THEN e.age ELSE e.age + 1
  <2>1. age \in 0..(StaleAfter + 1)
    BY MessagesAssumption, LimitsAssumption DEF Entries
  <2>2. Older(e) = [e EXCEPT !.age = age]
    BY DEF Older
  <2> HIDE DEF age
  <2> QED BY <2>1, <2>2 DEF Entries
<1>3. air' = ch
  BY DEF Wait
<1>4. /\ q \in Seq(Entries) /\ Len(q) = n
      /\ \A i \in 1..n : q[i].msg = air.queue[i].msg
  <2>1. \A i \in 1..n : air.queue[i] \in Entries
    BY <1>1
  <2>2. q \in [1..n -> Entries]
    BY <1>2, <2>1
  <2> QED BY <1>1, <1>2, <2>1, <2>2
<1> HIDE DEF q
<1>5. q \in Queues /\ Within(q, air.queue)
  <2>1. f \in [1..Len(q) -> 1..Len(air.queue)]
    BY <1>4
  <2>2. \A k \in 1..Len(q) : q[k].msg = air.queue[f[k]].msg
    BY <1>4
  <2>3. \A k, l \in 1..Len(q) : k < l => f[k] < f[l]
    BY <1>4
  <2> QED BY <1>4, <2>1, <2>2, <2>3 DEF Within, Queues
<1>6. Loose(ch) /\ ch.queue = q /\ ch.current = air.current
      /\ (air.queue = <<>> => q = <<>>)
  BY <1>1, <1>5, LeftWaiting
<1> HIDE DEF ch
<1>7. Sound(ch)
  BY <1>1, <1>6 DEF Sound
<1>8. \A m \in Messages : On(air, m) <=> On(ch, m)
  BY <1>4, <1>6 DEF On
<1>9. Unsettled'
  BY <1>3, <1>8 DEF Unsettled, DesktopInv, Wait
<1> QED BY <1>3, <1>7, <1>8, <1>9 DEF DesktopInv, Kept, Wait

\* The driver's controls settle what they silence.
LEMMA Silenced ==
  ASSUME DesktopInv, air' = Stopped(air),
         settled' = settled \cup OnAir
  PROVE  Sound(air') /\ settled' \subseteq Messages /\ Kept /\ Unsettled'
<1>1. /\ Sound(Stopped(air))
      /\ \A m \in Messages : On(Stopped(air), m) <=> On(air, m) /\ m # air.current
  BY StoppedFacts DEF DesktopInv
<1>2. OnAir \subseteq Messages
  BY DEF OnAir, DesktopInv, Sound, Loose, Channels
<1>3. \A m \in Messages : m = air.current <=> m \in OnAir
  BY MessagesAssumption, LimitsAssumption DEF OnAir
<1>4. Kept /\ Unsettled'
  BY <1>1, <1>3 DEF Kept, Unsettled, DesktopInv
<1> QED BY <1>1, <1>2, <1>4 DEF DesktopInv

LEMMA MasterMuted ==
  ASSUME DesktopInv, NEW on \in BOOLEAN, SetMasterMuted(on)
  PROVE  DesktopInv' /\ Kept
<1>1. UNCHANGED <<seen, muted, engine, open>> /\ master' \in BOOLEAN
  BY DEF SetMasterMuted
<1>2. CASE air' = Stopped(air) /\ settled' = settled \cup OnAir
  BY <1>1, <1>2, Silenced DEF DesktopInv
<1>3. CASE UNCHANGED <<air, settled>>
  BY <1>1, <1>3, Unmoved DEF DesktopInv
<1> QED BY <1>2, <1>3 DEF SetMasterMuted

LEMMA AgentMuted ==
  ASSUME DesktopInv, NEW agent \in Agents, NEW on \in BOOLEAN,
         SetAgentMuted(agent, on)
  PROVE  DesktopInv' /\ Kept
<1>1. UNCHANGED <<seen, master, engine, open>> /\ muted' \subseteq Agents
  BY DEF SetAgentMuted, DesktopInv
<1>2. CASE air' = Stopped(air) /\ settled' = settled \cup OnAir
  BY <1>1, <1>2, Silenced DEF DesktopInv
<1>3. CASE UNCHANGED <<air, settled>>
  BY <1>1, <1>3, Unmoved DEF DesktopInv
<1> QED BY <1>2, <1>3 DEF SetAgentMuted

LEMMA Closed == ASSUME DesktopInv, Clear PROVE DesktopInv' /\ Kept
<1>1. air \in Channels
  BY DEF DesktopInv, Sound, Loose
<1>2. air' \in Channels /\ air'.queue = <<>> /\ air'.current = NoMessage
  <2>1. <<>> \in Queues
    BY DEF Queues
  <2> QED BY <1>1, <2>1 DEF Clear, Cut, Channels
<1>3. Sound(air')
  BY <1>2 DEF Sound, Loose, InLine
<1>4. settled' \subseteq Messages
  BY <1>1 DEF Clear, OnAir, DesktopInv, Channels
<1>5. \A m \in Messages : On(air, m) => m \in settled' \ settled
  BY MessagesAssumption, LimitsAssumption DEF DesktopInv, Unsettled, On, Clear, OnAir, Queued
<1>6. Kept /\ Unsettled'
  BY MessagesAssumption, LimitsAssumption, <1>2, <1>5 DEF Kept, Unsettled, On
<1> QED BY <1>3, <1>4, <1>6 DEF DesktopInv, Clear

LEMMA DesktopStep ==
  ASSUME DesktopInv, [AudioNext]_audioVars
  PROVE  DesktopInv' /\ Kept
<1>1. ASSUME NEW m \in Messages, PushMuted(m) \/ Push(m) \/ MarkHeard(m)
      PROVE  DesktopInv' /\ Kept
  BY <1>1, Remembering, Pushed
<1>2. CASE Ends
  BY <1>2, EngineEnded, PostedEnded DEF Ends
<1>3. CASE Tick
  BY <1>3, Ticked
<1>4. CASE Wait
  BY <1>4, Waited
<1>5. CASE Clear
  BY <1>5, Closed
<1>6. ASSUME NEW on \in BOOLEAN,
             SetMasterMuted(on) \/ \E a \in Agents : SetAgentMuted(a, on)
      PROVE  DesktopInv' /\ Kept
  BY <1>6, MasterMuted, AgentMuted
<1>7. CASE UNCHANGED audioVars
  <2>1. air' = air /\ UNCHANGED <<seen, muted, master, engine, open, settled>>
    BY <1>7 DEF audioVars
  <2>2. Kept /\ Unsettled'
    BY <2>1, Unmoved
  <2> QED BY <2>1, <2>2 DEF DesktopInv
<1> QED BY <1>1, <1>2, <1>3, <1>4, <1>5, <1>6, <1>7 DEF AudioNext

LEMMA DesktopAlways == AudioSpec => []DesktopInv
<1>1. DesktopInv /\ [AudioNext]_audioVars => DesktopInv'
  BY DesktopStep
<1> QED BY <1>1, DesktopInit, PTL DEF AudioSpec

\* The types of the desktop's queue, its speaker and the driver's controls.
THEOREM DesktopTypes == AudioSpec => []AudioTypeOK
<1>1. DesktopInv => AudioTypeOK
  BY DEF DesktopInv, Sound, Loose, Channels, Queues, AudioTypeOK
<1> QED BY <1>1, DesktopAlways, PTL

\* The channel is in order at every moment: no call on it twice though ids are forgotten,
\* one waiting call of an agent's subject, the waiting ones sorted, and none waiting for an
\* idle channel, after any pushes, cuts, mutes, late reports and forgotten ids (push,
\* _supersede, _sort_queue, stop, finished).
THEOREM DesktopInOrder == AudioSpec => []ChannelInOrder
<1>1. DesktopInv => ChannelInOrder
  BY DEF DesktopInv, Sound, Loose, InLine, ChannelInOrder
<1> QED BY <1>1, DesktopAlways, PTL

\* The safety half of CriticalIsSaid: a step that takes a critical call off the channel
\* is its own end or the driver's control, never another call's push, a late report, the
\* expiry of the old or an interruption.
THEOREM CriticalStays == AudioSpec => [][Kept]_audioVars
<1>1. DesktopInv /\ [AudioNext]_audioVars => [Kept]_audioVars
  BY DesktopStep
<1> QED BY <1>1, DesktopAlways, PTL DEF AudioSpec
================================================================================
