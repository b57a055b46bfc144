--------------------------- MODULE RadioFeed_proofs ---------------------------
(***************************************************************************)
(* Machine-checked facts about RadioFeed, for every set of calls, notices, *)
(* race snapshots and delays, every conflict window and every bound.       *)
(***************************************************************************)
EXTENDS RadioFeed, TLAPS

USE DEF queueVars, airVars

LEMMA NewMessage ==
  ASSUME NEW c \in Calls \cup Notices, NEW d \in Nat, TypeOK, seq < MaxPublished
  PROVE  [call |-> c, seq |-> seq + 1, time |-> race.time - d] \in Messages
BY RacesAssumption, BoundsAssumption DEF TypeOK, Messages

LEMMA DisplacedQueued == ASSUME NEW m PROVE Displaced(m) \subseteq pending
BY DEF Displaced, DisplacedInGroup, DisplacedBySubject, SameSubject

LEMMA StandingIsMessage ==
  ASSUME TypeOK, NEW m PROVE StandingAgainst(m) \subseteq Messages
<1>1. \A i \in DOMAIN history : history[i] \in Messages
  BY DEF TypeOK
<1> QED BY <1>1 DEF StandingAgainst, TypeOK

LEMMA EnqueueType ==
  ASSUME TypeOK, NEW t \in Threads, NEW m \in Messages, Enqueue(t, m)
  PROVE  TypeOK'
<1>1. seq' \in 0..MaxPublished
  BY BoundsAssumption DEF Enqueue, Messages
<1>2. pending' \subseteq Messages
  BY DEF Enqueue, TypeOK
<1>3. losers' \in [Threads -> SUBSET [loser : Messages, by : Messages]]
  <2>1. { [loser |-> m, by |-> n] : n \in StandingAgainst(m) }
          \subseteq [loser : Messages, by : Messages]
    BY StandingIsMessage
  <2>2. { [loser |-> n, by |-> m] : n \in Displaced(m) }
          \subseteq [loser : Messages, by : Messages]
    BY DisplacedQueued DEF TypeOK
  <2> QED BY <2>1, <2>2 DEF Enqueue, TypeOK
<1> QED BY <1>1, <1>2, <1>3 DEF Enqueue, TypeOK

LEMMA AnnounceType ==
  ASSUME TypeOK, NEW t \in Threads, Announce(t)
  PROVE  TypeOK'
<1>1. notes' \in [Agents -> [loser : 0..MaxPublished, by : 0..MaxPublished]]
  <2> SUFFICES ASSUME NEW a \in Agents
               PROVE  notes'[a] \in [loser : 0..MaxPublished, by : 0..MaxPublished]
    BY DEF Announce
  <2> DEFINE lost == { l \in losers[t] : l.loser.call.agent = a /\ l.by.call.agent # a }
  <2>1. lost = {} => notes'[a] = notes[a]
    BY DEF Announce
  <2>2. lost # {} => \E x \in lost : notes'[a] = [loser |-> x.loser.seq, by |-> x.by.seq]
    BY DEF Announce
  <2>3. \A x \in losers[t] : x.loser.seq \in 0..MaxPublished /\ x.by.seq \in 0..MaxPublished
    BY BoundsAssumption DEF TypeOK, Messages
  <2>4. CASE lost = {}
    BY <2>1, <2>4 DEF TypeOK
  <2>5. CASE lost # {}
    <3>1. PICK x \in lost : notes'[a] = [loser |-> x.loser.seq, by |-> x.by.seq]
      BY <2>2, <2>5
    <3> QED BY <2>3, <3>1
  <2> QED BY <2>4, <2>5
<1>2. delivered' \subseteq [msg : Messages, as : {"aired", "superseded", "expired"},
                            by : Messages \cup {NoMessage}]
  BY DEF Announce, TypeOK
<1>3. losers' \in [Threads -> SUBSET [loser : Messages, by : Messages]]
  BY DEF Announce, TypeOK
<1> QED BY <1>1, <1>2, <1>3 DEF Announce, TypeOK

LEMMA NoMessageIsNone == NoMessage \notin Messages
BY DEF NoMessage, Messages

LEMMA PutOnAirType ==
  ASSUME history \in Seq(Messages), Len(history) <= HistoryCap,
         NEW m \in Messages, PutOnAir(m)
  PROVE  history' \in Seq(Messages) /\ Len(history') <= HistoryCap
BY BoundsAssumption DEF PutOnAir

Deliveries == [msg : Messages, as : {"aired", "superseded", "expired"},
               by : Messages \cup {NoMessage}]

LEMMA DeliverType ==
  ASSUME delivered \subseteq Deliveries, NEW m \in Messages, NEW mark \in {"aired", "expired"}
  PROVE  delivered \cup { [msg |-> m, as |-> mark, by |-> NoMessage] } \subseteq Deliveries
BY DEF Deliveries

LEMMA TypeStep == TypeOK /\ [Next]_vars => TypeOK'
<1> SUFFICES ASSUME TypeOK, [Next]_vars PROVE TypeOK'
  OBVIOUS
<1>1. CASE RaceMoves
  BY <1>1 DEF RaceMoves, TypeOK
<1>2. CASE PublishCall
  <2>1. PICK c \in Calls, d \in Delays :
          Enqueue("loop", [call |-> c, seq |-> seq + 1, time |-> race.time - d])
    BY <1>2 DEF PublishCall
  <2>2. [call |-> c, seq |-> seq + 1, time |-> race.time - d] \in Messages
    BY <1>2, NewMessage, DelaysAssumption DEF PublishCall
  <2> QED BY <2>1, <2>2, EnqueueType DEF Threads
<1>3. CASE PublishNotice
  <2>1. PICK c \in Notices :
          Enqueue("poller", [call |-> c, seq |-> seq + 1, time |-> race.time])
    BY <1>3 DEF PublishNotice
  <2>2. [call |-> c, seq |-> seq + 1, time |-> race.time] \in Messages
    BY <1>3, RacesAssumption, BoundsAssumption DEF PublishNotice, TypeOK, Messages
  <2> QED BY <2>1, <2>2, EnqueueType DEF Threads
<1>4. ASSUME NEW t \in Threads, Announce(t) PROVE TypeOK'
  BY <1>4, AnnounceType
<1>5. ASSUME NEW a \in Agents, TakeSuperseded(a) PROVE TypeOK'
  BY <1>5, BoundsAssumption DEF TakeSuperseded, TypeOK, NoNote
<1>6. CASE Pop
  BY <1>6 DEF Pop, IsFront, TypeOK
<1>7. CASE Judge
  <2>1. taken \in Messages /\ taken # NoMessage
    BY <1>7 DEF Judge, TypeOK
  <2>2. seen' \in Races \cup {NoRace}
    BY <1>7 DEF Judge, TypeOK
  <2>3. \/ taken' = NoMessage /\ toAir' = FALSE
        \/ taken' = taken /\ toAir' = TRUE
    BY <1>7 DEF Judge, AfterExpiry
  <2>4. delivered' = delivered
          \/ delivered' = delivered \cup { [msg |-> taken, as |-> "expired", by |-> NoMessage] }
    BY <1>7 DEF Judge
  <2>5. UNCHANGED <<race, seq, pending, history, notes, losers, busy>>
    BY <1>7 DEF Judge
  <2>6. delivered' \subseteq Deliveries
    BY <2>1, <2>4, DeliverType DEF TypeOK, Deliveries
  <2> QED BY <2>1, <2>2, <2>3, <2>5, <2>6 DEF TypeOK, Deliveries
<1>8. CASE NothingLeft
  BY <1>8 DEF NothingLeft, TypeOK
<1>9. CASE Emit
  <2>1. taken \in Messages
    BY <1>9 DEF Emit, TypeOK
  <2>2. history' \in Seq(Messages) /\ Len(history') <= HistoryCap
    BY <1>9, <2>1, PutOnAirType DEF Emit, TypeOK
  <2>3. delivered' \subseteq Deliveries
    BY <1>9, <2>1, DeliverType DEF Emit, TypeOK, Deliveries
  <2> QED BY <1>9, <2>1, <2>2, <2>3 DEF Emit, TypeOK, Deliveries
<1>10. CASE AirtimeOver
  BY <1>10 DEF AirtimeOver, TypeOK
<1>11. CASE Clear
  BY <1>11, BoundsAssumption DEF Clear, TypeOK, NoNote
<1>12. CASE UNCHANGED vars
  BY <1>12 DEF vars, TypeOK
<1> QED
  BY <1>1, <1>2, <1>3, <1>4, <1>5, <1>6, <1>7, <1>8, <1>9, <1>10, <1>11, <1>12
  DEF Next, Publish, Channel

LEMMA TypeInit == Init => TypeOK
<1> SUFFICES ASSUME Init PROVE TypeOK
  OBVIOUS
<1>1. history \in Seq(Messages) /\ Len(history) <= HistoryCap
  BY BoundsAssumption DEF Init
<1>2. notes \in [Agents -> [loser : 0..MaxPublished, by : 0..MaxPublished]]
  <2>1. NoNote \in [loser : 0..MaxPublished, by : 0..MaxPublished]
    BY BoundsAssumption DEF NoNote
  <2> QED BY <2>1 DEF Init
<1>3. losers \in [Threads -> SUBSET [loser : Messages, by : Messages]]
  BY DEF Init
<1>4. race \in Races /\ seq \in 0..MaxPublished /\ pending \subseteq Messages
  BY BoundsAssumption DEF Init
<1>5. taken = NoMessage /\ seen = NoRace /\ delivered = {} /\ toAir = FALSE /\ busy = FALSE
  BY DEF Init
<1> QED BY <1>1, <1>2, <1>3, <1>4, <1>5 DEF TypeOK

\* Every reachable state of the radio is well typed: in particular the history
\* never outgrows its deque and a call accepted for the air is still held.
THEOREM TypeCorrect == Spec => []TypeOK
<1>1. QED BY TypeInit, TypeStep, PTL DEF Spec
-------------------------------------------------------------------------------
(* CriticalNeverSuperseded.  The losers a publisher has yet to announce are  *)
(* not critical either: a critical call has rank 0, so nothing outranks it,  *)
(* and _take_group_locked and the per-subject rule both skip critical calls. *)

LosersNotCritical == \A t \in Threads : \A l \in losers[t] : ~Critical(l.loser)

CriticalInv == TypeOK /\ LosersNotCritical /\ CriticalNeverSuperseded

LEMMA RankRange ==
  ASSUME NEW m \in Messages
  PROVE  RankOf(m) \in 0..2 /\ (Critical(m) <=> RankOf(m) = 0)
<1>1. m.call.priority \in Priorities
  BY CallsAssumption DEF Messages
<1> QED BY <1>1 DEF RankOf, Rank, Critical, Priorities

LEMMA DisplacedNotCritical ==
  ASSUME NEW m, NEW n \in Displaced(m) PROVE ~Critical(n)
BY DEF Displaced, DisplacedInGroup, DisplacedBySubject, SameSubject

LEMMA AiredAreMessages == TypeOK => Aired \subseteq Messages
BY DEF TypeOK, Aired

LEMMA CriticalNotBlocked ==
  ASSUME TypeOK, NEW m \in Messages, Critical(m) PROVE Blockers(m) = {}
<1> SUFFICES ASSUME NEW n \in pending \cup Aired, Contradicts(m, n) PROVE FALSE
  BY DEF Blockers
<1>1. n \in Messages
  BY AiredAreMessages DEF TypeOK
<1> QED BY <1>1, RankRange DEF Contradicts

LEMMA EnqueueCritical ==
  ASSUME CriticalInv, NEW t \in Threads, NEW m \in Messages, Enqueue(t, m)
  PROVE  LosersNotCritical' /\ CriticalNeverSuperseded'
<1>1. \A l \in losers'[t] : ~Critical(l.loser)
  <2>1. CASE Blockers(m) # {}
    <3>1. losers'[t] = { [loser |-> m, by |-> n] : n \in StandingAgainst(m) }
      BY <2>1 DEF Enqueue, CriticalInv, TypeOK
    <3> QED BY <2>1, <3>1, CriticalNotBlocked DEF CriticalInv
  <2>2. CASE Blockers(m) = {}
    <3>1. losers'[t] = { [loser |-> n, by |-> m] : n \in Displaced(m) }
      BY <2>2 DEF Enqueue, CriticalInv, TypeOK
    <3> QED BY <3>1, DisplacedNotCritical
  <2> QED BY <2>1, <2>2
<1>2. \A s \in Threads \ {t} : losers'[s] = losers[s]
  BY DEF Enqueue, CriticalInv, TypeOK
<1>3. delivered' = delivered
  BY DEF Enqueue
<1> QED
  BY <1>1, <1>2, <1>3 DEF CriticalInv, LosersNotCritical, CriticalNeverSuperseded, Critical

LEMMA CriticalStep == CriticalInv /\ [Next]_vars => CriticalInv'
<1> SUFFICES ASSUME CriticalInv, [Next]_vars PROVE LosersNotCritical' /\ CriticalNeverSuperseded'
  BY TypeStep DEF CriticalInv
<1> USE DEF Critical
<1>1. CASE PublishCall
  <2>1. PICK c \in Calls, d \in Delays :
          Enqueue("loop", [call |-> c, seq |-> seq + 1, time |-> race.time - d])
    BY <1>1 DEF PublishCall
  <2>2. [call |-> c, seq |-> seq + 1, time |-> race.time - d] \in Messages
    BY <1>1, NewMessage, DelaysAssumption DEF PublishCall, CriticalInv
  <2> QED BY <2>1, <2>2, EnqueueCritical DEF Threads
<1>2. CASE PublishNotice
  <2>1. PICK c \in Notices :
          Enqueue("poller", [call |-> c, seq |-> seq + 1, time |-> race.time])
    BY <1>2 DEF PublishNotice
  <2>2. [call |-> c, seq |-> seq + 1, time |-> race.time] \in Messages
    BY <1>2, RacesAssumption, BoundsAssumption DEF PublishNotice, CriticalInv, TypeOK, Messages
  <2> QED BY <2>1, <2>2, EnqueueCritical DEF Threads
<1>3. ASSUME NEW t \in Threads, Announce(t)
      PROVE  LosersNotCritical' /\ CriticalNeverSuperseded'
  <2>1. LosersNotCritical'
    BY <1>3 DEF Announce, CriticalInv, LosersNotCritical, TypeOK
  <2>2. CriticalNeverSuperseded'
    BY <1>3 DEF Announce, CriticalInv, LosersNotCritical, CriticalNeverSuperseded
  <2> QED BY <2>1, <2>2
<1>4. CASE Judge
  BY <1>4 DEF Judge, CriticalInv, LosersNotCritical, CriticalNeverSuperseded
<1>5. CASE Emit
  BY <1>5 DEF Emit, CriticalInv, LosersNotCritical, CriticalNeverSuperseded
<1>6. ASSUME UNCHANGED <<losers, delivered>>
      PROVE  LosersNotCritical' /\ CriticalNeverSuperseded'
  BY <1>6 DEF CriticalInv, LosersNotCritical, CriticalNeverSuperseded
<1> QED
  BY <1>1, <1>2, <1>3, <1>4, <1>5, <1>6
  DEF Next, Publish, Channel, RaceMoves, TakeSuperseded, Pop, NothingLeft, AirtimeOver, Clear, vars

\* "Critical is never superseded", for every set of calls, every interleaving of
\* the three threads and every conflict window.
THEOREM CriticalSafe == Spec => []CriticalNeverSuperseded
<1>1. Init => CriticalInv
  BY TypeInit DEF Init, CriticalInv, LosersNotCritical, CriticalNeverSuperseded
<1>2. CriticalInv => CriticalNeverSuperseded
  BY DEF CriticalInv
<1> QED BY <1>1, <1>2, CriticalStep, PTL DEF Spec
-------------------------------------------------------------------------------
(* NoContradictionOnAir.  Inductive strengthening: nothing waiting (queued or *)
(* popped and not yet aired) contradicts a call that waits or one that aired. *)
(* publish() keeps the first because it drops a newcomer that contradicts and *)
(* displaces what contradicts the newcomer; the channel only moves calls from *)
(* the queue to the air.  Only the loop publishes calls of a group, and it is *)
(* not inside take() while it publishes: a call between pop() and emit() is   *)
(* in neither container publish() looks at.                                   *)

Waiting == pending \cup OnAir

NoneWaitingContradicts ==
  \A m \in Waiting, n \in Waiting \cup Aired : ~Contradicts(m, n)

AirInv == TypeOK /\ NoneWaitingContradicts /\ NoContradictionOnAir

LEMMA EnqueueAir ==
  ASSUME AirInv, NEW t \in Threads, NEW m \in Messages, Enqueue(t, m),
         GroupOf(m.call) = None \/ taken = NoMessage
  PROVE  NoneWaitingContradicts' /\ NoContradictionOnAir'
<1>1. Aired' = Aired /\ OnAir' = OnAir /\ history' = history
  BY DEF Enqueue, Aired, OnAir
<1>2. NoContradictionOnAir'
  BY <1>1 DEF AirInv, NoContradictionOnAir, Contradicts, SameGroup, RankOf, Gap
<1>3. CASE Blockers(m) # {}
  <2>1. pending' = pending
    BY <1>3 DEF Enqueue
  <2> QED BY <1>1, <1>2, <2>1 DEF AirInv, NoneWaitingContradicts, Waiting
<1>4. CASE Blockers(m) = {}
  <2>1. pending' = (pending \ Displaced(m)) \cup {m}
    BY <1>4 DEF Enqueue
  <2>2. \A n \in pending \cup Aired : ~Contradicts(m, n)
    BY <1>4 DEF Blockers
  <2>3. ~Contradicts(m, m)
    BY DEF Contradicts
  <2>4. \A n \in OnAir : ~Contradicts(m, n) /\ ~Contradicts(n, m)
    BY DEF OnAir, Contradicts, SameGroup
  <2>5. \A n \in pending \ Displaced(m) : ~Contradicts(n, m)
    <3> SUFFICES ASSUME NEW n \in pending, Contradicts(n, m) PROVE n \in Displaced(m)
      OBVIOUS
    <3>1. n \in Messages
      BY DEF AirInv, TypeOK
    <3>2. /\ GroupOf(m.call) # None
          /\ SameGroup(m, n)
          /\ n.call.agent # m.call.agent
          /\ RankOf(m) < RankOf(n)
      BY DEF Contradicts, SameGroup
    <3>3. RankOf(n) >= RankOf(m) /\ ~Critical(n)
      BY <3>1, <3>2, RankRange
    <3> QED BY <3>2, <3>3 DEF Displaced, DisplacedInGroup
  <2>6. \A a \in Waiting', b \in (Waiting \cup Aired)' : ~Contradicts(a, b)
    <3>1. Waiting' = (pending \ Displaced(m)) \cup {m} \cup OnAir
      BY <1>1, <2>1 DEF Waiting
    <3>2. \A a \in Waiting, b \in Waiting \cup Aired : ~Contradicts(a, b)
      BY DEF AirInv, NoneWaitingContradicts
    <3> QED BY <1>1, <2>2, <2>3, <2>4, <2>5, <3>1, <3>2 DEF Waiting
  <2> QED BY <1>2, <2>6 DEF NoneWaitingContradicts
<1> QED BY <1>3, <1>4

LEMMA AirStep == AirInv /\ [Next]_vars => AirInv'
<1> SUFFICES ASSUME AirInv, [Next]_vars
             PROVE  NoneWaitingContradicts' /\ NoContradictionOnAir'
  BY TypeStep DEF AirInv
<1>1. CASE PublishCall
  <2>1. PICK c \in Calls, d \in Delays :
          Enqueue("loop", [call |-> c, seq |-> seq + 1, time |-> race.time - d])
    BY <1>1 DEF PublishCall
  <2>2. [call |-> c, seq |-> seq + 1, time |-> race.time - d] \in Messages
    BY <1>1, NewMessage, DelaysAssumption DEF PublishCall, AirInv
  <2>3. taken = NoMessage
    BY <1>1 DEF PublishCall, LoopFree
  <2> QED BY <2>1, <2>2, <2>3, EnqueueAir DEF Threads
<1>2. CASE PublishNotice
  <2>1. PICK c \in Notices :
          Enqueue("poller", [call |-> c, seq |-> seq + 1, time |-> race.time])
    BY <1>2 DEF PublishNotice
  <2>2. [call |-> c, seq |-> seq + 1, time |-> race.time] \in Messages
    BY <1>2, RacesAssumption, BoundsAssumption DEF PublishNotice, AirInv, TypeOK, Messages
  <2>3. GroupOf(c) = None
    BY NoticesAssumption
  <2> QED BY <2>1, <2>2, <2>3, EnqueueAir DEF Threads
<1>3. ASSUME UNCHANGED history, Waiting' \subseteq Waiting
      PROVE  NoneWaitingContradicts' /\ NoContradictionOnAir'
  BY <1>3 DEF AirInv, NoneWaitingContradicts, NoContradictionOnAir, Aired
<1>4. CASE Pop
  <2>1. PICK m \in pending : taken' = m /\ pending' = pending \ {m}
    BY <1>4 DEF Pop, IsFront
  <2>2. Waiting' \subseteq Waiting /\ history' = history
    BY <1>4, <2>1 DEF Pop, Waiting, OnAir
  <2> QED BY <1>3, <2>2
<1>5. CASE Judge
  <2>1. Waiting' \subseteq Waiting /\ history' = history
    BY <1>5 DEF Judge, AfterExpiry, Waiting, OnAir
  <2> QED BY <1>3, <2>1
<1>6. CASE Emit
  <2>1. taken # NoMessage /\ taken \in Messages
    BY <1>6 DEF Emit, AirInv, TypeOK
  <2>2. taken \in Waiting /\ Waiting' \subseteq Waiting
    BY <1>6, <2>1 DEF Emit, Waiting, OnAir
  <2>3. history \in Seq(Messages)
    BY DEF AirInv, TypeOK
  <2>4. Aired' \subseteq Aired \cup {taken}
    BY <1>6, <2>1, <2>3 DEF Emit, PutOnAir, Aired
  <2>5. NoneWaitingContradicts'
    BY <2>2, <2>4 DEF AirInv, NoneWaitingContradicts
  <2>6. \A i \in DOMAIN history : ~Contradicts(taken, history[i])
    BY <2>2 DEF AirInv, NoneWaitingContradicts, Aired
  <2>7. CASE Len(history) < HistoryCap
    <3>1. history' = Append(history, taken)
      BY <1>6, <2>7 DEF Emit, PutOnAir
    <3> QED BY <2>1, <2>3, <2>5, <2>6, <3>1 DEF AirInv, NoContradictionOnAir
  <2>8. CASE ~(Len(history) < HistoryCap)
    <3>1. history' = Append(Tail(history), taken)
      BY <1>6, <2>8 DEF Emit, PutOnAir
    <3>2. Len(history) > 0
      BY <2>3, <2>8, BoundsAssumption
    <3>3. /\ Len(history') = Len(history)
          /\ history'[Len(history)] = taken
          /\ \A i \in 1..(Len(history) - 1) : history'[i] = history[i + 1]
          /\ DOMAIN history' = 1..Len(history)
      BY <2>1, <2>3, <3>1, <3>2
    <3>4. \A i, j \in 1..Len(history) : i < j => ~Contradicts(history'[j], history'[i])
      <4> SUFFICES ASSUME NEW i \in 1..Len(history), NEW j \in 1..Len(history), i < j
                   PROVE  ~Contradicts(history'[j], history'[i])
        OBVIOUS
      <4>1. history'[i] = history[i + 1] /\ i + 1 \in DOMAIN history
        BY <2>3, <3>3
      <4>2. CASE j = Len(history)
        BY <2>6, <3>3, <4>1, <4>2
      <4>3. CASE j < Len(history)
        <5>1. history'[j] = history[j + 1] /\ j + 1 \in DOMAIN history
          BY <2>3, <3>3, <4>3
        <5> QED BY <4>1, <5>1 DEF AirInv, NoContradictionOnAir
      <4> QED BY <2>3, <4>2, <4>3
    <3> QED BY <2>5, <3>3, <3>4 DEF NoContradictionOnAir
  <2> QED BY <2>7, <2>8
<1>7. CASE Clear
  <2>1. history' = << >> /\ Waiting' \subseteq Waiting
    BY <1>7 DEF Clear, Waiting, OnAir
  <2>2. Aired' = {}
    BY <2>1 DEF Aired
  <2> QED BY <2>1, <2>2 DEF AirInv, NoneWaitingContradicts, NoContradictionOnAir
<1>8. ASSUME UNCHANGED <<pending, taken, history>>
      PROVE  NoneWaitingContradicts' /\ NoContradictionOnAir'
  BY <1>3, <1>8 DEF Waiting, OnAir
<1> QED
  BY <1>1, <1>2, <1>4, <1>5, <1>6, <1>7, <1>8
  DEF Next, Publish, Channel, RaceMoves, Announce, TakeSuperseded, NothingLeft, AirtimeOver, vars

\* "One answer per decision": the driver never hears a call and then, inside the
\* conflict window, a lower-priority call of another agent that contradicts it.
THEOREM OneAnswerOnAir == Spec => []NoContradictionOnAir
<1>1. Init => AirInv
  BY TypeInit DEF Init, AirInv, NoneWaitingContradicts, NoContradictionOnAir, Waiting, OnAir
<1>2. AirInv => NoContradictionOnAir
  BY DEF AirInv
<1> QED BY <1>1, <1>2, AirStep, PTL DEF Spec
-------------------------------------------------------------------------------
(* LowerNeverDisplacesHigher.  What a publisher has yet to announce is ranked *)
(* already: a newcomer is dropped only for a call that outranks it, and the   *)
(* calls a newcomer takes out of its group are its agent's own or rank no     *)
(* higher; outside a group only the agent's own calls are taken out.          *)

Ranked(l) == l.by.call.agent # l.loser.call.agent => RankOf(l.by) <= RankOf(l.loser)

LosersRanked == \A t \in Threads : \A l \in losers[t] : Ranked(l)

RankInv == TypeOK /\ LosersRanked /\ LowerNeverDisplacesHigher

LEMMA StandingContradicted ==
  ASSUME NEW m, NEW n \in StandingAgainst(m) PROVE Contradicts(m, n)
BY DEF StandingAgainst, Blockers

LEMMA EnqueueRanked ==
  ASSUME RankInv, NEW t \in Threads, NEW m \in Messages, Enqueue(t, m)
  PROVE  LosersRanked' /\ LowerNeverDisplacesHigher'
<1>1. \A l \in losers'[t] : Ranked(l)
  <2>1. CASE Blockers(m) # {}
    <3>1. losers'[t] = { [loser |-> m, by |-> n] : n \in StandingAgainst(m) }
      BY <2>1 DEF Enqueue, RankInv, TypeOK
    <3>2. ASSUME NEW n \in StandingAgainst(m) PROVE RankOf(n) <= RankOf(m)
      <4>1. n \in Messages
        BY StandingIsMessage DEF RankInv
      <4> QED BY <4>1, StandingContradicted, RankRange DEF Contradicts
    <3> QED BY <3>1, <3>2 DEF Ranked, RankOf
  <2>2. CASE Blockers(m) = {}
    <3>1. losers'[t] = { [loser |-> n, by |-> m] : n \in Displaced(m) }
      BY <2>2 DEF Enqueue, RankInv, TypeOK
    <3>2. ASSUME NEW n \in Displaced(m), m.call.agent # n.call.agent
          PROVE  RankOf(m) <= RankOf(n)
      <4>1. n \in Messages
        BY DisplacedQueued DEF RankInv, TypeOK
      <4>2. n \in DisplacedInGroup(m)
        BY <3>2 DEF Displaced, DisplacedBySubject, SameSubject
      <4> QED BY <3>2, <4>1, <4>2, RankRange DEF DisplacedInGroup
    <3> QED BY <3>1, <3>2 DEF Ranked, RankOf
  <2> QED BY <2>1, <2>2
<1>2. \A s \in Threads \ {t} : losers'[s] = losers[s]
  BY DEF Enqueue, RankInv, TypeOK
<1>3. delivered' = delivered
  BY DEF Enqueue
<1> QED
  BY <1>1, <1>2, <1>3 DEF RankInv, LosersRanked, LowerNeverDisplacesHigher

LEMMA RankStep == RankInv /\ [Next]_vars => RankInv'
<1> SUFFICES ASSUME RankInv, [Next]_vars PROVE LosersRanked' /\ LowerNeverDisplacesHigher'
  BY TypeStep DEF RankInv
<1>1. CASE PublishCall
  <2>1. PICK c \in Calls, d \in Delays :
          Enqueue("loop", [call |-> c, seq |-> seq + 1, time |-> race.time - d])
    BY <1>1 DEF PublishCall
  <2>2. [call |-> c, seq |-> seq + 1, time |-> race.time - d] \in Messages
    BY <1>1, NewMessage, DelaysAssumption DEF PublishCall, RankInv
  <2> QED BY <2>1, <2>2, EnqueueRanked DEF Threads
<1>2. CASE PublishNotice
  <2>1. PICK c \in Notices :
          Enqueue("poller", [call |-> c, seq |-> seq + 1, time |-> race.time])
    BY <1>2 DEF PublishNotice
  <2>2. [call |-> c, seq |-> seq + 1, time |-> race.time] \in Messages
    BY <1>2, RacesAssumption, BoundsAssumption DEF PublishNotice, RankInv, TypeOK, Messages
  <2> QED BY <2>1, <2>2, EnqueueRanked DEF Threads
<1>3. ASSUME NEW t \in Threads, Announce(t)
      PROVE  LosersRanked' /\ LowerNeverDisplacesHigher'
  <2>1. LosersRanked'
    BY <1>3 DEF Announce, RankInv, LosersRanked, TypeOK
  <2>2. \A l \in losers[t] : Ranked(l)
    BY DEF RankInv, LosersRanked
  <2>3. \A d \in delivered' : d \in delivered
           \/ \E l \in losers[t] : d.msg = l.loser /\ d.by = l.by
    BY <1>3 DEF Announce
  <2>4. LowerNeverDisplacesHigher'
    BY <2>2, <2>3 DEF RankInv, LowerNeverDisplacesHigher, Ranked
  <2> QED BY <2>1, <2>4
<1>4. CASE Judge
  BY <1>4 DEF Judge, RankInv, LosersRanked, LowerNeverDisplacesHigher
<1>5. CASE Emit
  BY <1>5 DEF Emit, RankInv, LosersRanked, LowerNeverDisplacesHigher
<1>6. ASSUME UNCHANGED <<losers, delivered>>
      PROVE  LosersRanked' /\ LowerNeverDisplacesHigher'
  BY <1>6 DEF RankInv, LosersRanked, LowerNeverDisplacesHigher
<1> QED
  BY <1>1, <1>2, <1>3, <1>4, <1>5, <1>6
  DEF Next, Publish, Channel, RaceMoves, TakeSuperseded, Pop, NothingLeft, AirtimeOver, Clear, vars

\* "A lower-priority call never displaces a higher one": whichever of two agents
\* publishes first and whatever is queued or aired, the call that kept another
\* agent's call off the air ranks at least as high.
THEOREM RanksHold == Spec => []LowerNeverDisplacesHigher
<1>1. Init => RankInv
  BY TypeInit DEF Init, RankInv, LosersRanked, LowerNeverDisplacesHigher
<1>2. RankInv => LowerNeverDisplacesHigher
  BY DEF RankInv
<1> QED BY <1>1, <1>2, RankStep, PTL DEF Spec
-------------------------------------------------------------------------------
(* DecidedOnce.  Every call in the feed was numbered by publish() under the   *)
(* lock, so a seq names one call, and no call is two publishers' to announce. *)
(* A publisher announces its losers before it publishes again, and drops a    *)
(* newcomer for one standing call.                                            *)

Live == pending \cup Losing \cup OnAir \cup Decided

Numbered ==
  /\ \A m \in Live : m.seq <= seq
  /\ \A m, n \in Live : m.seq = n.seq => m = n

LosersOnce ==
  \A t, u \in Threads : \A l \in losers[t], k \in losers[u] :
    l.loser = k.loser => l = k /\ t = u

Apart ==
  /\ pending \cap Losing = {} /\ pending \cap OnAir = {} /\ Losing \cap OnAir = {}
  /\ (pending \cup Losing \cup OnAir) \cap Decided = {}

ToldOnce == \A d, e \in delivered : d.msg = e.msg => d = e

OnceInv == TypeOK /\ Numbered /\ LosersOnce /\ Apart /\ ToldOnce

LEMMA LiveAreMessages == TypeOK => Live \subseteq Messages
BY DEF TypeOK, Live, Losing, OnAir, Decided

LEMMA FrontIsOne ==
  ASSUME NEW queue \in SUBSET Messages, NEW m, NEW n, IsFront(m, queue), IsFront(n, queue)
  PROVE  m = n
<1> SUFFICES ASSUME m # n PROVE FALSE
  OBVIOUS
<1>1. m \in Messages /\ n \in Messages
  BY DEF IsFront
<1>2. Before(m, n) /\ Before(n, m)
  BY DEF IsFront
<1>3. RankOf(m) \in Int /\ RankOf(n) \in Int /\ m.seq \in Int /\ n.seq \in Int
  BY <1>1, RankRange DEF Messages
<1> HIDE DEF Messages
<1> QED BY <1>2, <1>3 DEF Before

LEMMA StandingIsOne ==
  ASSUME TypeOK, NEW m, NEW a \in StandingAgainst(m), NEW b \in StandingAgainst(m)
  PROVE  a = b
<1> DEFINE queued == Blockers(m) \cap pending
<1>1. CASE queued # {}
  <2>1. IsFront(a, queued) /\ IsFront(b, queued)
    BY <1>1 DEF StandingAgainst
  <2>2. queued \in SUBSET Messages
    BY DEF TypeOK
  <2> QED BY <2>1, <2>2, FrontIsOne
<1>2. CASE queued = {}
  <2> DEFINE newest == { i \in DOMAIN history :
                /\ Contradicts(m, history[i])
                /\ \A j \in DOMAIN history : j > i => ~Contradicts(m, history[j]) }
  <2>1. StandingAgainst(m) = { history[i] : i \in newest }
    BY <1>2 DEF StandingAgainst
  <2>2. PICK i \in newest : a = history[i]
    BY <2>1
  <2>3. PICK j \in newest : b = history[j]
    BY <2>1
  <2>4. i \in Int /\ j \in Int /\ ~(j > i) /\ ~(i > j)
    BY DEF TypeOK
  <2> QED BY <2>2, <2>3, <2>4
<1> QED BY <1>1, <1>2

LEMMA EnqueueOnce ==
  ASSUME OnceInv, NEW t \in Threads, NEW m \in Messages, Enqueue(t, m),
         m.seq = seq + 1, losers[t] = {}
  PROVE  Numbered' /\ LosersOnce' /\ Apart' /\ ToldOnce'
<1> DEFINE gone == { l.loser : l \in losers'[t] }
<1>1. UNCHANGED <<taken, delivered>> /\ seq' = seq + 1
  BY DEF Enqueue
<1>2. OnAir' = OnAir /\ Decided' = Decided
  BY <1>1 DEF OnAir, Decided
<1>3. \A u \in Threads \ {t} : losers'[u] = losers[u]
  BY DEF Enqueue, OnceInv, TypeOK
<1>4. Losing' = Losing \cup gone
  <2>1. ASSUME NEW x PROVE x \in Losing' <=> x \in Losing \cup gone
    BY <1>3 DEF Losing
  <2> QED BY <2>1
<1>5. m \notin Live
  <2>1. seq \in Int
    BY DEF OnceInv, TypeOK
  <2> QED BY <2>1 DEF OnceInv, Numbered
<1>6. \/ gone \subseteq {m} /\ pending' = pending
      \/ gone \subseteq pending /\ pending' = (pending \ gone) \cup {m}
  <2>1. CASE Blockers(m) # {}
    BY <2>1 DEF Enqueue, OnceInv, TypeOK
  <2>2. CASE Blockers(m) = {}
    <3>1. losers'[t] = { [loser |-> n, by |-> m] : n \in Displaced(m) }
      BY <2>2 DEF Enqueue, OnceInv, TypeOK
    <3>2. gone = Displaced(m)
      <4>1. \A l \in losers'[t] : l.loser \in Displaced(m)
        BY <3>1
      <4>2. \A n \in Displaced(m) : \E l \in losers'[t] : n = l.loser
        <5> SUFFICES ASSUME NEW n \in Displaced(m)
                     PROVE  \E l \in losers'[t] : n = l.loser
          OBVIOUS
        <5>1. [loser |-> n, by |-> m] \in losers'[t]
          BY <3>1
        <5> QED BY <5>1
      <4> QED BY <4>1, <4>2
    <3> QED BY <2>2, <3>2, DisplacedQueued DEF Enqueue
  <2> QED BY <2>1, <2>2
<1>7. Live' \subseteq Live \cup {m}
  BY <1>2, <1>4, <1>6 DEF Live
<1>8. Numbered'
  <2>1. \A n \in Live : n.seq \in Int /\ n.seq <= seq
    BY LiveAreMessages DEF OnceInv, Numbered, Messages
  <2>2. seq \in Int
    BY DEF OnceInv, TypeOK
  <2>3. \A n \in Live' : n.seq <= seq'
    BY <1>1, <1>7, <2>1, <2>2
  <2>4. \A n, k \in Live' : n.seq = k.seq => n = k
    BY <1>7, <2>1, <2>2 DEF OnceInv, Numbered
  <2> QED BY <2>3, <2>4 DEF Numbered
<1>9. Apart'
  BY <1>2, <1>4, <1>5, <1>6 DEF OnceInv, Apart, Live
<1>10. gone \cap Losing = {}
  BY <1>5, <1>6 DEF OnceInv, Apart, Live
<1>11. \A l, k \in losers'[t] : l.loser = k.loser => l = k
  <2>1. CASE Blockers(m) # {}
    <3>1. losers'[t] = { [loser |-> m, by |-> n] : n \in StandingAgainst(m) }
      BY <2>1 DEF Enqueue, OnceInv, TypeOK
    <3>2. \A a, b \in StandingAgainst(m) : a = b
      BY StandingIsOne DEF OnceInv
    <3> QED BY <3>1, <3>2
  <2>2. CASE Blockers(m) = {}
    <3>1. losers'[t] = { [loser |-> n, by |-> m] : n \in Displaced(m) }
      BY <2>2 DEF Enqueue, OnceInv, TypeOK
    <3> QED BY <3>1
  <2> QED BY <2>1, <2>2
<1>12. LosersOnce'
  <2> SUFFICES ASSUME NEW u \in Threads, NEW v \in Threads,
                      NEW l \in losers'[u], NEW k \in losers'[v], l.loser = k.loser
               PROVE  l = k /\ u = v
    BY DEF LosersOnce
  <2>1. CASE u = t /\ v = t
    BY <1>11, <2>1
  <2>2. CASE u # t /\ v # t
    BY <1>3, <2>2 DEF OnceInv, LosersOnce
  <2>3. CASE u = t /\ v # t
    BY <1>3, <1>10, <2>3 DEF Losing
  <2>4. CASE u # t /\ v = t
    BY <1>3, <1>10, <2>4 DEF Losing
  <2> QED BY <2>1, <2>2, <2>3, <2>4
<1> QED BY <1>1, <1>8, <1>9, <1>12 DEF OnceInv, ToldOnce

LEMMA AnnounceOnce ==
  ASSUME OnceInv, NEW t \in Threads, Announce(t)
  PROVE  Numbered' /\ LosersOnce' /\ Apart' /\ ToldOnce'
<1> DEFINE told == { l.loser : l \in losers[t] }
<1>1. UNCHANGED <<seq, pending, taken>> /\ OnAir' = OnAir
  BY DEF Announce, OnAir
<1>2. losers'[t] = {} /\ \A u \in Threads \ {t} : losers'[u] = losers[u]
  BY DEF Announce, OnceInv, TypeOK
<1>3. delivered' = delivered \cup
        { [msg |-> l.loser, as |-> "superseded", by |-> l.by] : l \in losers[t] }
  BY DEF Announce
<1>4. Decided' = Decided \cup told
  <2> DEFINE new == { [msg |-> l.loser, as |-> "superseded", by |-> l.by] : l \in losers[t] }
  <2>1. \A d \in new : d.msg \in told
    OBVIOUS
  <2>2. \A x \in told : \E d \in new : x = d.msg
    <3> SUFFICES ASSUME NEW l \in losers[t] PROVE \E d \in new : l.loser = d.msg
      OBVIOUS
    <3>1. [msg |-> l.loser, as |-> "superseded", by |-> l.by] \in new
      OBVIOUS
    <3> QED BY <3>1
  <2>3. delivered' = delivered \cup new
    BY <1>3
  <2> HIDE DEF new, told
  <2> QED BY <2>1, <2>2, <2>3 DEF Decided
<1>5. Losing' = Losing \ told /\ told \subseteq Losing
  <2>1. told \subseteq Losing
    BY DEF Losing
  <2>2. ASSUME NEW x \in Losing' PROVE x \in Losing \ told
    <3>1. PICK u \in Threads : \E l \in losers'[u] : x = l.loser
      BY DEF Losing
    <3>2. u # t
      BY <1>2, <3>1
    <3> QED BY <1>2, <3>1, <3>2 DEF Losing, OnceInv, LosersOnce
  <2>3. ASSUME NEW x \in Losing \ told PROVE x \in Losing'
    BY <1>2 DEF Losing
  <2> QED BY <2>1, <2>2, <2>3
<1>6. Live' \subseteq Live
  BY <1>1, <1>4, <1>5 DEF Live
<1>7. Numbered'
  BY <1>1, <1>6 DEF OnceInv, Numbered
<1>8. LosersOnce'
  BY <1>2 DEF OnceInv, LosersOnce
<1>9. Apart'
  BY <1>1, <1>4, <1>5 DEF OnceInv, Apart
<1>10. told \cap Decided = {}
  BY <1>5 DEF OnceInv, Apart
<1>11. ToldOnce'
  <2> SUFFICES ASSUME NEW d \in delivered', NEW e \in delivered', d.msg = e.msg PROVE d = e
    BY DEF ToldOnce
  <2> DEFINE new == { [msg |-> l.loser, as |-> "superseded", by |-> l.by] : l \in losers[t] }
  <2>1. CASE d \in delivered /\ e \in delivered
    BY <2>1 DEF OnceInv, ToldOnce
  <2>2. CASE d \in new /\ e \in new
    BY <2>2 DEF OnceInv, LosersOnce
  <2>3. CASE d \in delivered /\ e \in new
    BY <1>10, <2>3 DEF Decided
  <2>4. CASE d \in new /\ e \in delivered
    BY <1>10, <2>4 DEF Decided
  <2> QED BY <1>3, <2>1, <2>2, <2>3, <2>4
<1> QED BY <1>7, <1>8, <1>9, <1>11

\* The channel tells a call's fate when it gives the call up: it airs or expires `taken`.
LEMMA TellTaken ==
  ASSUME OnceInv, taken # NoMessage, taken' = NoMessage, UNCHANGED <<seq, pending, losers>>,
         NEW mark,
         delivered' = delivered \cup { [msg |-> taken, as |-> mark, by |-> NoMessage] }
  PROVE  Numbered' /\ LosersOnce' /\ Apart' /\ ToldOnce'
<1>1. OnAir = {taken} /\ OnAir' = {}
  BY DEF OnAir
<1>2. Losing' = Losing
  BY DEF Losing
<1>3. Decided' = Decided \cup {taken}
  <2> DEFINE new == [msg |-> taken, as |-> mark, by |-> NoMessage]
  <2>1. new.msg = taken /\ delivered' = delivered \cup {new}
    OBVIOUS
  <2> HIDE DEF new
  <2> QED BY <2>1 DEF Decided
<1>4. Live' \subseteq Live
  BY <1>1, <1>2, <1>3 DEF Live
<1>5. Numbered'
  BY <1>4 DEF OnceInv, Numbered
<1>6. LosersOnce'
  BY DEF OnceInv, LosersOnce
<1>7. Apart'
  BY <1>1, <1>2, <1>3 DEF OnceInv, Apart
<1>8. taken \notin Decided
  BY <1>1 DEF OnceInv, Apart
<1>9. ToldOnce'
  BY <1>8 DEF OnceInv, ToldOnce, Decided
<1> QED BY <1>5, <1>6, <1>7, <1>9

\* Nothing told: the queue and the channel hold no call they did not hold.
LEMMA TellNothing ==
  ASSUME OnceInv, UNCHANGED <<seq, losers, delivered>>,
         pending' \subseteq pending, OnAir' \subseteq pending \cup OnAir,
         pending' \cap OnAir' = {}
  PROVE  Numbered' /\ LosersOnce' /\ Apart' /\ ToldOnce'
<1>1. Losing' = Losing /\ Decided' = Decided
  BY DEF Losing, Decided
<1>2. Live' \subseteq Live
  BY <1>1 DEF Live
<1>3. Numbered'
  BY <1>2 DEF OnceInv, Numbered
<1>4. LosersOnce' /\ ToldOnce'
  BY DEF OnceInv, LosersOnce, ToldOnce
<1>5. Apart'
  BY <1>1 DEF OnceInv, Apart
<1> QED BY <1>3, <1>4, <1>5

LEMMA OnceStep == OnceInv /\ [Next]_vars => OnceInv'
<1> SUFFICES ASSUME OnceInv, [Next]_vars
             PROVE  Numbered' /\ LosersOnce' /\ Apart' /\ ToldOnce'
  BY TypeStep DEF OnceInv
<1>1. CASE PublishCall
  <2>1. PICK c \in Calls, d \in Delays :
          Enqueue("loop", [call |-> c, seq |-> seq + 1, time |-> race.time - d])
    BY <1>1 DEF PublishCall
  <2>2. [call |-> c, seq |-> seq + 1, time |-> race.time - d] \in Messages
    BY <1>1, NewMessage, DelaysAssumption DEF PublishCall, OnceInv
  <2>3. losers["loop"] = {}
    BY <1>1 DEF PublishCall, LoopFree
  <2> QED BY <2>1, <2>2, <2>3, EnqueueOnce DEF Threads
<1>2. CASE PublishNotice
  <2>1. PICK c \in Notices :
          Enqueue("poller", [call |-> c, seq |-> seq + 1, time |-> race.time])
    BY <1>2 DEF PublishNotice
  <2>2. [call |-> c, seq |-> seq + 1, time |-> race.time] \in Messages
    BY <1>2, RacesAssumption, BoundsAssumption DEF PublishNotice, OnceInv, TypeOK, Messages
  <2>3. losers["poller"] = {}
    BY <1>2 DEF PublishNotice
  <2> QED BY <2>1, <2>2, <2>3, EnqueueOnce DEF Threads
<1>3. ASSUME NEW t \in Threads, Announce(t)
      PROVE  Numbered' /\ LosersOnce' /\ Apart' /\ ToldOnce'
  BY <1>3, AnnounceOnce
<1>4. CASE Pop
  <2>1. PICK m \in pending : taken' = m /\ pending' = pending \ {m}
    BY <1>4 DEF Pop, IsFront
  <2>2. OnAir' \subseteq {m}
    BY <2>1 DEF OnAir
  <2> QED BY <1>4, <2>1, <2>2, TellNothing DEF Pop
<1>5. CASE Judge
  <2>1. CASE delivered' = delivered
    <3>1. OnAir' \subseteq OnAir /\ pending' = pending
      BY <1>5 DEF Judge, AfterExpiry, OnAir
    <3>2. UNCHANGED <<seq, losers>>
      BY <1>5 DEF Judge
    <3> QED BY <2>1, <3>1, <3>2, TellNothing DEF OnceInv, Apart
  <2>2. CASE delivered' # delivered
    <3>1. /\ taken # NoMessage /\ taken' = NoMessage
          /\ UNCHANGED <<seq, pending, losers>>
          /\ delivered' = delivered \cup
                            { [msg |-> taken, as |-> "expired", by |-> NoMessage] }
      BY <1>5, <2>2 DEF Judge, AfterExpiry
    <3> QED BY <3>1, TellTaken
  <2> QED BY <2>1, <2>2
<1>6. CASE Emit
  <2>1. taken # NoMessage
    BY <1>6 DEF Emit, OnceInv, TypeOK
  <2> QED BY <1>6, <2>1, TellTaken DEF Emit
<1>7. CASE Clear
  <2>1. pending' = {} /\ UNCHANGED <<seq, losers, delivered, taken>>
    BY <1>7 DEF Clear
  <2> QED BY <2>1, TellNothing DEF OnAir
<1>8. ASSUME UNCHANGED <<seq, pending, taken, losers, delivered>>
      PROVE  Numbered' /\ LosersOnce' /\ Apart' /\ ToldOnce'
  <2>1. OnAir' = OnAir
    BY <1>8 DEF OnAir
  <2> QED BY <1>8, <2>1, TellNothing DEF OnceInv, Apart
<1> QED
  BY <1>1, <1>2, <1>3, <1>4, <1>5, <1>6, <1>7, <1>8
  DEF Next, Publish, Channel, RaceMoves, TakeSuperseded, NothingLeft, AirtimeOver, vars

\* A call is told one fate, once: no interleaving of the two publishers, the
\* channel and clear() airs a call it expired, announces one twice, or leaves
\* one queued that a consumer was already told about.
THEOREM FateToldOnce == Spec => []DecidedOnce
<1>1. Init => OnceInv
  BY TypeInit
  DEF Init, OnceInv, Numbered, LosersOnce, Apart, ToldOnce, Live, Losing, OnAir, Decided
<1>2. OnceInv => DecidedOnce
  <2> SUFFICES ASSUME OnceInv PROVE DecidedOnce
    OBVIOUS
  <2>1. \A d \in delivered : d.msg \in Live
    BY DEF Live, Decided
  <2> QED BY <2>1 DEF OnceInv, Numbered, Apart, ToldOnce, DecidedOnce
<1> QED BY <1>1, <1>2, OnceStep, PTL DEF Spec
===============================================================================
