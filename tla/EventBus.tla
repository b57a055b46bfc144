------------------------------- MODULE EventBus -------------------------------
(***************************************************************************)
(* rtv.racestate.bus: the race bus and one queue-style subscription.       *)
(*                                                                         *)
(* Producers are threads (the live poller or the replay driver, an API     *)
(* thread in ask(), the vision worker, the director on the loop).  The     *)
(* consumer is an asyncio task (the pitwall's pump, /ws/pitwall) that      *)
(* calls next_events() in a loop.  A producer wakes it through             *)
(* loop.call_soon_threadsafe(waiter.set), so the set runs only when the    *)
(* loop is back in its scheduler.  RadioSubscription and the activity      *)
(* log's subscription repeat this protocol line by line.                   *)
(***************************************************************************)
EXTENDS Integers, Sequences, FiniteSets

CONSTANTS
  Producers,   \* threads that publish
  QueueSize,   \* maxsize of the subscription
  HistoryCap,  \* length of the bus's ring buffer
  MaxEvents    \* bound on the events one producer publishes

ASSUME SizesAssumption ==
  /\ QueueSize \in Nat \ {0}
  /\ HistoryCap \in Nat \ {0}
  /\ MaxEvents \in Nat

Events == [from : Producers, n : 1..MaxEvents]

VARIABLES
  history,    \* EventBus._history
  sent,       \* per producer: events published so far
  at,         \* per producer: where it is in publish()
  queue,      \* Subscription._queue
  dropped,    \* Subscription._dropped
  closed,     \* Subscription._closed
  bound,      \* _loop and _waiter exist
  waiter,     \* the asyncio.Event is set
  scheduled,  \* waiter.set callbacks waiting in the loop
  pc,         \* where the consumer is in next_events()
  taken       \* what next_events() has handed the consumer, in order

vars == <<history, sent, at, queue, dropped, closed, bound, waiter, scheduled, pc, taken>>
producerVars == <<history, sent, at>>
queueVars == <<queue, dropped, closed>>
loopVars == <<bound, waiter, scheduled>>
-------------------------------------------------------------------------------
\* The event a producer is publishing.
Current(p) == [from |-> p, n |-> sent[p]]

\* deque(maxlen=cap).append
AppendBounded_Unbounded(s, e, cap) == Append(s, e)
AppendBounded_AtFront(s, e, cap) == <<e>> \o (IF Len(s) < cap THEN s ELSE Tail(s))
AppendBounded(s, e, cap) == IF Len(s) < cap THEN Append(s, e) ELSE Append(Tail(s), e)

Init ==
  /\ history = << >>
  /\ sent = [p \in Producers |-> 0]
  /\ at = [p \in Producers |-> "idle"]
  /\ queue = << >>
  /\ dropped = 0
  /\ closed = FALSE
  /\ bound = FALSE
  /\ waiter = FALSE
  /\ scheduled = 0
  /\ pc = "away"
  /\ taken = << >>

\* publish(), under the bus lock: history and a copy of the subscribers.
Publish(p) ==
  /\ at[p] = "idle"
  /\ sent[p] < MaxEvents
  /\ sent' = [sent EXCEPT ![p] = @ + 1]
  /\ history' = AppendBounded(history, [from |-> p, n |-> sent[p] + 1], HistoryCap)
  /\ at' = [at EXCEPT ![p] = "deliver"]
  /\ UNCHANGED <<queueVars, loopVars, pc, taken>>

\* _deliver(), under the subscription's lock: a full queue loses its oldest event.
Overflows == Len(queue) = QueueSize

Deliver(p) ==
  /\ at[p] = "deliver"
  /\ at' = [at EXCEPT ![p] = IF closed THEN "idle" ELSE "wake"]
  /\ IF closed
       THEN UNCHANGED <<queue, dropped>>
       ELSE /\ queue' = AppendBounded(queue, Current(p), QueueSize)
            /\ dropped' = IF Overflows THEN dropped + 1 ELSE dropped
  /\ UNCHANGED <<history, sent, closed, loopVars, pc, taken>>

\* _deliver(), after the lock: wake the consumer if it ever awaited.
NeedsWake_FirstOnly == bound /\ Len(queue) = 1
NeedsWake == bound

Wake(p) ==
  /\ at[p] = "wake"
  /\ at' = [at EXCEPT ![p] = "idle"]
  /\ scheduled' = IF NeedsWake THEN scheduled + 1 ELSE scheduled
  /\ UNCHANGED <<history, sent, queueVars, bound, waiter, pc, taken>>

\* The loop runs a scheduled waiter.set while the consumer is not inside the
\* synchronous part of next_events().
RunCallback ==
  /\ scheduled > 0
  /\ pc \in {"away", "waiting"}
  /\ scheduled' = scheduled - 1
  /\ waiter' = TRUE
  /\ UNCHANGED <<producerVars, queueVars, bound, pc, taken>>

\* drain(): take everything queued right now.
Drain == taken' = taken \o queue /\ queue' = << >>

\* next_events() is called: bind the loop on first use.
Call ==
  /\ pc = "away" /\ ~closed
  /\ bound' = TRUE
  /\ pc' = "drain"
  /\ UNCHANGED <<producerVars, queueVars, waiter, scheduled, taken>>

FirstDrain ==
  /\ pc = "drain"
  /\ Drain
  /\ pc' = IF queue = << >> THEN "clear" ELSE "away"
  /\ UNCHANGED <<producerVars, dropped, closed, loopVars>>

ClearWaiter ==
  /\ pc = "clear"
  /\ waiter' = FALSE
  /\ pc' = "recheck"
  /\ UNCHANGED <<producerVars, queueVars, bound, scheduled, taken>>

Recheck ==
  /\ pc = "recheck"
  /\ Drain
  /\ pc' = IF queue = << >> THEN "waiting" ELSE "away"
  /\ UNCHANGED <<producerVars, dropped, closed, loopVars>>

\* The wait is over: the waiter was set ...
Woken ==
  /\ pc = "waiting" /\ waiter
  /\ Drain
  /\ pc' = "away"
  /\ UNCHANGED <<producerVars, dropped, closed, loopVars>>

\* ... or `timeout` elapsed first and the batch is empty.
Timeout ==
  /\ pc = "waiting" /\ ~waiter
  /\ pc' = "away"
  /\ UNCHANGED <<producerVars, queueVars, loopVars, taken>>

Close ==
  /\ pc = "away" /\ ~closed
  /\ closed' = TRUE
  /\ queue' = << >>
  /\ UNCHANGED <<producerVars, dropped, loopVars, pc, taken>>

Consume == Call \/ FirstDrain \/ ClearWaiter \/ Recheck \/ Woken

Next ==
  \/ \E p \in Producers : Publish(p) \/ Deliver(p) \/ Wake(p)
  \/ RunCallback
  \/ Consume
  \/ Timeout
  \/ Close

Spec == Init /\ [][Next]_vars

\* A producer inside publish() finishes it, the loop runs its callbacks and the
\* consumer keeps calling next_events().  Publishing itself, close() and the
\* timeout are not fair: delivery must not depend on the timeout polling.
Fairness ==
  /\ \A p \in Producers : WF_vars(Deliver(p)) /\ WF_vars(Wake(p))
  /\ WF_vars(RunCallback)
  /\ WF_vars(Consume)

FairSpec == Spec /\ Fairness
-------------------------------------------------------------------------------
TypeOK ==
  /\ history \in Seq(Events) /\ Len(history) <= HistoryCap
  /\ sent \in [Producers -> 0..MaxEvents]
  /\ at \in [Producers -> {"idle", "deliver", "wake"}]
  /\ queue \in Seq(Events) /\ Len(queue) <= QueueSize
  /\ dropped \in Nat /\ scheduled \in Nat
  /\ closed \in BOOLEAN /\ bound \in BOOLEAN /\ waiter \in BOOLEAN
  /\ pc \in {"away", "drain", "clear", "recheck", "waiting"}
  /\ taken \in Seq(Events)

\* bus.py, next_events: "the producer may have delivered in between".  A consumer
\* is never asleep on a queue that holds an event unless its wake-up is under way:
\* the waiter is set, a set is scheduled, or a producer is about to schedule one.
NoLostWakeup ==
  pc = "waiting" /\ queue # << >> =>
    waiter \/ scheduled > 0 \/ \E p \in Producers : at[p] = "wake"

InQueue(e) == \E i \in DOMAIN queue : queue[i] = e

\* What one producer published reaches the consumer in that order, each event once.
OrderKept ==
  LET seen == taken \o queue
  IN \A i, j \in DOMAIN seen : i < j /\ seen[i].from = seen[j].from => seen[i].n < seen[j].n

\* An event in the queue of an open subscription is eventually handed over or
\* evicted, without the timeout's help.
EventuallyTaken ==
  \A e \in Events : InQueue(e) ~> (~InQueue(e) \/ closed)
===============================================================================
