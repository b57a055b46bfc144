------------------------------ MODULE RadioFeed ------------------------------
(***************************************************************************)
(* rtv.pitwall.radio.RadioFeed: the one channel every call goes through.   *)
(*                                                                         *)
(* Three threads share it.  The event loop publishes the agents' calls and *)
(* runs the channel (RadioFeed.run); the live poller's thread publishes    *)
(* connection notices and, through SegmentJournal, clears the channel at a *)
(* session boundary; an API thread puts the driver's transcript on the air *)
(* and clears the channel on request.  The lock covers the queue and the   *)
(* history, but not what a publisher still has to announce after releasing *)
(* it, nor the call the channel has popped and not yet aired: those are    *)
(* the steps an interleaving can fall between.                             *)
(***************************************************************************)
EXTENDS Integers, Sequences, FiniteSets, Decisions, Validity

CONSTANTS
  Calls,        \* the calls agents may publish: records with a decision and a rule
  Notices,      \* the calls other threads publish (connection notices)
  Races,        \* the race snapshots the engine may produce
  Delays,       \* seconds between an agent's snapshot and its call's publication
  Window,       \* CONFLICT_WINDOW_S
  HistoryCap,   \* DEFAULT_HISTORY
  MaxPublished  \* bound on the number of calls published

CallFields == { "agent", "subject", "priority", "refused", "recommendation",
                "expires", "untilLap", "noPitRoad", "entryRule", "car", "maxAge" }

ASSUME CallsAssumption ==
  \A c \in Calls \cup Notices : /\ DOMAIN c = CallFields
                                /\ c.priority \in Priorities
ASSUME NoticesAssumption == \A c \in Notices : GroupOf(c) = None
ASSUME RacesAssumption == \A r \in Races : r.time \in Int
ASSUME DelaysAssumption == Delays \subseteq Nat
ASSUME BoundsAssumption == Window \in Nat /\ HistoryCap \in Nat \ {0} /\ MaxPublished \in Nat

Agents == { c.agent : c \in Calls \cup Notices }

Threads == { "loop", "poller" }

\* A published call: what it says, its seq, and the session time of its snapshot.
Messages == [call : Calls \cup Notices, seq : 1..MaxPublished, time : Int]

NoMessage == [seq |-> 0]
NoRace    == [time |-> None]
NoNote    == [loser |-> 0, by |-> 0]

VARIABLES
  race,        \* what engine.snapshot() returns
  seq,         \* _seq (= published)
  pending,     \* _pending: kept sorted by the code, so a set with Front below
  history,     \* _history: what aired, oldest first
  notes,       \* _notes: per agent, its last call another agent's call kept off the air
  losers,      \* per thread: calls it took out of the queue and has yet to announce
  taken,       \* the call RadioFeed.take has popped
  seen,        \* the snapshot this take() judges by; NoRace outside take()
  toAir,       \* take() has accepted `taken`; emit() has not run yet
  busy,        \* run() sleeps for the airtime of the last call
  delivered    \* what subscribers and callbacks were handed, with its mark

vars == <<race, seq, pending, history, notes, losers, taken, seen, toAir, busy, delivered>>

queueVars == <<seq, pending>>
airVars   == <<taken, seen, toAir, busy>>
-------------------------------------------------------------------------------
RankOf(m) == Rank(m.call.priority)
Critical(m) == m.call.priority = "critical"

\* _order_key
Before(m, n) == \/ RankOf(m) < RankOf(n)
                \/ RankOf(m) = RankOf(n) /\ m.seq < n.seq

\* The first call of a queue in that order (the queue is a set, `_pending` its sorted list).
IsFront(m, queue) == m \in queue /\ \A n \in queue \ {m} : Before(m, n)

Aired == { history[i] : i \in DOMAIN history }

Gap(m, n) == IF m.time > n.time THEN m.time - n.time ELSE n.time - m.time

SameGroup(m, n) == GroupOf(m.call) # None /\ GroupOf(n.call) = GroupOf(m.call)

\* _conflict_locked's test: m contradicts the higher-priority call n of another agent.
Contradicts(m, n) ==
  /\ n.call.agent # m.call.agent
  /\ SameGroup(m, n)
  /\ RankOf(n) < RankOf(m)
  /\ Gap(m, n) <= Window
  /\ Opposed(ActionOf(m.call), ActionOf(n.call))

\* The calls still standing, queued or aired, that m contradicts.
Blockers_QueuedOnly(m) == { n \in pending : Contradicts(m, n) }
Blockers(m) == { n \in pending \cup Aired : Contradicts(m, n) }

\* The one m is dropped for: the first queued one, else the newest aired one.
StandingAgainst(m) ==
  LET queued == Blockers(m) \cap pending
  IN IF queued # {}
       THEN { n \in queued : IsFront(n, queued) }
       ELSE { history[i] : i \in { i \in DOMAIN history :
                /\ Contradicts(m, history[i])
                /\ \A j \in DOMAIN history : j > i => ~Contradicts(m, history[j]) } }

DisplacedInGroup_CriticalToo(m) ==
  { n \in pending : SameGroup(m, n) /\ (n.call.agent = m.call.agent => ~Critical(m)) }
DisplacedInGroup_AnyRank(m) == { n \in pending : ~Critical(n) /\ SameGroup(m, n) }

\* _take_group_locked: the queued calls of m's decision that m replaces.
DisplacedInGroup(m) ==
  { n \in pending : /\ ~Critical(n)
                    /\ SameGroup(m, n)
                    /\ IF n.call.agent = m.call.agent
                         THEN ~Critical(m)
                         ELSE RankOf(n) >= RankOf(m) }

\* publish, outside a group: the first queued call of the same agent and subject.
SameSubject(m) ==
  { n \in pending : /\ n.call.agent = m.call.agent
                    /\ n.call.subject = m.call.subject
                    /\ ~Critical(n) }
DisplacedBySubject(m) ==
  IF Critical(m) \/ m.call.subject = ""
    THEN {}
    ELSE { n \in SameSubject(m) : IsFront(n, SameSubject(m)) }

Displaced(m) == IF GroupOf(m.call) # None THEN DisplacedInGroup(m) ELSE DisplacedBySubject(m)

LoopFree == taken = NoMessage /\ seen = NoRace /\ losers["loop"] = {}
-------------------------------------------------------------------------------
Init ==
  /\ race \in Races
  /\ seq = 0
  /\ pending = {}
  /\ history = << >>
  /\ notes = [a \in Agents |-> NoNote]
  /\ losers = [t \in Threads |-> {}]
  /\ taken = NoMessage
  /\ seen = NoRace
  /\ toAir = FALSE
  /\ busy = FALSE
  /\ delivered = {}

\* The engine moves on, or (at a session boundary) its clock starts again.
RaceMoves ==
  /\ race' \in Races \ {race}
  /\ UNCHANGED <<queueVars, history, notes, losers, airVars, delivered>>

\* publish(), the part under the lock.
Enqueue(thread, m) ==
  /\ seq' = m.seq
  /\ IF Blockers(m) # {}
       THEN /\ losers' = [losers EXCEPT ![thread] =
                            { [loser |-> m, by |-> n] : n \in StandingAgainst(m) }]
            /\ UNCHANGED pending
       ELSE /\ losers' = [losers EXCEPT ![thread] =
                            { [loser |-> n, by |-> m] : n \in Displaced(m) }]
            /\ pending' = (pending \ Displaced(m)) \cup {m}
  /\ UNCHANGED <<race, history, notes, airVars, delivered>>

\* On the event loop: an agent worker, a template call or the pump's own notices.
PublishCall ==
  /\ LoopFree
  /\ seq < MaxPublished
  /\ \E c \in Calls, d \in Delays :
       Enqueue("loop", [call |-> c, seq |-> seq + 1, time |-> race.time - d])

\* On the poller's thread: suspend() and resume() publish a notice.
PublishNotice ==
  /\ losers["poller"] = {}
  /\ seq < MaxPublished
  /\ \E c \in Notices :
       Enqueue("poller", [call |-> c, seq |-> seq + 1, time |-> race.time])

\* publish(), after the lock: _supersede marks every loser and tells everyone.
Announce(thread) ==
  /\ losers[thread] # {}
  /\ notes' = [a \in Agents |->
                 LET lost == { l \in losers[thread] :
                                 l.loser.call.agent = a /\ l.by.call.agent # a }
                 IN IF lost = {} THEN notes[a]
                    ELSE LET l == CHOOSE x \in lost : TRUE
                         IN [loser |-> l.loser.seq, by |-> l.by.seq]]
  /\ delivered' = delivered \cup
                    { [msg |-> l.loser, as |-> "superseded", by |-> l.by] : l \in losers[thread] }
  /\ losers' = [losers EXCEPT ![thread] = {}]
  /\ UNCHANGED <<race, queueVars, history, airVars>>

\* take_superseded(): an agent's next run is shown the note, once.
TakeSuperseded(agent) ==
  /\ notes[agent] # NoNote
  /\ notes' = [notes EXCEPT ![agent] = NoNote]
  /\ UNCHANGED <<race, queueVars, history, losers, airVars, delivered>>

\* take(): pop the first call in (priority, seq) order ...
Pop ==
  /\ ~busy /\ taken = NoMessage /\ losers["loop"] = {}
  /\ \E m \in pending : /\ IsFront(m, pending)
                       /\ taken' = m
                       /\ pending' = pending \ {m}
  /\ UNCHANGED <<race, seq, history, notes, losers, seen, toAir, busy, delivered>>

\* take(), after expire(): `continue`.
AfterExpiry_FallsThrough == taken' = taken /\ toAir' = TRUE
AfterExpiry_SameAgain    == taken' = taken /\ toAir' = FALSE
AfterExpiry == taken' = NoMessage /\ toAir' = FALSE

\* ... read the race once per take(), check the call against it, and either
\* expire it and look at the next one, or accept it (tagging it late if it is).
Judge ==
  /\ taken # NoMessage /\ ~toAir
  /\ LET now == IF seen = NoRace THEN race ELSE seen
         verdict == Verdict(taken.call,
                            IF taken.call \in Notices THEN NoRule ELSE taken.time, now)
     IN /\ seen' = now
        /\ IF verdict = "expired"
             THEN /\ delivered' = delivered \cup
                                    { [msg |-> taken, as |-> "expired", by |-> NoMessage] }
                  /\ AfterExpiry
             ELSE toAir' = TRUE /\ UNCHANGED <<taken, delivered>>
  /\ UNCHANGED <<race, queueVars, history, notes, losers, busy>>

\* take() finds the queue empty after expiring the rest of it.
NothingLeft ==
  /\ seen # NoRace /\ taken = NoMessage /\ pending = {}
  /\ seen' = NoRace
  /\ UNCHANGED <<race, queueVars, history, notes, losers, taken, toAir, busy, delivered>>

\* deque(maxlen=history).append
PutOnAir_Unbounded(m) == history' = Append(history, m)
PutOnAir(m) ==
  history' = IF Len(history) < HistoryCap THEN Append(history, m) ELSE Append(Tail(history), m)

\* emit(): history, then every consumer; run() then sleeps for the airtime.
Emit ==
  /\ toAir
  /\ PutOnAir(taken)
  /\ delivered' = delivered \cup { [msg |-> taken, as |-> "aired", by |-> NoMessage] }
  /\ taken' = NoMessage
  /\ seen' = NoRace
  /\ toAir' = FALSE
  /\ busy' = TRUE
  /\ UNCHANGED <<race, queueVars, notes, losers>>

AirtimeOver ==
  /\ busy
  /\ busy' = FALSE
  /\ UNCHANGED <<race, queueVars, history, notes, losers, taken, seen, toAir, delivered>>

\* clear(), from reset(): the poller's thread or an API thread.
Clear ==
  /\ pending # {} \/ history # << >> \/ \E a \in Agents : notes[a] # NoNote
  /\ pending' = {}
  /\ history' = << >>
  /\ notes' = [a \in Agents |-> NoNote]
  /\ UNCHANGED <<race, seq, losers, airVars, delivered>>

Publish == PublishCall \/ PublishNotice
Channel == Pop \/ Judge \/ NothingLeft \/ Emit \/ AirtimeOver

Next ==
  \/ RaceMoves
  \/ Publish
  \/ \E t \in Threads : Announce(t)
  \/ \E a \in Agents : TakeSuperseded(a)
  \/ Channel
  \/ Clear

Spec == Init /\ [][Next]_vars

\* run() is a supervised task that wakes on every publish and at least every
\* idle_s; a publisher that released the lock goes on to announce.
Fairness ==
  /\ WF_vars(Channel)
  /\ \A t \in Threads : WF_vars(Announce(t))

FairSpec == Spec /\ Fairness
-------------------------------------------------------------------------------
Losing == UNION { { l.loser : l \in losers[t] } : t \in Threads }
OnAir  == IF taken = NoMessage THEN {} ELSE {taken}
Decided == { d.msg : d \in delivered }

\* Every variable stays in its range.
TypeOK ==
  /\ race \in Races
  /\ seq \in 0..MaxPublished
  /\ pending \subseteq Messages
  /\ history \in Seq(Messages) /\ Len(history) <= HistoryCap
  /\ notes \in [Agents -> [loser : 0..MaxPublished, by : 0..MaxPublished]]
  /\ losers \in [Threads -> SUBSET [loser : Messages, by : Messages]]
  /\ taken \in Messages \cup {NoMessage}
  /\ seen \in Races \cup {NoRace}
  /\ toAir \in BOOLEAN /\ busy \in BOOLEAN
  /\ toAir => taken # NoMessage
  /\ delivered \subseteq [msg : Messages, as : {"aired", "superseded", "expired"},
                          by : Messages \cup {NoMessage}]

\* radio.py: "Critical is never superseded."  Whatever is published around it, a
\* critical call is never taken out of the queue for another call nor dropped
\* for contradicting one.
CriticalNeverSuperseded ==
  \A d \in delivered : d.as = "superseded" => ~Critical(d.msg)

\* radio.py: "a call that contradicts a higher-priority one still standing is
\* dropped".  What the driver has heard never goes from a call to a lower-priority
\* call of another agent that contradicts it inside the conflict window.
NoContradictionOnAir ==
  \A i, j \in DOMAIN history : i < j => ~Contradicts(history[j], history[i])

\* radio.py: "a lower-priority call never displaces a higher one".  Across agents,
\* the call that kept another off the air ranks at least as high.
LowerNeverDisplacesHigher ==
  \A d \in delivered :
    (d.as = "superseded" /\ d.by.call.agent # d.msg.call.agent) => RankOf(d.by) <= RankOf(d.msg)

\* A call is in one place only, and consumers are told its fate once: what is
\* queued, being announced as a loser or on its way to the air was not delivered
\* yet, and no call was delivered with two marks.
DecidedOnce ==
  /\ \A d, e \in delivered : d.msg.seq = e.msg.seq => d = e
  /\ pending \cap Losing = {} /\ pending \cap OnAir = {} /\ Losing \cap OnAir = {}
  /\ (pending \cup Losing \cup OnAir) \cap Decided = {}

\* Every published call is eventually aired, expired, superseded or cleared away.
EveryCallDecided ==
  \A s \in 1..MaxPublished :
    (\E m \in pending \cup Losing \cup OnAir : m.seq = s)
      ~> (\A m \in pending \cup Losing \cup OnAir : m.seq # s)
===============================================================================
