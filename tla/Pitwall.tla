-------------------------------- MODULE Pitwall --------------------------------
(***************************************************************************)
(* rtv.pitwall.orchestrator: which agents an event wakes, when they run,   *)
(* and what the session boundaries, the operator and the connection do to  *)
(* them meanwhile.                                                         *)
(*                                                                         *)
(* Threads.  The frame thread (live poller or replay driver) moves the     *)
(* engine, publishes on the bus and, through services.SegmentJournal and   *)
(* on_state, calls reset(), suspend() and resume().  The event loop runs   *)
(* the pump (dispatch) and one worker per agent.  API threads ask          *)
(* questions, flip the switches and reset.  A handler that does not await  *)
(* is one action; a worker's run is split where it awaits.                 *)
(*                                                                         *)
(* The bus is a queue here (EventBus models how it wakes and overflows),   *)
(* and a run or a reply ends where it is handed to the radio (RadioFeed).  *)
(* The template calls of the spotter are left out; a lookup question's     *)
(* template answer is not.                                                 *)
(***************************************************************************)
EXTENDS Integers, Sequences, FiniteSets

CONSTANTS
  Agents,        \* the mounted runtimes
  Detections,    \* the detector event types some agent listens to
  Critical,      \* those of critical severity
  Listens,       \* per agent: the detections it has a trigger for
  Questions,     \* the driver's questions
  Owner,         \* per question: the agent it is routed to
  Lookups,       \* the questions a template answers
  SessionTypes,  \* what the engine may call a session
  Unknown,       \* session_type None
  Autonomous,    \* RTV_PITWALL_AUTONOMOUS
  FullSessions,  \* autonomous_sessions
  Rosters,       \* per session type: its roster
  MaxCalls, MaxInflight, FailureLimit, Cooldown,
  MaxTurns,      \* model calls one run can make (AgentRuntime)
  Disturbances,  \* which of {"switch", "agent_switch", "reset", "disconnect", "vision", "failure"} happen
  MaxSessions, MaxTime, MaxPending  \* bounds: segments, session clock, queued events

LifecycleKinds == {"session_start", "session_green", "session_checkered", "session_end"}

ASSUME PitwallAssumption ==
  /\ IsFiniteSet(Agents)
  /\ Critical \subseteq Detections
  /\ Detections \cap (LifecycleKinds \cup {"driver_question"}) = {}
  /\ Listens \in [Agents -> SUBSET Detections]
  /\ Owner \in [Questions -> Agents]
  /\ Lookups \subseteq Questions
  /\ Unknown \notin SessionTypes
  /\ FullSessions \subseteq SessionTypes
  /\ Rosters \in [SessionTypes -> SUBSET Agents]
  /\ Autonomous \in BOOLEAN
  /\ {MaxCalls, MaxInflight, FailureLimit, MaxTurns} \subseteq Nat \ {0}
  /\ {Cooldown, MaxSessions, MaxTime, MaxPending} \subseteq Nat

VARIABLES
  \* the engine
  session,    \* segments begun
  clock,      \* session_time
  phase,      \* the segment's lifecycle
  type,       \* its session type
  stale,      \* RaceState.stale
  connected,  \* iRacing feeds the poller
  resetDue,   \* session_start is published, SegmentJournal not yet called
  bus,        \* the pump's subscription
  \* the switches
  enabled, suspended, standby, roster, agentOn, breaker, failures, degraded,
  \* routing and running
  fired,      \* _last_fired, per agent and trigger
  inbox,      \* per agent: its one-slot queue
  run,        \* per agent: what its worker is doing
  \* the cost guard
  used,       \* calls_used
  announced,  \* _budget_announced
  vision,     \* what the live vision worker is doing
  \* the driver
  replies,    \* per question: replies published
  asked,
  lost        \* questions dropped from a full inbox, and for which event

engineVars == <<session, clock, phase, type, stale, connected, resetDue>>
lifecycleVars == <<standby, roster>>
healthVars == <<agentOn, breaker, failures, degraded>>
budgetVars == <<used, announced, vision>>
driverVars == <<replies, asked, lost>>
vars == <<engineVars, bus, enabled, suspended, lifecycleVars, healthVars, fired, inbox, run,
          budgetVars, driverVars>>
-------------------------------------------------------------------------------
Never == -1
Types == SessionTypes \cup {Unknown}
Phases == {"none", "open", "green", "unfinished", "flagged", "ended"}
Stamps == [session : 0..MaxSessions, time : 0..MaxTime]

TriggerKinds == Detections \cup {"driver_question"}

\* The bus events the pump sees, stamped with the engine's clock.  `session` is a
\* history field: no code reads it.
Lifecycle(kind, finished) ==
  [kind |-> kind, type |-> type, finished |-> finished, session |-> session, time |-> clock]
Detection(d) == [kind |-> d, session |-> session, time |-> clock]
Question(q) == [kind |-> "driver_question", id |-> q, session |-> session, time |-> clock]

NoEvent == [kind |-> "none"]
NoRun == [stage |-> "none"]
TriggerEvents ==
  [kind : Detections, session : 0..MaxSessions, time : 0..MaxTime] \cup
  [kind : {"driver_question"}, id : Questions, session : 0..MaxSessions, time : 0..MaxTime]
Events ==
  TriggerEvents \cup
  [kind : LifecycleKinds, type : Types, finished : BOOLEAN,
   session : 0..MaxSessions, time : 0..MaxTime]
Runs == [stage : {"waiting", "calling"}, event : TriggerEvents, turns : 0..MaxTurns]

IsLifecycle(e) == e.kind \in LifecycleKinds
IsQuestion(e) == e.kind = "driver_question"
IsCritical(e) == e.kind \in Critical
IsLookup(e) == IsQuestion(e) /\ e.id \in Lookups
-------------------------------------------------------------------------------
Init ==
  /\ session = 0 /\ clock = 0 /\ phase = "none" /\ type = Unknown
  /\ stale = FALSE /\ connected = FALSE /\ resetDue = FALSE
  /\ bus = << >>
  /\ enabled = TRUE /\ suspended = FALSE
  /\ standby = Autonomous
  /\ roster = Agents
  /\ agentOn = [a \in Agents |-> TRUE]
  /\ breaker = {} /\ degraded = {}
  /\ failures = [a \in Agents |-> 0]
  /\ fired = [a \in Agents |-> [k \in TriggerKinds |-> Never]]
  /\ inbox = [a \in Agents |-> NoEvent]
  /\ run = [a \in Agents |-> NoRun]
  /\ used = 0 /\ announced = FALSE /\ vision = "idle"
  /\ replies = [q \in Questions |-> 0]
  /\ asked = {} /\ lost = {}
-------------------------------------------------------------------------------
(***************************************************************************)
(* The frame thread.  It blocks in reset() between publishing              *)
(* session_start and the next frame; the pump does not.                    *)
(***************************************************************************)
Segment == phase \in {"open", "green", "unfinished", "flagged"}
Feeding == connected /\ ~resetDue
Room(n) == Len(bus) + n <= MaxPending

layerVars == <<enabled, suspended, lifecycleVars, healthVars, fired, inbox, run, budgetVars, driverVars>>

\* The first frame of a segment: session_end of the open one, then session_start.
BeginSegment(t) ==
  /\ Feeding /\ Room(2)
  /\ session < MaxSessions
  /\ session' = session + 1 /\ clock' = 0 /\ phase' = "open" /\ type' = t
  /\ resetDue' = TRUE
  /\ bus' = bus \o (IF Segment THEN <<Lifecycle("session_end", FALSE)>> ELSE << >>)
                \o <<[kind |-> "session_start", type |-> t, finished |-> FALSE,
                      session |-> session + 1, time |-> 0]>>
  /\ UNCHANGED <<stale, connected, layerVars>>

Tick ==
  /\ Feeding /\ Segment /\ clock < MaxTime
  /\ clock' = clock + 1
  /\ UNCHANGED <<session, phase, type, stale, connected, resetDue, bus, layerVars>>

Detect(d) ==
  /\ Feeding /\ Segment /\ Room(1)
  /\ bus' = Append(bus, Detection(d))
  /\ UNCHANGED <<engineVars, layerVars>>

Green ==
  /\ Feeding /\ phase = "open" /\ Room(1)
  /\ phase' = "green"
  /\ bus' = Append(bus, Lifecycle("session_green", FALSE))
  /\ UNCHANGED <<session, clock, type, stale, connected, resetDue, layerVars>>

\* session_checkered: the player took the flag, or cool_down came without it.
Checkered(finished) ==
  /\ Feeding /\ phase = "green" /\ Room(1)
  /\ phase' = IF finished THEN "flagged" ELSE "unfinished"
  /\ bus' = Append(bus, Lifecycle("session_checkered", finished))
  /\ UNCHANGED <<session, clock, type, stale, connected, resetDue, layerVars>>

\* reset(), whoever calls it.  What it does not touch: agentOn, the inboxes and the
\* runs under way, standby.
Reset ==
  /\ fired' = [a \in Agents |-> [k \in TriggerKinds |-> Never]]
  /\ failures' = [a \in Agents |-> 0]
  /\ breaker' = {} /\ degraded' = {}
  /\ suspended' = FALSE
  /\ used' = 0 /\ announced' = FALSE
  /\ UNCHANGED <<bus, enabled, lifecycleVars, agentOn, inbox, run, vision, driverVars>>

\* SegmentJournal._on_start, on the frame thread, from the bus's callback.
ResetForSegment ==
  /\ resetDue
  /\ resetDue' = FALSE
  /\ Reset
  /\ UNCHANGED <<session, clock, phase, type, stale, connected>>

\* on_state: iRacing went away, or is back.  A reconnect names a new session id, so
\* set_session_id ends the open segment before mark_live() and resume().
Disconnect ==
  /\ "disconnect" \in Disturbances
  /\ Feeding
  /\ connected' = FALSE /\ stale' = TRUE /\ suspended' = TRUE
  /\ UNCHANGED <<session, clock, phase, type, resetDue, bus, enabled, lifecycleVars, healthVars,
                 fired, inbox, run, budgetVars, driverVars>>

Connect ==
  /\ ~connected /\ Room(1)
  /\ connected' = TRUE /\ stale' = FALSE /\ suspended' = FALSE
  /\ phase' = IF Segment THEN "ended" ELSE phase
  /\ bus' = IF Segment THEN Append(bus, Lifecycle("session_end", FALSE)) ELSE bus
  /\ fired' = IF suspended THEN [a \in Agents |-> [k \in TriggerKinds |-> Never]] ELSE fired
  /\ UNCHANGED <<session, clock, type, resetDue, enabled, lifecycleVars, healthVars, inbox, run,
                 budgetVars, driverVars>>
-------------------------------------------------------------------------------
(***************************************************************************)
(* The driver and the operator, on API threads.                            *)
(***************************************************************************)
Ask(q) ==
  /\ q \notin asked /\ Room(1)
  /\ asked' = asked \cup {q}
  /\ bus' = Append(bus, Question(q))
  /\ UNCHANGED <<engineVars, enabled, suspended, lifecycleVars, healthVars, fired, inbox, run,
                 budgetVars, replies, lost>>

SetEnabled(on) ==
  /\ "switch" \in Disturbances
  /\ enabled' = on
  /\ UNCHANGED <<engineVars, bus, suspended, lifecycleVars, healthVars, fired, inbox, run,
                 budgetVars, driverVars>>

ReleasedBy_NotLatch(a, on) == {}
ReleasedBy(a, on) == IF on THEN {a} ELSE {}

\* set_agent_enabled: an explicit re-enable clears the breaker.
SetAgentEnabled(a, on) ==
  /\ "agent_switch" \in Disturbances
  /\ agentOn' = [agentOn EXCEPT ![a] = on]
  /\ failures' = IF on THEN [failures EXCEPT ![a] = 0] ELSE failures
  /\ breaker' = breaker \ ReleasedBy(a, on)
  /\ UNCHANGED <<engineVars, bus, enabled, suspended, lifecycleVars, degraded, fired, inbox, run,
                 budgetVars, driverVars>>

OperatorReset ==
  /\ "reset" \in Disturbances
  /\ Reset
  /\ UNCHANGED engineVars
-------------------------------------------------------------------------------
(***************************************************************************)
(* The pump: dispatch(event).                                              *)
(***************************************************************************)
ArmsFor(t) == t # Unknown /\ (t \in FullSessions \/ Rosters[t] # {})
RosterFor(t) == IF t \in FullSessions THEN Agents ELSE Rosters[t]

\* observe_lifecycle: before the switches are consulted, so standby follows the
\* session whatever the operator has turned off.
Observes_WhenOn(e) == Autonomous /\ IsLifecycle(e) /\ enabled
Observes(e) == Autonomous /\ IsLifecycle(e)

StandbyAfter(e) ==
  IF ~Observes(e) THEN standby
  ELSE \/ e.kind \in {"session_start", "session_end"}
       \/ e.kind = "session_green" /\ ~ArmsFor(e.type)
       \/ e.kind = "session_checkered" /\ (standby \/ e.finished)

RosterAfter(e) ==
  IF ~Observes(e) THEN roster
  ELSE IF e.kind = "session_start" THEN Agents
  ELSE IF e.kind = "session_green" /\ ArmsFor(e.type) THEN RosterFor(e.type)
  ELSE roster

Exhausted_OneLate == used > MaxCalls
Exhausted == used >= MaxCalls

\* Why no agent is considered for e, if so.
Blocked(e) ==
  IF ~enabled THEN "disabled"
  ELSE IF suspended THEN "suspended"
  ELSE IF stale THEN "stale"
  ELSE IF StandbyAfter(e) THEN "standby"
  ELSE IF Exhausted THEN "budget_exhausted"
  ELSE "open"

\* The question template speaks before the agents are considered.
Templated(e) == IsLookup(e) /\ Blocked(e) \in {"standby", "budget_exhausted", "open"}

Triggered(a, e) ==
  \/ e.kind \in Listens[a]
  \/ IsQuestion(e) /\ Owner[e.id] = a /\ ~IsLookup(e)

\* AgentRuntime.match: session time, and a question has no cooldown of its own.
Cooling(a, e) ==
  /\ fired[a][e.kind] # Never
  /\ e.time - fired[a][e.kind] < IF IsQuestion(e) THEN 0 ELSE Cooldown

Accepting(e) ==
  IF Blocked(e) # "open" THEN {}
  ELSE { a \in RosterAfter(e) : agentOn[a] /\ Triggered(a, e) /\ ~Cooling(a, e) }

HoldsSlot_CriticalOnly(waiting, e) == IsCritical(waiting) /\ ~IsCritical(e)
HoldsSlot(waiting, e) ==
  IF IsCritical(waiting) THEN ~IsCritical(e)
  ELSE IsQuestion(waiting) /\ ~IsCritical(e) /\ ~IsQuestion(e)

\* _offer: latest wins, unless what waits holds its slot.
Keeps(a, e) == inbox[a] # NoEvent /\ HoldsSlot(inbox[a], e)
Dropped(a, e) == IF Keeps(a, e) THEN e ELSE inbox[a]
Winner(a, e) == IF Keeps(a, e) THEN inbox[a] ELSE e

\* _reply_unanswered from dispatch.
Unanswered_EvenIfTemplated(e) == IsQuestion(e) /\ Accepting(e) = {}
Unanswered(e) == IsQuestion(e) /\ ~Templated(e) /\ Accepting(e) = {}

Count(b) == IF b THEN 1 ELSE 0

Dispatch ==
  /\ bus # << >>
  /\ LET e == Head(bus)
         accepted == Accepting(e)
     IN /\ bus' = Tail(bus)
        /\ standby' = StandbyAfter(e)
        /\ roster' = RosterAfter(e)
        /\ announced' = (announced \/ Blocked(e) = "budget_exhausted")
        /\ fired' = [a \in Agents |->
                       IF a \in accepted THEN [fired[a] EXCEPT ![e.kind] = e.time] ELSE fired[a]]
        /\ inbox' = [a \in Agents |-> IF a \in accepted THEN Winner(a, e) ELSE inbox[a]]
        /\ lost' = lost \cup
             { [id |-> Dropped(a, e).id, to |-> Winner(a, e).kind] :
                 a \in { a \in accepted : IsQuestion(Dropped(a, e)) } }
        /\ replies' = IF IsQuestion(e)
                        THEN [replies EXCEPT ![e.id] = @ + Count(Templated(e)) + Count(Unanswered(e))]
                        ELSE replies
        /\ UNCHANGED <<engineVars, enabled, suspended, healthVars, run, used, vision, asked>>
-------------------------------------------------------------------------------
(***************************************************************************)
(* The workers.  A run takes its snapshot, then waits for the semaphore,   *)
(* then makes its model calls.                                             *)
(***************************************************************************)
InFlight == { a \in Agents : run[a].stage = "calling" }

Take(a) ==
  /\ inbox[a] # NoEvent /\ run[a] = NoRun
  /\ run' = [run EXCEPT ![a] =
               [stage |-> "waiting", event |-> inbox[a], turns |-> 0]]
  /\ inbox' = [inbox EXCEPT ![a] = NoEvent]
  /\ UNCHANGED <<engineVars, bus, enabled, suspended, lifecycleVars, healthVars, fired,
                 budgetVars, driverVars>>

Starts(a) ==
  /\ run[a].stage = "waiting"
  /\ Cardinality(InFlight) < MaxInflight
  /\ run' = [run EXCEPT ![a].stage = "calling"]
  /\ UNCHANGED <<engineVars, bus, enabled, suspended, lifecycleVars, healthVars, fired, inbox,
                 budgetVars, driverVars>>

CanCall_OneMore(a) == run[a].stage = "calling" /\ run[a].turns <= MaxTurns
CanCall(a) == run[a].stage = "calling" /\ run[a].turns < MaxTurns

\* A completion returned or raised: _complete counts it either way.
ModelCall(a) ==
  /\ CanCall(a)
  /\ run' = [run EXCEPT ![a].turns = @ + 1]
  /\ used' = used + 1
  /\ UNCHANGED <<engineVars, bus, enabled, suspended, lifecycleVars, healthVars, fired, inbox,
                 announced, vision, driverVars>>

AnswersOnce(e, n) == IF IsQuestion(e) THEN [replies EXCEPT ![e.id] = @ + n] ELSE replies

\* invoke() returned a message: the breaker is re-armed and the call published.
RunOk(a) ==
  /\ run[a].stage = "calling" /\ run[a].turns > 0
  /\ run' = [run EXCEPT ![a] = NoRun]
  /\ failures' = [failures EXCEPT ![a] = 0]
  /\ degraded' = degraded \ {a}
  /\ replies' = AnswersOnce(run[a].event, 1)
  /\ UNCHANGED <<engineVars, bus, enabled, suspended, lifecycleVars, agentOn, breaker, fired,
                 inbox, budgetVars, asked, lost>>

\* _record_outcome's test; a switched-off agent is not latched.
Trips(a) == failures[a] + 1 >= FailureLimit /\ agentOn[a]

\* invoke() returned None.
RunFails(a) ==
  /\ "failure" \in Disturbances
  /\ run[a].stage = "calling" /\ run[a].turns > 0
  /\ run' = [run EXCEPT ![a] = NoRun]
  /\ failures' = [failures EXCEPT ![a] = @ + 1]
  /\ agentOn' = IF Trips(a) THEN [agentOn EXCEPT ![a] = FALSE] ELSE agentOn
  /\ breaker' = IF Trips(a) THEN breaker \cup {a} ELSE breaker
  /\ degraded' = degraded \cup {a}
  /\ replies' = AnswersOnce(run[a].event, 1)
  /\ UNCHANGED <<engineVars, bus, enabled, suspended, lifecycleVars, fired, inbox, budgetVars, asked, lost>>
-------------------------------------------------------------------------------
(***************************************************************************)
(* The live vision worker's calls count against the same budget.           *)
(***************************************************************************)
VisionStarts ==
  /\ "vision" \in Disturbances
  /\ vision = "idle" /\ used < MaxCalls
  /\ vision' = "calling"
  /\ UNCHANGED <<engineVars, bus, enabled, suspended, lifecycleVars, healthVars, fired, inbox,
                 run, used, announced, driverVars>>

VisionRecords ==
  /\ vision = "calling"
  /\ vision' = "idle"
  /\ used' = used + 1
  /\ UNCHANGED <<engineVars, bus, enabled, suspended, lifecycleVars, healthVars, fired, inbox,
                 run, announced, driverVars>>
-------------------------------------------------------------------------------
Engine ==
  \/ \E t \in Types : BeginSegment(t)
  \/ Tick
  \/ \E d \in Detections : Detect(d)
  \/ Green
  \/ \E finished \in BOOLEAN : Checkered(finished)
  \/ ResetForSegment
  \/ Disconnect
  \/ Connect

People ==
  \/ \E q \in Questions : Ask(q)
  \/ \E on \in BOOLEAN : SetEnabled(on)
  \/ \E a \in Agents, on \in BOOLEAN : SetAgentEnabled(a, on)
  \/ OperatorReset

Worker(a) == Take(a) \/ Starts(a) \/ ModelCall(a) \/ RunOk(a) \/ RunFails(a)

Vision == VisionStarts \/ VisionRecords

Next == Engine \/ People \/ Dispatch \/ (\E a \in Agents : Worker(a)) \/ Vision

Spec == Init /\ [][Next]_vars
-------------------------------------------------------------------------------
(***************************************************************************)
(* Safety.                                                                 *)
(***************************************************************************)
\* Every variable has its type; agents hold only events they can be woken by.
TypeOK ==
  /\ session \in 0..MaxSessions /\ clock \in 0..MaxTime
  /\ phase \in Phases /\ type \in Types
  /\ {stale, connected, resetDue, enabled, suspended, standby, announced} \subseteq BOOLEAN
  /\ bus \in Seq(Events)
  /\ roster \subseteq Agents
  /\ agentOn \in [Agents -> BOOLEAN]
  /\ breaker \subseteq Agents /\ degraded \subseteq Agents
  /\ failures \in [Agents -> Nat]
  /\ fired \in [Agents -> [TriggerKinds -> 0..MaxTime \cup {Never}]]
  /\ inbox \in [Agents -> TriggerEvents \cup {NoEvent}]
  /\ run \in [Agents -> Runs \cup {NoRun}]
  /\ used \in Nat /\ vision \in {"idle", "calling"}
  /\ replies \in [Questions -> Nat]
  /\ asked \subseteq Questions
  /\ lost \subseteq [id : Questions, to : TriggerKinds]

\* The circuit breaker (status() shows it as the reason an agent is off) never names
\* an agent that takes events.
BreakerMeansOff == \A a \in breaker : ~agentOn[a]

\* Under autonomy, once the pump has caught up with the lifecycle events, the agents
\* are armed exactly while the player is racing a session somebody is on the roster
\* of, with that session's roster: whatever was switched off, suspended or reset since.
StandbyFollowsSession ==
  Autonomous /\ (\A i \in DOMAIN bus : ~IsLifecycle(bus[i])) =>
    /\ standby <=> ~(phase \in {"green", "unfinished"} /\ ArmsFor(type))
    /\ ~standby => roster = RosterFor(type)

\* The cost guard is read when an event is dispatched, not when it is paid for: the
\* session's spend passes the limit by what every agent has under way and in its
\* inbox at most, and one call of the vision worker.
BudgetOvershootBounded == used <= MaxCalls + 2 * Cardinality(Agents) * MaxTurns

\* Where a question the driver asked is.
OnBus(q) == Cardinality({ i \in DOMAIN bus : IsQuestion(bus[i]) /\ bus[i].id = q })
Waiting(q) == Cardinality({ a \in Agents : IsQuestion(inbox[a]) /\ inbox[a].id = q })
Answering(q) ==
  Cardinality({ a \in Agents : /\ run[a] # NoRun
                               /\ IsQuestion(run[a].event)
                               /\ run[a].event.id = q })
LostTo(q) == Cardinality({ l \in lost : l.id = q })

\* Every question is in one place: on the bus, in its owner's inbox, with its owner,
\* answered or refused once, or dropped from a full inbox.  None vanishes and none
\* is answered twice.
QuestionAccounted ==
  \A q \in Questions :
    OnBus(q) + Waiting(q) + Answering(q) + replies[q] + LostTo(q) = Count(q \in asked)
-------------------------------------------------------------------------------
(***************************************************************************)
(* Liveness.  The pump and the workers are supervised tasks of one event   *)
(* loop, the provider's client times out, and asyncio.Semaphore is FIFO.   *)
(***************************************************************************)
FairSpec ==
  /\ Spec
  /\ WF_vars(Dispatch)
  /\ \A a \in Agents :
       /\ WF_vars(Take(a))
       /\ SF_vars(Starts(a))
       /\ WF_vars(ModelCall(a) \/ RunOk(a) \/ RunFails(a))

Outranks == Critical \cup {"driver_question"}

\* A question is answered or refused, or gave way in an inbox to a critical event or to
\* another question; never to a mere detection.
QuestionOutlivesChatter ==
  \A q \in Questions :
    q \in asked ~> \/ replies[q] > 0
                   \/ \E l \in lost : l.id = q /\ l.to \in Outranks
-------------------------------------------------------------------------------
(***************************************************************************)
(* What the code's own words promise and its behaviour does not keep (the  *)
(* README quotes each).                                                    *)
(***************************************************************************)
\* reset() clears a breaker together with what the breaker did: the agent is back on.
ResetReadmits == [][\A a \in breaker : a \notin breaker' => agentOn'[a]]_vars

\* No cooldown of the session under way started later than its clock has come.
CooldownStartsInSession ==
  ~resetDue => \A a \in Agents, k \in TriggerKinds : fired[a][k] <= clock

\* Every question gets a reply.
EveryQuestionReplied == \A q \in Questions : q \in asked ~> replies[q] > 0
===============================================================================
