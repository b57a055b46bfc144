----------------------------- MODULE Pitwall_proofs -----------------------------
(***************************************************************************)
(* Facts about the orchestrator for any number of agents, detections and   *)
(* session types, under every disturbance.                                 *)
(***************************************************************************)
EXTENDS Pitwall, FiniteSetTheorems, TLAPS

(***************************************************************************)
(* The breaker.                                                            *)
(***************************************************************************)
SwitchesTyped == agentOn \in [Agents -> BOOLEAN] /\ breaker \subseteq Agents

LEMMA BreakerStep ==
  SwitchesTyped /\ BreakerMeansOff /\ [Next]_vars => SwitchesTyped' /\ BreakerMeansOff'
<1> SUFFICES ASSUME SwitchesTyped, BreakerMeansOff, [Next]_vars
             PROVE  SwitchesTyped' /\ BreakerMeansOff'
  OBVIOUS
<1> USE DEF SwitchesTyped, BreakerMeansOff
<1>1. CASE UNCHANGED <<agentOn, breaker>>
  BY <1>1
<1>2. CASE Reset
  BY <1>2 DEF Reset
<1>3. ASSUME NEW a \in Agents, NEW on \in BOOLEAN, SetAgentEnabled(a, on)
      PROVE  SwitchesTyped' /\ BreakerMeansOff'
  BY <1>3 DEF SetAgentEnabled, ReleasedBy
<1>4. ASSUME NEW a \in Agents, RunFails(a) PROVE SwitchesTyped' /\ BreakerMeansOff'
  BY <1>4 DEF RunFails
<1>5. ASSUME NEW a \in Agents, Take(a) \/ Starts(a) \/ ModelCall(a) \/ RunOk(a)
      PROVE  UNCHANGED <<agentOn, breaker>>
  BY <1>5 DEF Take, Starts, ModelCall, RunOk, healthVars
<1>6. CASE Engine
  <2>1. UNCHANGED <<agentOn, breaker>> \/ Reset
    BY <1>6 DEF Engine, BeginSegment, Tick, Detect, Green, Checkered, ResetForSegment,
                Disconnect, Connect, layerVars, healthVars
  <2> QED BY <1>1, <1>2, <2>1
<1>7. CASE People
  <2>1. ASSUME NEW q \in Questions, Ask(q) PROVE UNCHANGED <<agentOn, breaker>>
    BY <2>1 DEF Ask, healthVars
  <2>2. ASSUME NEW on \in BOOLEAN, SetEnabled(on) PROVE UNCHANGED <<agentOn, breaker>>
    BY <2>2 DEF SetEnabled, healthVars
  <2>3. OperatorReset => Reset
    BY DEF OperatorReset
  <2> QED BY <1>1, <1>2, <1>3, <1>7, <2>1, <2>2, <2>3 DEF People
<1>8. CASE Dispatch
  BY <1>1, <1>8 DEF Dispatch, healthVars
<1>9. CASE Vision
  BY <1>1, <1>9 DEF Vision, VisionStarts, VisionRecords, healthVars
<1>10. CASE UNCHANGED vars
  BY <1>1, <1>10 DEF vars, healthVars
<1> QED BY <1>1, <1>4, <1>5, <1>6, <1>7, <1>8, <1>9, <1>10 DEF Next, Worker

\* The circuit breaker: an agent status() names as tripped takes no events, in whatever
\* order runs fail, the operator switches agents and sessions reset it.
THEOREM BreakerSafe == Spec => []BreakerMeansOff
<1>1. Init => SwitchesTyped /\ BreakerMeansOff
  BY DEF Init, SwitchesTyped, BreakerMeansOff
<1> QED BY <1>1, BreakerStep, PTL DEF Spec
-------------------------------------------------------------------------------
(***************************************************************************)
(* Standby.  An event turns standby when what it leaves depends on the     *)
(* event alone: every lifecycle event but the flag the player has not      *)
(* taken yet, after which he races on.                                     *)
(***************************************************************************)
Turns(e) == IsLifecycle(e) /\ ~(e.kind = "session_checkered" /\ ~e.finished)
TurnsOf(b) == { i \in DOMAIN b : Turns(b[i]) }

Racing(ph) == ph \in {"green", "unfinished"}

\* Standby and the roster are right for that phase and type.
Settled(sb, ro, ph, ty) ==
  /\ sb <=> ~(Racing(ph) /\ ArmsFor(ty))
  /\ ~sb => ro = RosterFor(ty)

\* The last turn on the bus is the engine's own.
Upcoming(b, ph, ty) ==
  \A i \in TurnsOf(b) :
    (\A j \in TurnsOf(b) : j <= i) =>
      /\ b[i].kind = "session_green" <=> Racing(ph)
      /\ Racing(ph) => b[i].type = ty

\* The strengthening: what is not settled yet is on its way.
Follows ==
  /\ bus \in Seq(Events)
  /\ session \in 0..MaxSessions /\ clock \in 0..MaxTime /\ type \in Types
  /\ standby \in BOOLEAN
  /\ Upcoming(bus, phase, type)
  /\ Autonomous /\ TurnsOf(bus) = {} => Settled(standby, roster, phase, type)

LEMMA AppendTurns ==
  ASSUME NEW S, NEW b \in Seq(S), NEW e \in S
  PROVE  /\ ~Turns(e) => TurnsOf(Append(b, e)) = TurnsOf(b)
         /\ Turns(e) => TurnsOf(Append(b, e)) = TurnsOf(b) \cup {Len(b) + 1}
         /\ \A i \in DOMAIN b : Append(b, e)[i] = b[i]
BY DEF TurnsOf

LEMMA TailTurns ==
  ASSUME NEW S, NEW b \in Seq(S), b # << >>
  PROVE  /\ \A i \in Int : i \in TurnsOf(Tail(b)) <=> i >= 1 /\ i + 1 \in TurnsOf(b)
         /\ \A i \in DOMAIN Tail(b) : Tail(b)[i] = b[i + 1]
         /\ 1 \in TurnsOf(b) <=> Turns(Head(b))
BY DEF TurnsOf

\* An event that does not turn standby may come at any time.
LEMMA QuietAppend ==
  ASSUME NEW S, NEW b \in Seq(S), NEW e \in S, ~Turns(e), NEW ph, NEW ty,
         Upcoming(b, ph, ty)
  PROVE  Upcoming(Append(b, e), ph, ty)
BY AppendTurns DEF Upcoming, TurnsOf

\* One that does becomes the last.
LEMMA TurnAppend ==
  ASSUME NEW S, NEW b \in Seq(S), NEW e \in S, Turns(e), NEW ph, NEW ty,
         e.kind = "session_green" <=> Racing(ph),
         Racing(ph) => e.type = ty
  PROVE  /\ Upcoming(Append(b, e), ph, ty)
         /\ TurnsOf(Append(b, e)) # {}
<1> DEFINE c == Append(b, e)
           n == Len(b) + 1
<1>1. n \in TurnsOf(c) /\ c[n] = e
  BY AppendTurns
<1>2. \A i \in TurnsOf(c) : i \in Int /\ i <= n
  BY DEF TurnsOf
<1>3. n \in Int
  OBVIOUS
<1> HIDE DEF c, n
<1>4. Upcoming(c, ph, ty)
  <2> SUFFICES ASSUME NEW i \in TurnsOf(c), \A j \in TurnsOf(c) : j <= i
               PROVE  /\ c[i].kind = "session_green" <=> Racing(ph)
                      /\ Racing(ph) => c[i].type = ty
    BY DEF Upcoming
  <2>1. i = n
    BY <1>1, <1>2, <1>3
  <2> QED BY <1>1, <2>1
<1> QED BY <1>1, <1>4 DEF c

\* What is published is an event, and turns standby if it says so.
LEMMA Published ==
  ASSUME NEW s \in 0..MaxSessions, NEW c \in 0..MaxTime, NEW ty \in Types
  PROVE  /\ \A kind \in LifecycleKinds, finished \in BOOLEAN :
              LET e == [kind |-> kind, type |-> ty, finished |-> finished,
                        session |-> s, time |-> c]
              IN /\ e \in Events
                 /\ Turns(e) <=> kind # "session_checkered" \/ finished
         /\ \A d \in Detections :
              LET e == [kind |-> d, session |-> s, time |-> c]
              IN e \in Events /\ ~Turns(e)
         /\ \A q \in Questions :
              LET e == [kind |-> "driver_question", id |-> q, session |-> s, time |-> c]
              IN e \in Events /\ ~Turns(e)
<1>1. ASSUME NEW kind \in LifecycleKinds, NEW finished \in BOOLEAN
      PROVE  LET e == [kind |-> kind, type |-> ty, finished |-> finished,
                       session |-> s, time |-> c]
             IN /\ e \in Events
                /\ Turns(e) <=> kind # "session_checkered" \/ finished
  BY <1>1 DEF Events, Turns, IsLifecycle
<1>2. ASSUME NEW d \in Detections
      PROVE  LET e == [kind |-> d, session |-> s, time |-> c] IN e \in Events /\ ~Turns(e)
  BY <1>2, PitwallAssumption DEF Events, TriggerEvents, Turns, IsLifecycle
<1>3. ASSUME NEW q \in Questions
      PROVE  LET e == [kind |-> "driver_question", id |-> q, session |-> s, time |-> c]
             IN e \in Events /\ ~Turns(e)
  BY <1>3 DEF Events, TriggerEvents, Turns, IsLifecycle, LifecycleKinds
<1> QED BY <1>1, <1>2, <1>3

LEMMA EngineFollows == ASSUME Follows, Engine PROVE Follows'
<1> USE DEF Follows
<1>0. 0 \in 0..MaxTime
  BY PitwallAssumption
<1>1. ASSUME NEW t \in Types, BeginSegment(t) PROVE Follows'
  <2> DEFINE over == Lifecycle("session_end", FALSE)
             new == [kind |-> "session_start", type |-> t, finished |-> FALSE,
                     session |-> session + 1, time |-> 0]
             b == IF Segment THEN Append(bus, over) ELSE bus
  <2>1. session + 1 \in 0..MaxSessions
    BY <1>1, PitwallAssumption DEF BeginSegment
  <2>2. over \in Events
    BY Published DEF Lifecycle, LifecycleKinds
  <2>3. new \in Events /\ Turns(new) /\ new.kind # "session_green"
    BY <1>0, <2>1, Published DEF LifecycleKinds
  <2> HIDE DEF over, new
  <2>4. b \in Seq(Events)
    BY <2>2
  <2>5. bus' = Append(b, new)
    <3>1. bus' = (bus \o (IF Segment THEN <<over>> ELSE << >>)) \o <<new>>
      BY <1>1 DEF BeginSegment, over, new
    <3>2. bus \o <<over>> = Append(bus, over) /\ bus \o << >> = bus
      BY <2>2
    <3>3. bus' = b \o <<new>>
      BY <3>1, <3>2
    <3> HIDE DEF b
    <3> QED BY <2>3, <2>4, <3>3
  <2> HIDE DEF b
  <2>6. phase' = "open" /\ ~Racing("open") /\ type' = t /\ session' = session + 1
        /\ clock' = 0 /\ standby' = standby
    BY <1>1 DEF BeginSegment, Racing, layerVars, lifecycleVars
  <2>7. Upcoming(bus', phase', type') /\ TurnsOf(bus') # {}
    BY <2>3, <2>4, <2>5, <2>6, TurnAppend
  <2>8. bus' \in Seq(Events)
    BY <2>3, <2>4, <2>5
  <2> QED BY <1>0, <2>1, <2>6, <2>7, <2>8
<1>2. CASE Tick
  BY <1>2, PitwallAssumption DEF Tick, layerVars, lifecycleVars
<1>3. ASSUME NEW d \in Detections, Detect(d) PROVE Follows'
  <2>1. Detection(d) \in Events /\ ~Turns(Detection(d))
    BY Published DEF Detection
  <2>2. bus' = Append(bus, Detection(d)) /\ UNCHANGED <<engineVars, standby, roster>>
    BY <1>3 DEF Detect, layerVars, lifecycleVars
  <2>3. Upcoming(bus', phase, type) /\ TurnsOf(bus') = TurnsOf(bus) /\ bus' \in Seq(Events)
    BY <2>1, <2>2, QuietAppend, AppendTurns
  <2> QED BY <2>2, <2>3 DEF engineVars
<1>4. CASE Green
  <2> DEFINE e == Lifecycle("session_green", FALSE)
  <2>1. e \in Events /\ Turns(e) /\ e.kind = "session_green" /\ e.type = type
    BY Published DEF Lifecycle, LifecycleKinds
  <2>2. /\ bus' = Append(bus, e) /\ phase' = "green" /\ Racing("green")
        /\ UNCHANGED <<session, clock, type, standby>>
    BY <1>4 DEF Green, layerVars, lifecycleVars, Racing
  <2> HIDE DEF e
  <2>3. Upcoming(bus', phase', type) /\ TurnsOf(bus') # {} /\ bus' \in Seq(Events)
    BY <2>1, <2>2, TurnAppend
  <2> QED BY <2>2, <2>3
<1>5. ASSUME NEW finished \in BOOLEAN, Checkered(finished) PROVE Follows'
  <2> DEFINE e == Lifecycle("session_checkered", finished)
  <2>1. e \in Events /\ (Turns(e) <=> finished) /\ e.kind # "session_green"
    BY Published DEF Lifecycle, LifecycleKinds
  <2>2. /\ bus' = Append(bus, e)
        /\ UNCHANGED <<session, clock, type, standby, roster>>
        /\ Racing(phase) /\ (Racing(phase') <=> ~finished)
    BY <1>5 DEF Checkered, layerVars, lifecycleVars, Racing
  <2> HIDE DEF e
  <2>3. bus' \in Seq(Events)
    BY <2>1, <2>2
  <2>4. CASE finished
    BY <2>1, <2>2, <2>3, <2>4, TurnAppend
  <2>5. CASE ~finished
    <3>1. Upcoming(bus', phase, type) /\ TurnsOf(bus') = TurnsOf(bus)
      BY <2>1, <2>2, <2>5, QuietAppend, AppendTurns
    <3>2. Upcoming(bus', phase', type')
      BY <2>2, <2>5, <3>1 DEF Upcoming
    <3>3. Autonomous /\ TurnsOf(bus) = {} => Settled(standby', roster', phase', type')
      BY <2>2, <2>5 DEF Settled
    <3> QED BY <2>2, <2>3, <3>1, <3>2, <3>3
  <2> QED BY <2>4, <2>5
<1>6. CASE ResetForSegment
  BY <1>6 DEF ResetForSegment, Reset, lifecycleVars
<1>7. CASE Disconnect
  BY <1>7 DEF Disconnect, lifecycleVars
<1>8. CASE Connect
  <2>1. CASE ~Segment
    BY <1>8, <2>1 DEF Connect, lifecycleVars
  <2>2. CASE Segment
    <3> DEFINE e == Lifecycle("session_end", FALSE)
    <3>1. e \in Events /\ Turns(e) /\ e.kind # "session_green"
      BY Published DEF Lifecycle, LifecycleKinds
    <3>2. /\ bus' = Append(bus, e) /\ phase' = "ended" /\ ~Racing("ended")
          /\ UNCHANGED <<session, clock, type, standby>>
      BY <1>8, <2>2 DEF Connect, lifecycleVars, Racing
    <3> HIDE DEF e
    <3>3. Upcoming(bus', phase', type) /\ TurnsOf(bus') # {} /\ bus' \in Seq(Events)
      BY <3>1, <3>2, TurnAppend
    <3> QED BY <3>2, <3>3
  <2> QED BY <2>1, <2>2
<1> QED BY <1>1, <1>2, <1>3, <1>4, <1>5, <1>6, <1>7, <1>8 DEF Engine

LEMMA DispatchFollows == ASSUME Follows, Dispatch PROVE Follows'
<1> DEFINE e == Head(bus)
<1>1. /\ bus # << >> /\ bus' = Tail(bus) /\ bus' \in Seq(Events)
      /\ standby' = StandbyAfter(e) /\ roster' = RosterAfter(e)
      /\ UNCHANGED <<session, clock, type, phase>>
  BY DEF Dispatch, engineVars, Follows
<1>2. \A i \in Int : i \in TurnsOf(bus') <=> i >= 1 /\ i + 1 \in TurnsOf(bus)
  BY <1>1, TailTurns DEF Follows
<1>3. \A i \in TurnsOf(bus') : bus'[i] = bus[i + 1] /\ i \in Int
  BY <1>1, TailTurns DEF Follows, TurnsOf
<1>4. 1 \in TurnsOf(bus) <=> Turns(e)
  BY <1>1, TailTurns DEF Follows
<1>5. \A j \in TurnsOf(bus) : j \in Int /\ j >= 1 /\ (j # 1 => j - 1 \in TurnsOf(bus'))
  <2>1. \A j \in TurnsOf(bus) : j \in Int /\ j >= 1
    BY DEF Follows, TurnsOf
  <2> QED BY <1>2, <2>1
<1>6. Upcoming(bus', phase', type')
  <2> SUFFICES ASSUME NEW i \in TurnsOf(bus'), \A j \in TurnsOf(bus') : j <= i
               PROVE  /\ bus'[i].kind = "session_green" <=> Racing(phase)
                      /\ Racing(phase) => bus'[i].type = type
    BY <1>1 DEF Upcoming
  <2>1. i \in Int /\ i >= 1 /\ i + 1 \in TurnsOf(bus) /\ bus'[i] = bus[i + 1]
    BY <1>2, <1>3
  <2>2. \A j \in TurnsOf(bus) : j <= i + 1
    BY <1>5, <2>1
  <2> QED BY <2>1, <2>2 DEF Follows, Upcoming
<1>7. ASSUME Autonomous, TurnsOf(bus') = {} PROVE Settled(standby', roster', phase', type')
  <2>1. CASE ~Turns(e)
    <3>1. TurnsOf(bus) = {}
      BY <1>4, <1>5, <1>7, <2>1
    <3>2. standby' = standby /\ roster' = roster
      BY <1>1, <2>1 DEF Turns, StandbyAfter, RosterAfter, Observes, IsLifecycle, Follows
    <3> QED BY <1>1, <1>7, <3>1, <3>2 DEF Follows
  <2>2. CASE Turns(e)
    <3>1. TurnsOf(bus) = {1} /\ e = bus[1]
      BY <1>1, <1>4, <1>5, <1>7, <2>2 DEF Follows
    <3>2. (e.kind = "session_green" <=> Racing(phase)) /\ (Racing(phase) => e.type = type)
      BY <3>1 DEF Follows, Upcoming
    <3>3. Observes(e)
      BY <1>7, <2>2 DEF Observes, Turns
    <3>4. CASE e.kind = "session_green"
      BY <1>1, <3>2, <3>3, <3>4 DEF StandbyAfter, RosterAfter, Settled
    <3>5. CASE e.kind # "session_green"
      <4>1. StandbyAfter(e)
        BY <2>2, <3>3, <3>5 DEF StandbyAfter, Turns, IsLifecycle, LifecycleKinds
      <4> QED BY <1>1, <3>2, <3>5, <4>1 DEF Settled, StandbyAfter, Follows
    <3> QED BY <3>4, <3>5
  <2> QED BY <2>1, <2>2
<1>8. standby' \in BOOLEAN
  BY <1>1 DEF StandbyAfter, Follows
<1> QED BY <1>1, <1>6, <1>7, <1>8 DEF Follows

LEMMA FollowsStep == Follows /\ [Next]_vars => Follows'
<1> SUFFICES ASSUME Follows, [Next]_vars PROVE Follows'
  OBVIOUS
<1>1. CASE UNCHANGED <<engineVars, bus, lifecycleVars>>
  BY <1>1 DEF engineVars, lifecycleVars, Follows
<1>2. ASSUME NEW q \in Questions, Ask(q) PROVE Follows'
  <2>1. Question(q) \in Events /\ ~Turns(Question(q))
    BY Published DEF Question, Follows
  <2>2. bus' = Append(bus, Question(q)) /\ UNCHANGED <<engineVars, standby, roster>>
    BY <1>2 DEF Ask, lifecycleVars
  <2>3. Upcoming(bus', phase, type) /\ TurnsOf(bus') = TurnsOf(bus) /\ bus' \in Seq(Events)
    BY <2>1, <2>2, QuietAppend, AppendTurns DEF Follows
  <2> QED BY <2>2, <2>3 DEF engineVars, Follows
<1>3. CASE People
  <2>1. ASSUME NEW on \in BOOLEAN, SetEnabled(on)
        PROVE  UNCHANGED <<engineVars, bus, lifecycleVars>>
    BY <2>1 DEF SetEnabled
  <2>2. ASSUME NEW a \in Agents, NEW on \in BOOLEAN, SetAgentEnabled(a, on)
        PROVE  UNCHANGED <<engineVars, bus, lifecycleVars>>
    BY <2>2 DEF SetAgentEnabled
  <2>3. OperatorReset => UNCHANGED <<engineVars, bus, lifecycleVars>>
    BY DEF OperatorReset, Reset
  <2> QED BY <1>1, <1>2, <1>3, <2>1, <2>2, <2>3 DEF People
<1>4. ASSUME NEW a \in Agents, Worker(a) PROVE UNCHANGED <<engineVars, bus, lifecycleVars>>
  BY <1>4 DEF Worker, Take, Starts, ModelCall, RunOk, RunFails
<1>5. Vision => UNCHANGED <<engineVars, bus, lifecycleVars>>
  BY DEF Vision, VisionStarts, VisionRecords
<1>6. UNCHANGED vars => UNCHANGED <<engineVars, bus, lifecycleVars>>
  BY DEF vars
<1> QED BY <1>1, <1>3, <1>4, <1>5, <1>6, EngineFollows, DispatchFollows DEF Next

LEMMA FollowsInit == Init => Follows
<1> SUFFICES ASSUME Init PROVE Follows
  OBVIOUS
<1>1. bus = << >> /\ TurnsOf(bus) = {} /\ bus \in Seq(Events)
  BY DEF Init, TurnsOf
<1>2. Upcoming(bus, phase, type)
  BY <1>1 DEF Upcoming
<1>3. Autonomous => Settled(standby, roster, phase, type)
  BY DEF Init, Settled, Racing
<1> QED BY <1>1, <1>2, <1>3, PitwallAssumption DEF Init, Follows, Types

\* observe_lifecycle: once the pump has caught up with the session's lifecycle, autonomy
\* has armed exactly the right roster, or nobody, whatever the switches, suspensions,
\* resets, reconnects and failures on the way.
THEOREM StandbyRight == Spec => []StandbyFollowsSession
<1>1. Follows => StandbyFollowsSession
  <2> SUFFICES ASSUME Follows, Autonomous, \A i \in DOMAIN bus : ~IsLifecycle(bus[i])
               PROVE  /\ standby <=> ~(phase \in {"green", "unfinished"} /\ ArmsFor(type))
                      /\ ~standby => roster = RosterFor(type)
    BY DEF StandbyFollowsSession
  <2>1. TurnsOf(bus) = {}
    BY DEF TurnsOf, Turns
  <2> QED BY <2>1 DEF Follows, Settled, Racing
<1> QED BY <1>1, FollowsInit, FollowsStep, PTL DEF Spec
-------------------------------------------------------------------------------
(***************************************************************************)
(* Types.  What the pump sees is an event (Follows); an agent is woken by  *)
(* a detection or a question only, so that is all an inbox or a run holds. *)
(***************************************************************************)
SwitchTypes ==
  /\ phase \in Phases /\ vision \in {"idle", "calling"}
  /\ stale \in BOOLEAN /\ connected \in BOOLEAN /\ resetDue \in BOOLEAN
  /\ enabled \in BOOLEAN /\ suspended \in BOOLEAN /\ announced \in BOOLEAN
  /\ roster \subseteq Agents

HealthTypes ==
  /\ agentOn \in [Agents -> BOOLEAN]
  /\ breaker \subseteq Agents /\ degraded \subseteq Agents
  /\ failures \in [Agents -> Nat]

RoutingTypes ==
  /\ fired \in [Agents -> [TriggerKinds -> 0..MaxTime \cup {Never}]]
  /\ inbox \in [Agents -> TriggerEvents \cup {NoEvent}]
  /\ run \in [Agents -> Runs \cup {NoRun}]

CountTypes ==
  /\ used \in Nat
  /\ replies \in [Questions -> Nat]
  /\ asked \subseteq Questions
  /\ lost \subseteq [id : Questions, to : TriggerKinds]

AllTypes == SwitchTypes /\ HealthTypes /\ RoutingTypes /\ CountTypes

LEMMA FollowsTypes == Follows /\ AllTypes <=> TypeOK /\ Follows
BY DEF Follows, AllTypes, SwitchTypes, HealthTypes, RoutingTypes, CountTypes, TypeOK

LEMMA TriggerKindsOf ==
  ASSUME NEW e \in TriggerEvents
  PROVE  /\ e.kind \in TriggerKinds /\ e.time \in 0..MaxTime
         /\ IsQuestion(e) => e.id \in Questions
BY PitwallAssumption DEF TriggerEvents, TriggerKinds, IsQuestion

LEMMA RosterAgents ==
  ASSUME roster \subseteq Agents, NEW e \in Events PROVE RosterAfter(e) \subseteq Agents
<1>1. CASE e.kind = "session_green" /\ ArmsFor(e.type)
  <2>1. e.type \in Types
    BY <1>1, PitwallAssumption DEF Events, TriggerEvents, LifecycleKinds
  <2>2. RosterFor(e.type) \subseteq Agents
    BY <1>1, <2>1, PitwallAssumption DEF ArmsFor, RosterFor, Types
  <2> QED BY <2>2 DEF RosterAfter
<1>2. CASE ~(e.kind = "session_green" /\ ArmsFor(e.type))
  BY <1>2 DEF RosterAfter
<1> QED BY <1>1, <1>2

LEMMA WakesTrigger ==
  ASSUME roster \subseteq Agents, NEW e \in Events, NEW a \in Accepting(e)
  PROVE  a \in Agents /\ e \in TriggerEvents
<1>1. a \in RosterAfter(e) /\ Triggered(a, e)
  BY DEF Accepting
<1>2. a \in Agents
  BY <1>1, RosterAgents
<1>3. IsQuestion(e) => e \in TriggerEvents
  BY DEF Events, IsQuestion, LifecycleKinds
<1>4. e.kind \in Detections => e \in TriggerEvents
  BY PitwallAssumption DEF Events
<1>5. IsQuestion(e) \/ e.kind \in Detections
  BY <1>1, <1>2, PitwallAssumption DEF Triggered
<1> QED BY <1>2, <1>3, <1>4, <1>5

LEMMA OfferTypes ==
  ASSUME NEW a \in Agents, inbox[a] \in TriggerEvents \cup {NoEvent}, NEW e \in TriggerEvents
  PROVE  /\ Winner(a, e) \in TriggerEvents
         /\ IsQuestion(Dropped(a, e)) => Dropped(a, e) \in TriggerEvents
<1>1. ~IsQuestion(NoEvent)
  BY DEF IsQuestion, NoEvent
<1>2. CASE Keeps(a, e)
  BY <1>2 DEF Keeps, Winner, Dropped
<1>3. CASE ~Keeps(a, e)
  BY <1>1, <1>3 DEF Winner, Dropped
<1> QED BY <1>2, <1>3

LEMMA DispatchTypes == ASSUME Follows, AllTypes, Dispatch PROVE AllTypes'
<1> DEFINE e == Head(bus)
           accepted == Accepting(e)
<1> USE DEF AllTypes
<1>1. e \in Events
  BY DEF Follows, Dispatch
<1>2. /\ roster' = RosterAfter(e)
      /\ announced' = (announced \/ Blocked(e) = "budget_exhausted")
      /\ UNCHANGED <<engineVars, enabled, suspended, healthVars, run, used, vision, asked>>
  BY DEF Dispatch
<1>3. SwitchTypes' /\ HealthTypes'
  BY <1>1, <1>2, RosterAgents DEF SwitchTypes, HealthTypes, engineVars, healthVars
<1>4. \A a \in accepted : a \in Agents /\ e \in TriggerEvents
  BY <1>1, WakesTrigger DEF SwitchTypes
<1>5. fired' = [a \in Agents |->
                  IF a \in accepted THEN [fired[a] EXCEPT ![e.kind] = e.time] ELSE fired[a]]
  BY DEF Dispatch
<1>6. inbox' = [a \in Agents |-> IF a \in accepted THEN Winner(a, e) ELSE inbox[a]]
  BY DEF Dispatch
<1>7. lost' = lost \cup
             { [id |-> Dropped(a, e).id, to |-> Winner(a, e).kind] :
                 a \in { a \in accepted : IsQuestion(Dropped(a, e)) } }
  BY DEF Dispatch
<1>8. replies' = IF IsQuestion(e)
                   THEN [replies EXCEPT ![e.id] = @ + Count(Templated(e)) + Count(Unanswered(e))]
                   ELSE replies
  BY DEF Dispatch
<1> HIDE DEF e, accepted
<1>9. fired' \in [Agents -> [TriggerKinds -> 0..MaxTime \cup {Never}]]
  <2>1. ASSUME NEW a \in Agents PROVE fired'[a] \in [TriggerKinds -> 0..MaxTime \cup {Never}]
    <3>1. fired[a] \in [TriggerKinds -> 0..MaxTime \cup {Never}]
      BY DEF RoutingTypes
    <3>2. CASE a \in accepted
      BY <1>4, <1>5, <3>1, <3>2, TriggerKindsOf
    <3>3. CASE a \notin accepted
      BY <1>5, <3>1, <3>3
    <3> QED BY <3>2, <3>3
  <2> QED BY <1>5, <2>1
<1>10. inbox' \in [Agents -> TriggerEvents \cup {NoEvent}]
  <2>1. ASSUME NEW a \in Agents PROVE inbox'[a] \in TriggerEvents \cup {NoEvent}
    <3>1. inbox[a] \in TriggerEvents \cup {NoEvent}
      BY DEF RoutingTypes
    <3>2. CASE a \in accepted
      BY <1>4, <1>6, <3>1, <3>2, OfferTypes
    <3>3. CASE a \notin accepted
      BY <1>6, <3>1, <3>3
    <3> QED BY <3>2, <3>3
  <2> QED BY <1>6, <2>1
<1>11. lost' \subseteq [id : Questions, to : TriggerKinds]
  <2>1. ASSUME NEW a \in accepted, IsQuestion(Dropped(a, e))
        PROVE  [id |-> Dropped(a, e).id, to |-> Winner(a, e).kind]
                 \in [id : Questions, to : TriggerKinds]
    <3>1. inbox[a] \in TriggerEvents \cup {NoEvent}
      BY <1>4 DEF RoutingTypes
    <3>2. Winner(a, e) \in TriggerEvents /\ Dropped(a, e) \in TriggerEvents
      BY <1>4, <2>1, <3>1, OfferTypes
    <3> QED BY <2>1, <3>2, TriggerKindsOf
  <2> QED BY <1>7, <2>1 DEF CountTypes
<1>12. replies' \in [Questions -> Nat]
  <2> DEFINE n == replies[e.id] + Count(Templated(e)) + Count(Unanswered(e))
  <2>1. replies' = IF IsQuestion(e) THEN [replies EXCEPT ![e.id] = n] ELSE replies
    BY <1>8
  <2>2. IsQuestion(e) => e.id \in Questions
    <3>1. IsQuestion(e) => e \in TriggerEvents
      BY <1>1 DEF Events, IsQuestion, LifecycleKinds
    <3> QED BY <3>1, TriggerKindsOf
  <2>3. IsQuestion(e) => n \in Nat
    BY <2>2 DEF CountTypes, Count
  <2> HIDE DEF n
  <2> QED BY <2>1, <2>3 DEF CountTypes
<1> QED BY <1>2, <1>3, <1>9, <1>10, <1>11, <1>12 DEF RoutingTypes, CountTypes

LEMMA WorkerTypes == ASSUME AllTypes, NEW a \in Agents, Worker(a) PROVE AllTypes'
<1> USE DEF AllTypes
<1>1. CASE Take(a)
  <2> DEFINE r == [stage |-> "waiting", event |-> inbox[a], turns |-> 0]
  <2>1. r \in Runs
    <3>1. inbox[a] \in TriggerEvents /\ 0 \in 0..MaxTurns
      BY <1>1, PitwallAssumption DEF Take, RoutingTypes
    <3> QED BY <3>1 DEF Runs
  <2> HIDE DEF r
  <2>2. RoutingTypes'
    BY <1>1, <2>1 DEF Take, r, RoutingTypes
  <2> QED BY <1>1, <2>2 DEF Take, SwitchTypes, HealthTypes, CountTypes, engineVars,
                            lifecycleVars, healthVars, budgetVars, driverVars
<1>2. CASE Starts(a)
  <2>1. run[a] \in Runs
    BY <1>2 DEF Starts, RoutingTypes, NoRun
  <2>2. [run[a] EXCEPT !.stage = "calling"] \in Runs
    BY <2>1 DEF Runs
  <2>3. RoutingTypes'
    BY <1>2, <2>2 DEF Starts, RoutingTypes
  <2> QED BY <1>2, <2>3 DEF Starts, SwitchTypes, HealthTypes, CountTypes, engineVars,
                            lifecycleVars, healthVars, budgetVars, driverVars
<1>3. CASE ModelCall(a)
  <2> DEFINE n == run[a].turns + 1
  <2>1. run[a] \in Runs /\ run[a].turns < MaxTurns
    BY <1>3 DEF ModelCall, CanCall, RoutingTypes, NoRun
  <2>2. n \in 0..MaxTurns /\ run' = [run EXCEPT ![a] = [run[a] EXCEPT !.turns = n]]
    BY <1>3, <2>1, PitwallAssumption DEF ModelCall, Runs, RoutingTypes
  <2> HIDE DEF n
  <2>3. [run[a] EXCEPT !.turns = n] \in Runs
    BY <2>1, <2>2 DEF Runs
  <2>4. run' \in [Agents -> Runs \cup {NoRun}]
    BY <2>2, <2>3 DEF RoutingTypes
  <2>5. used' \in Nat
    BY <1>3 DEF ModelCall, CountTypes
  <2> QED BY <1>3, <2>4, <2>5 DEF ModelCall, SwitchTypes, HealthTypes, RoutingTypes, CountTypes,
                                  engineVars, lifecycleVars, healthVars, driverVars
<1>4. CASE RunOk(a) \/ RunFails(a)
  <2>1. run[a] \in Runs
    BY <1>4 DEF RunOk, RunFails, RoutingTypes, NoRun
  <2>2. replies' \in [Questions -> Nat]
    <3> DEFINE q == run[a].event.id
               n == replies[q] + 1
    <3>1. replies' = IF IsQuestion(run[a].event) THEN [replies EXCEPT ![q] = n] ELSE replies
      BY <1>4 DEF RunOk, RunFails, AnswersOnce
    <3>2. IsQuestion(run[a].event) => q \in Questions
      BY <2>1, TriggerKindsOf DEF Runs
    <3>3. IsQuestion(run[a].event) => n \in Nat
      BY <3>2 DEF CountTypes
    <3> HIDE DEF n, q
    <3> QED BY <3>1, <3>3 DEF CountTypes
  <2>3. run' \in [Agents -> Runs \cup {NoRun}] /\ inbox' = inbox /\ fired' = fired
    BY <1>4 DEF RunOk, RunFails, RoutingTypes
  <2>4. failures' \in [Agents -> Nat]
    <3> DEFINE n == failures[a] + 1
    <3>1. n \in Nat
      BY DEF HealthTypes
    <3>2. failures' = [failures EXCEPT ![a] = 0] \/ failures' = [failures EXCEPT ![a] = n]
      BY <1>4 DEF RunOk, RunFails, HealthTypes
    <3> HIDE DEF n
    <3> QED BY <3>1, <3>2 DEF HealthTypes
  <2>5. HealthTypes'
    BY <1>4, <2>4 DEF RunOk, RunFails, HealthTypes
  <2>6. UNCHANGED <<engineVars, enabled, suspended, lifecycleVars, budgetVars, asked, lost>>
    BY <1>4 DEF RunOk, RunFails
  <2> QED BY <2>2, <2>3, <2>5, <2>6 DEF SwitchTypes, RoutingTypes, CountTypes, engineVars,
                                         lifecycleVars, budgetVars
<1> QED BY <1>1, <1>2, <1>3, <1>4 DEF Worker

LEMMA ResetTypes == ASSUME AllTypes, Reset, UNCHANGED <<phase, stale, connected>>,
                           resetDue' \in BOOLEAN
                    PROVE  AllTypes'
<1>1. fired' \in [Agents -> [TriggerKinds -> 0..MaxTime \cup {Never}]]
  BY DEF Reset
<1> QED BY <1>1 DEF Reset, AllTypes, SwitchTypes, HealthTypes, RoutingTypes, CountTypes,
                    lifecycleVars, driverVars

LEMMA EngineTypes == ASSUME AllTypes, Engine PROVE AllTypes'
<1>1. CASE ResetForSegment
  BY <1>1, ResetTypes DEF ResetForSegment
<1>2. CASE Connect
  <2>1. fired' \in [Agents -> [TriggerKinds -> 0..MaxTime \cup {Never}]]
    BY <1>2 DEF Connect, AllTypes, RoutingTypes
  <2> QED BY <1>2, <2>1 DEF Connect, Phases, AllTypes, SwitchTypes, HealthTypes, RoutingTypes,
                            CountTypes, lifecycleVars, healthVars, budgetVars, driverVars
<1>3. CASE Disconnect
  BY <1>3 DEF Disconnect, AllTypes, SwitchTypes, HealthTypes, RoutingTypes, CountTypes,
              lifecycleVars, healthVars, budgetVars, driverVars
<1>4. ASSUME UNCHANGED layerVars, phase' \in Phases, stale' \in BOOLEAN, connected' \in BOOLEAN,
             resetDue' \in BOOLEAN
      PROVE  AllTypes'
  BY <1>4 DEF layerVars, AllTypes, SwitchTypes, HealthTypes, RoutingTypes,
              CountTypes, lifecycleVars, healthVars, budgetVars, driverVars
<1>5. /\ phase \in Phases /\ stale \in BOOLEAN /\ connected \in BOOLEAN /\ resetDue \in BOOLEAN
      /\ {"open", "green", "flagged", "unfinished"} \subseteq Phases
  BY DEF AllTypes, SwitchTypes, Phases
<1>6. ASSUME NEW t \in Types, BeginSegment(t) PROVE AllTypes'
  BY <1>4, <1>5, <1>6 DEF BeginSegment
<1>7. CASE Tick \/ Green
  BY <1>4, <1>5, <1>7 DEF Tick, Green
<1>8. ASSUME NEW d \in Detections, Detect(d) PROVE AllTypes'
  BY <1>4, <1>5, <1>8 DEF Detect, engineVars
<1>9. ASSUME NEW finished \in BOOLEAN, Checkered(finished) PROVE AllTypes'
  BY <1>4, <1>5, <1>9 DEF Checkered
<1> QED BY <1>1, <1>2, <1>3, <1>6, <1>7, <1>8, <1>9 DEF Engine

LEMMA PeopleTypes == ASSUME AllTypes, People PROVE AllTypes'
<1> USE DEF AllTypes
<1>1. ASSUME NEW q \in Questions, Ask(q) PROVE AllTypes'
  BY <1>1 DEF Ask, SwitchTypes, HealthTypes, RoutingTypes, CountTypes, engineVars,
              lifecycleVars, healthVars, budgetVars
<1>2. ASSUME NEW on \in BOOLEAN, SetEnabled(on) PROVE AllTypes'
  BY <1>2 DEF SetEnabled, SwitchTypes, HealthTypes, RoutingTypes, CountTypes, engineVars,
              lifecycleVars, healthVars, budgetVars, driverVars
<1>3. ASSUME NEW a \in Agents, NEW on \in BOOLEAN, SetAgentEnabled(a, on) PROVE AllTypes'
  <2>1. HealthTypes'
    BY <1>3 DEF SetAgentEnabled, HealthTypes
  <2> QED BY <1>3, <2>1 DEF SetAgentEnabled, SwitchTypes, RoutingTypes, CountTypes, engineVars,
                            lifecycleVars, budgetVars, driverVars
<1>4. CASE OperatorReset
  <2>1. Reset /\ UNCHANGED engineVars
    BY <1>4 DEF OperatorReset
  <2> QED BY <2>1, ResetTypes DEF engineVars, SwitchTypes
<1> QED BY <1>1, <1>2, <1>3, <1>4 DEF People

LEMMA TypesStep == Follows /\ AllTypes /\ [Next]_vars => AllTypes'
<1> SUFFICES ASSUME Follows, AllTypes, [Next]_vars PROVE AllTypes'
  OBVIOUS
<1>1. CASE Vision
  BY <1>1 DEF Vision, VisionStarts, VisionRecords, AllTypes, SwitchTypes, HealthTypes,
              RoutingTypes, CountTypes, engineVars, lifecycleVars, healthVars, driverVars
<1>2. CASE UNCHANGED vars
  BY <1>2 DEF vars, AllTypes, SwitchTypes, HealthTypes, RoutingTypes, CountTypes, engineVars,
              lifecycleVars, healthVars, budgetVars, driverVars
<1> QED BY <1>1, <1>2, EngineTypes, PeopleTypes, DispatchTypes, WorkerTypes DEF Next

LEMMA TypesInit == Init => AllTypes
<1> SUFFICES ASSUME Init PROVE AllTypes
  OBVIOUS
<1>1. fired \in [Agents -> [TriggerKinds -> 0..MaxTime \cup {Never}]]
  BY DEF Init
<1>2. SwitchTypes /\ HealthTypes
  BY DEF Init, SwitchTypes, HealthTypes, Phases
<1>3. CountTypes
  BY DEF Init, CountTypes
<1> QED BY <1>1, <1>2, <1>3 DEF Init, AllTypes, RoutingTypes

\* Every reachable state of the orchestrator is well typed: in particular an inbox or a
\* run never holds a lifecycle event, and no unknown agent is on a roster.
THEOREM TypeCorrect == Spec => []TypeOK
<1>1. Follows /\ AllTypes => TypeOK
  BY FollowsTypes
<1> QED BY <1>1, FollowsInit, FollowsStep, TypesInit, TypesStep, PTL DEF Spec
-------------------------------------------------------------------------------
(***************************************************************************)
(* The budget.  Owed counts the calls that can still be made without a new *)
(* event being let in: those of the runs under way, of what waits in the   *)
(* inboxes, and the one of the vision worker.  While the budget is open    *)
(* they are at most two runs' worth per agent; once it is spent, every     *)
(* call is one of them.                                                    *)
(***************************************************************************)
Left(a) == (IF inbox[a] = NoEvent THEN 0 ELSE MaxTurns)
             + (IF run[a] = NoRun THEN 0 ELSE MaxTurns - run[a].turns)

Slots == Agents \X (1..(2 * MaxTurns))
Owed == { s \in Slots : s[2] <= Left(s[1]) }
Seeing == IF vision = "calling" THEN 1 ELSE 0

Overshoot == 2 * Cardinality(Agents) * MaxTurns

SpendInv == used < MaxCalls \/ used + Cardinality(Owed) + Seeing <= MaxCalls + Overshoot

LEMMA SlotCount ==
  /\ IsFiniteSet(Slots) /\ Cardinality(Slots) = Overshoot
  /\ IsFiniteSet(Owed) /\ Cardinality(Owed) \in Nat /\ Cardinality(Owed) <= Overshoot
  /\ Overshoot \in Nat /\ MaxCalls \in Nat /\ MaxTurns \in Nat \ {0}
<1>1. MaxCalls \in Nat \ {0} /\ MaxTurns \in Nat \ {0} /\ IsFiniteSet(Agents)
  BY PitwallAssumption
<1> DEFINE m == 2 * MaxTurns
<1>2. m \in Nat /\ m >= 1
  BY <1>1
<1>3. IsFiniteSet(1..m) /\ Cardinality(1..m) = m
  <2> HIDE DEF m
  <2> QED BY <1>2, FS_Interval
<1>4. Cardinality(Agents) \in Nat
  BY <1>1, FS_CardinalityType
<1>5. IsFiniteSet(Slots) /\ Cardinality(Slots) = Cardinality(Agents) * m
  <2> HIDE DEF m
  <2>1. IsFiniteSet(Agents \X (1..m)) /\ Cardinality(Agents \X (1..m)) = Cardinality(Agents) * m
    BY <1>1, <1>3, FS_Product
  <2> USE DEF m
  <2> QED BY <2>1 DEF Slots
<1>6. Cardinality(Agents) * m = Overshoot /\ Overshoot \in Nat
  BY <1>1, <1>4 DEF Overshoot
<1>7. Owed \in SUBSET Slots
  BY DEF Owed
<1>8. IsFiniteSet(Owed) /\ Cardinality(Owed) <= Cardinality(Slots)
  BY <1>5, <1>7, FS_Subset
<1>9. Cardinality(Owed) \in Nat
  BY <1>8, FS_CardinalityType
<1> QED BY <1>1, <1>5, <1>6, <1>8, <1>9

LEMMA LeftRange ==
  ASSUME RoutingTypes, NEW a \in Agents PROVE Left(a) \in 0..(2 * MaxTurns)
<1>1. MaxTurns \in Nat
  BY PitwallAssumption
<1>2. run[a] # NoRun => run[a].turns \in 0..MaxTurns
  BY DEF RoutingTypes, Runs
<1> QED BY <1>1, <1>2 DEF Left

\* A step under which no agent is owed more leaves no more owed.
LEMMA OwedShrinks ==
  ASSUME RoutingTypes, RoutingTypes', \A a \in Agents : Left(a)' <= Left(a)
  PROVE  Cardinality(Owed') \in Nat /\ Cardinality(Owed') <= Cardinality(Owed)
<1>1. \A a \in Agents : Left(a) \in Int /\ Left(a)' \in Int
  <2>1. MaxTurns \in Nat
    BY PitwallAssumption
  <2>2. \A a \in Agents : run'[a] # NoRun => run'[a].turns \in 0..MaxTurns
    BY DEF RoutingTypes, Runs
  <2>3. \A a \in Agents : Left(a)' \in Int
    BY <2>1, <2>2 DEF Left
  <2> QED BY <2>1, <2>3, LeftRange
<1>2. Owed' \in SUBSET Owed
  BY <1>1 DEF Owed, Slots
<1>3. IsFiniteSet(Owed') /\ Cardinality(Owed') <= Cardinality(Owed)
  BY <1>2, SlotCount, FS_Subset
<1> QED BY <1>3, FS_CardinalityType

LEMMA NoMoreOwed ==
  ASSUME SpendInv, CountTypes, RoutingTypes, RoutingTypes', used' = used, Seeing' <= Seeing,
         \A a \in Agents : Left(a)' <= Left(a)
  PROVE  SpendInv'
<1>1. Cardinality(Owed') \in Nat /\ Cardinality(Owed') <= Cardinality(Owed)
  BY OwedShrinks
<1>2. used \in Nat /\ Seeing \in Int /\ Seeing' \in Int
  BY DEF CountTypes, Seeing
<1>3. used < MaxCalls \/ used + Cardinality(Owed') + Seeing' <= MaxCalls + Overshoot
  BY <1>1, <1>2, SlotCount DEF SpendInv
<1> QED BY <1>3 DEF SpendInv, Overshoot

\* Whatever is owed, an open budget stays within the overshoot.
LEMMA OpenBudget ==
  ASSUME used' \in Nat, used' < MaxCalls PROVE SpendInv'
BY DEF SpendInv

LEMMA CallSpends ==
  ASSUME SpendInv, AllTypes, AllTypes', NEW a \in Agents, ModelCall(a)
  PROVE  SpendInv'
<1>1. /\ run[a] \in Runs /\ run[a].turns \in Nat /\ run[a].turns < MaxTurns
      /\ used' = used + 1 /\ used \in Nat /\ inbox' = inbox /\ vision' = vision
  BY DEF ModelCall, CanCall, AllTypes, RoutingTypes, CountTypes, NoRun, Runs, budgetVars
<1>2. run' = [run EXCEPT ![a] = run'[a]] /\ run'[a] # NoRun /\ run'[a].turns = run[a].turns + 1
  <2> DEFINE n == run[a].turns + 1
  <2>1. run' = [run EXCEPT ![a] = [run[a] EXCEPT !.turns = n]]
    BY DEF ModelCall, AllTypes, RoutingTypes
  <2>2. n = run[a].turns + 1
    OBVIOUS
  <2> HIDE DEF n
  <2>3. [run[a] EXCEPT !.turns = n].turns = n
    BY <1>1 DEF Runs
  <2>4. run'[a] = [run[a] EXCEPT !.turns = n]
    BY <2>1 DEF AllTypes, RoutingTypes
  <2>5. run'[a].stage # "none"
    BY <1>1, <2>4 DEF Runs
  <2>6. run'[a] # NoRun
    BY <2>5 DEF NoRun
  <2>7. run' = [run EXCEPT ![a] = run'[a]]
    BY <2>1, <2>4
  <2>8. run'[a].turns = run[a].turns + 1
    BY <2>2, <2>3, <2>4
  <2> QED BY <2>6, <2>7, <2>8
<1>3. \A b \in Agents \ {a} : Left(b)' = Left(b)
  BY <1>1, <1>2 DEF Left, AllTypes, RoutingTypes
<1>4. MaxTurns \in Nat /\ run[a] # NoRun
  BY <1>1, PitwallAssumption DEF NoRun, Runs
<1>5. Left(a)' = Left(a) - 1 /\ Left(a) >= 1
  BY <1>1, <1>2, <1>4 DEF Left
<1>6. \A b \in Agents : Left(b) \in 0..(2 * MaxTurns)
  BY LeftRange DEF AllTypes
<1> DEFINE s == <<a, Left(a)>>
<1>7. s \in Owed
  BY <1>4, <1>5, <1>6 DEF Owed, Slots
<1>8. Owed' = Owed \ {s}
  <2>1. ASSUME NEW x \in Slots PROVE x \in Owed' <=> x \in Owed \ {s}
    <3>1. x[1] \in Agents /\ x[2] \in Int /\ x = <<x[1], x[2]>>
      BY <1>4 DEF Slots
    <3>2. Left(x[1]) \in Int
      BY <1>6, <3>1
    <3>3. CASE x[1] = a
      BY <1>5, <3>1, <3>2, <3>3 DEF Owed
    <3>4. CASE x[1] # a
      BY <1>3, <3>1, <3>2, <3>4 DEF Owed
    <3> QED BY <3>3, <3>4
  <2>2. Owed \subseteq Slots /\ Owed' \subseteq Slots
    BY DEF Owed, Slots
  <2> QED BY <2>1, <2>2
<1> HIDE DEF s
<1>9. Cardinality(Owed') = Cardinality(Owed) - 1
  BY <1>7, <1>8, SlotCount, FS_RemoveElement
<1>10. Seeing' = Seeing /\ Seeing \in 0..1
  BY <1>1 DEF Seeing
<1>11. used' < MaxCalls \/ used' + Cardinality(Owed') + Seeing' <= MaxCalls + Overshoot
  BY <1>1, <1>9, <1>10, SlotCount DEF SpendInv
<1> QED BY <1>11 DEF SpendInv, Overshoot

LEMMA WorkerSpends ==
  ASSUME SpendInv, AllTypes, AllTypes', NEW a \in Agents, Worker(a)
  PROVE  SpendInv'
<1>0. /\ CountTypes /\ RoutingTypes /\ RoutingTypes' /\ MaxTurns \in Nat
      /\ \A b \in Agents : Left(b) \in 0..(2 * MaxTurns)
  BY LeftRange, PitwallAssumption DEF AllTypes
<1>1. ASSUME used' = used, vision' = vision,
             \A b \in Agents \ {a} : inbox'[b] = inbox[b] /\ run'[b] = run[b],
             Left(a)' <= Left(a)
      PROVE  SpendInv'
  <2>1. \A b \in Agents \ {a} : Left(b)' = Left(b)
    BY <1>1 DEF Left
  <2>2. \A b \in Agents : Left(b)' <= Left(b)
    BY <1>0, <1>1, <2>1
  <2>3. Seeing' <= Seeing
    BY <1>1 DEF Seeing
  <2> QED BY <1>0, <1>1, <2>2, <2>3, NoMoreOwed
<1>2. CASE Take(a)
  <2> DEFINE r == [stage |-> "waiting", event |-> inbox[a], turns |-> 0]
  <2>1. r # NoRun /\ r.turns = 0
    <3>1. r.stage # NoRun.stage
      BY DEF NoRun
    <3> QED BY <3>1
  <2> HIDE DEF r
  <2>2. /\ run[a] = NoRun /\ inbox[a] # NoEvent /\ run'[a] = r /\ inbox'[a] = NoEvent
        /\ UNCHANGED <<used, vision>>
        /\ \A b \in Agents \ {a} : inbox'[b] = inbox[b] /\ run'[b] = run[b]
    BY <1>0, <1>2 DEF Take, r, RoutingTypes, budgetVars
  <2>3. Left(a)' = Left(a)
    BY <1>0, <2>1, <2>2 DEF Left
  <2> QED BY <1>0, <1>1, <2>2, <2>3
<1>3. CASE Starts(a)
  <2> DEFINE r == [run[a] EXCEPT !.stage = "calling"]
  <2>1. run[a] \in Runs /\ run[a] # NoRun
    BY <1>0, <1>3 DEF Starts, RoutingTypes, NoRun
  <2>2. r.turns = run[a].turns /\ r.stage = "calling"
    BY <2>1 DEF Runs
  <2>3. r # NoRun
    BY <2>2 DEF NoRun
  <2> HIDE DEF r
  <2>4. /\ run'[a] = r /\ UNCHANGED <<used, vision, inbox>>
        /\ \A b \in Agents \ {a} : run'[b] = run[b]
    BY <1>0, <1>3 DEF Starts, r, RoutingTypes, budgetVars
  <2>5. Left(a)' = Left(a)
    BY <2>1, <2>2, <2>3, <2>4 DEF Left
  <2> QED BY <1>0, <1>1, <2>4, <2>5
<1>4. CASE ModelCall(a)
  BY <1>4, CallSpends
<1>5. CASE RunOk(a) \/ RunFails(a)
  <2>1. /\ run'[a] = NoRun /\ UNCHANGED <<used, vision, inbox>>
        /\ \A b \in Agents \ {a} : run'[b] = run[b]
    BY <1>0, <1>5 DEF RunOk, RunFails, RoutingTypes, budgetVars
  <2>2. run[a] # NoRun => run[a].turns \in 0..MaxTurns
    BY <1>0 DEF RoutingTypes, Runs
  <2>3. Left(a)' <= Left(a)
    BY <1>0, <2>1, <2>2 DEF Left
  <2> QED BY <1>1, <2>1, <2>3
<1> QED BY <1>2, <1>3, <1>4, <1>5 DEF Worker

LEMMA SpendStep == Follows /\ AllTypes /\ SpendInv /\ [Next]_vars => SpendInv'
<1> SUFFICES ASSUME Follows, AllTypes, SpendInv, [Next]_vars PROVE SpendInv'
  OBVIOUS
<1>0. AllTypes'
  BY TypesStep
<1>1. ASSUME UNCHANGED <<used, inbox, run, vision>> PROVE SpendInv'
  BY <1>1 DEF SpendInv, Owed, Slots, Left, Seeing, Overshoot
<1>2. ASSUME Reset PROVE SpendInv'
  BY <1>2, PitwallAssumption, OpenBudget DEF Reset
<1>3. CASE Engine
  <2>1. Reset \/ UNCHANGED <<used, inbox, run, vision>>
    BY <1>3 DEF Engine, BeginSegment, Tick, Detect, Green, Checkered, ResetForSegment,
                Disconnect, Connect, layerVars, budgetVars
  <2> QED BY <1>1, <1>2, <2>1
<1>4. CASE People
  <2>1. Reset \/ UNCHANGED <<used, inbox, run, vision>>
    BY <1>4 DEF People, Ask, SetEnabled, SetAgentEnabled, OperatorReset, budgetVars
  <2> QED BY <1>1, <1>2, <2>1
<1>5. CASE Dispatch
  <2> DEFINE e == Head(bus)
  <2>1. /\ inbox' = [a \in Agents |-> IF a \in Accepting(e) THEN Winner(a, e) ELSE inbox[a]]
        /\ UNCHANGED <<used, run, vision>>
    BY <1>5 DEF Dispatch
  <2>2. used \in Nat /\ inbox = [a \in Agents |-> inbox[a]]
    BY DEF AllTypes, CountTypes, RoutingTypes
  <2> HIDE DEF e
  <2>3. CASE Accepting(e) = {}
    <3>1. inbox' = inbox
      BY <2>1, <2>2, <2>3
    <3> QED BY <1>1, <2>1, <3>1
  <2>4. CASE Accepting(e) # {}
    <3>1. ~Exhausted
      BY <2>4 DEF Accepting, Blocked
    <3>2. used' \in Nat /\ used' < MaxCalls
      BY <2>1, <2>2, <3>1, PitwallAssumption DEF Exhausted
    <3> QED BY <3>2, OpenBudget
  <2> QED BY <2>3, <2>4
<1>6. CASE VisionStarts
  <2>1. used' \in Nat /\ used' < MaxCalls
    BY <1>6 DEF VisionStarts, AllTypes, CountTypes
  <2> QED BY <2>1, OpenBudget
<1>7. CASE VisionRecords
  <2>1. /\ used' = used + 1 /\ used \in Nat /\ UNCHANGED <<inbox, run>>
        /\ Seeing = 1 /\ Seeing' = 0
    BY <1>7 DEF VisionRecords, AllTypes, CountTypes, Seeing
  <2>2. Owed' = Owed
    BY <2>1 DEF Owed, Slots, Left
  <2>3. Cardinality(Owed) <= Overshoot
    BY SlotCount
  <2>4. used' < MaxCalls \/ used' + Cardinality(Owed') + Seeing' <= MaxCalls + Overshoot
    BY <2>1, <2>2, <2>3, SlotCount DEF SpendInv
  <2> QED BY <2>4 DEF SpendInv, Overshoot
<1>8. CASE UNCHANGED vars
  BY <1>1, <1>8 DEF vars, budgetVars
<1> QED BY <1>0, <1>3, <1>4, <1>5, <1>6, <1>7, <1>8, WorkerSpends DEF Next, Vision

\* The session budget is read when an event is let in and spent later: whatever agents,
\* switches, resets and the vision worker do meanwhile, the spend passes the limit by at
\* most two runs' calls per agent.
THEOREM BudgetSafe == Spec => []BudgetOvershootBounded
<1>1. AllTypes /\ SpendInv => BudgetOvershootBounded
  <2> SUFFICES ASSUME AllTypes, SpendInv PROVE used <= MaxCalls + Overshoot
    BY DEF BudgetOvershootBounded, Overshoot
  <2>1. used \in Nat /\ Seeing \in 0..1
    BY DEF AllTypes, CountTypes, Seeing
  <2> QED BY <2>1, SlotCount DEF SpendInv
<1>2. Init => SpendInv
  BY PitwallAssumption DEF Init, SpendInv
<1> QED BY <1>1, <1>2, FollowsInit, FollowsStep, TypesInit, TypesStep, SpendStep, PTL DEF Spec
-------------------------------------------------------------------------------
(***************************************************************************)
(* Questions.  A question has one token, which a step passes on: from the  *)
(* bus to its owner's inbox, to its owner's run, to a reply, or to the     *)
(* questions lost.  A place that holds the token is the only one, which is *)
(* what makes room for it in the set of those lost.                        *)
(***************************************************************************)
About(e, q) == IsQuestion(e) /\ e.id = q

BusPlaces(q) == { i \in DOMAIN bus : About(bus[i], q) }
Holders(q) == { a \in Agents : About(inbox[a], q) }
Answerers(q) == { a \in Agents : run[a] # NoRun /\ About(run[a].event, q) }
Losses(q) == { l \in lost : l.id = q }

Accounted(q) ==
  /\ IsFiniteSet(Losses(q))
  /\ OnBus(q) + Waiting(q) + Answering(q) + replies[q] + LostTo(q) = Count(q \in asked)

AccountInv == \A q \in Questions : Accounted(q)

LEMMA PlaceCounts ==
  ASSUME NEW q
  PROVE  /\ OnBus(q) = Cardinality(BusPlaces(q)) /\ Waiting(q) = Cardinality(Holders(q))
         /\ Answering(q) = Cardinality(Answerers(q)) /\ LostTo(q) = Cardinality(Losses(q))
<1>1. OnBus(q) = Cardinality(BusPlaces(q))
  BY DEF OnBus, BusPlaces, About
<1>2. Waiting(q) = Cardinality(Holders(q))
  BY DEF Waiting, Holders, About
<1>3. Answerers(q) = { a \in Agents : /\ run[a] # NoRun
                                      /\ IsQuestion(run[a].event)
                                      /\ run[a].event.id = q }
  BY DEF Answerers, About
<1>4. LostTo(q) = Cardinality(Losses(q))
  BY DEF LostTo, Losses
<1> QED BY <1>1, <1>2, <1>3, <1>4 DEF Answering

LEMMA PlacesFinite ==
  ASSUME bus \in Seq(Events), CountTypes, NEW q \in Questions, IsFiniteSet(Losses(q))
  PROVE  /\ IsFiniteSet(BusPlaces(q)) /\ IsFiniteSet(Holders(q)) /\ IsFiniteSet(Answerers(q))
         /\ OnBus(q) \in Nat /\ Waiting(q) \in Nat /\ Answering(q) \in Nat
         /\ replies[q] \in Nat /\ LostTo(q) \in Nat
<1>1. IsFiniteSet(BusPlaces(q))
  <2>1. BusPlaces(q) \in SUBSET (1..Len(bus)) /\ Len(bus) \in Nat
    BY DEF BusPlaces
  <2>2. IsFiniteSet(1..Len(bus))
    BY <2>1, FS_Interval
  <2> QED BY <2>1, <2>2, FS_Subset
<1>2. IsFiniteSet(Holders(q)) /\ IsFiniteSet(Answerers(q))
  <2>1. Holders(q) \in SUBSET Agents /\ Answerers(q) \in SUBSET Agents
    BY DEF Holders, Answerers
  <2> QED BY <2>1, PitwallAssumption, FS_Subset
<1> QED BY <1>1, <1>2, PlaceCounts, FS_CardinalityType DEF CountTypes

\* At most one token: another place holds none.
LEMMA NoOther ==
  ASSUME NEW S, IsFiniteSet(S), Cardinality(S) = 0 PROVE S = {}
BY FS_EmptySet

LEMMA OnlyOne ==
  ASSUME NEW S, IsFiniteSet(S), NEW x \in S, Cardinality(S) <= 1 PROVE S = {x} /\ Cardinality(S) = 1
<1>1. Cardinality(S) \in Nat /\ (Cardinality(S) = 0 <=> S = {})
  BY FS_CardinalityType, FS_EmptySet
<1>2. Cardinality(S) = 1
  BY <1>1
<1>3. \E y : S = {y}
  BY <1>2, FS_Singleton
<1> QED BY <1>2, <1>3

LEMMA QuestionOnBus ==
  ASSUME bus \in Seq(Events), NEW e \in Events, bus' = Append(bus, e), NEW q
  PROVE  BusPlaces(q)' = BusPlaces(q) \cup (IF About(e, q) THEN {Len(bus) + 1} ELSE {})
BY DEF BusPlaces, About, IsQuestion

LEMMA QuestionOffBus ==
  ASSUME bus \in Seq(Events), bus # << >>, bus' = Tail(bus), NEW q, IsFiniteSet(BusPlaces(q))
  PROVE  OnBus(q)' \in Nat /\ OnBus(q) = OnBus(q)' + Count(About(Head(bus), q))
<1> DEFINE P == BusPlaces(q) \ {1}
           T == BusPlaces(q)'
           f == [n \in P |-> n - 1]
<1>1. /\ Len(bus) \in Nat \ {0} /\ DOMAIN bus = 1..Len(bus) /\ bus[1] = Head(bus)
      /\ DOMAIN bus' = 1..(Len(bus) - 1) /\ \A n \in DOMAIN bus' : bus'[n] = bus[n + 1]
  OBVIOUS
<1>2. T = { n \in DOMAIN bus' : About(bus'[n], q) }
  BY DEF BusPlaces, About, IsQuestion
<1>3. \A n : n \in P <=> n \in 2..Len(bus) /\ About(bus[n], q)
  BY <1>1 DEF BusPlaces
<1>4. \A n : n \in T <=> n \in 1..(Len(bus) - 1) /\ About(bus[n + 1], q)
  BY <1>1, <1>2
<1>5. IsFiniteSet(P) /\ Cardinality(P) = Cardinality(BusPlaces(q)) - Count(About(Head(bus), q))
  <2>1. 1 \in BusPlaces(q) <=> About(Head(bus), q)
    BY <1>1 DEF BusPlaces
  <2>2. Cardinality(BusPlaces(q)) \in Nat
    BY FS_CardinalityType
  <2> QED BY <2>1, <2>2, FS_RemoveElement DEF Count
<1>6. f \in Bijection(P, T)
  <2> HIDE DEF P, T
  <2>1. \A n \in P : n - 1 \in T /\ n \in Int
    BY <1>1, <1>3, <1>4
  <2>2. \A n \in T : n + 1 \in P /\ (n + 1) - 1 = n
    BY <1>1, <1>3, <1>4
  <2>3. f \in [P -> T] /\ \A n \in P : f[n] = n - 1
    BY <2>1
  <2>4. \A m, n \in P : f[m] = f[n] => m = n
    BY <2>1, <2>3
  <2>5. \A n \in T : \E m \in P : f[m] = n
    BY <2>2, <2>3
  <2> HIDE DEF f
  <2> QED BY <2>3, <2>4, <2>5 DEF Bijection, Injection, IsInjective, Surjection
<1>7. Cardinality(T) = Cardinality(P)
  <2> HIDE DEF P, T, f
  <2> QED BY <1>5, <1>6, FS_Bijection DEF ExistsBijection
<1>8. OnBus(q) = Cardinality(BusPlaces(q)) /\ OnBus(q)' = Cardinality(T)
  <2>1. OnBus(q)' = Cardinality(T)
    BY DEF OnBus, BusPlaces, About, IsQuestion
  <2> QED BY <2>1, PlaceCounts
<1>9. Cardinality(BusPlaces(q)) \in Nat /\ Count(About(Head(bus), q)) \in Nat
      /\ Cardinality(P) \in Nat
  BY <1>5, FS_CardinalityType DEF Count
<1> QED BY <1>5, <1>7, <1>8, <1>9

\* A step that leaves the places of a question alone.
LEMMA SameAccount ==
  ASSUME NEW q, Accounted(q), OnBus(q)' = OnBus(q), Waiting(q)' = Waiting(q),
         Answering(q)' = Answering(q), Losses(q)' = Losses(q), replies'[q] = replies[q],
         q \in asked' <=> q \in asked
  PROVE  Accounted(q)'
<1>1. LostTo(q)' = LostTo(q)
  <2>1. LostTo(q)' = Cardinality(Losses(q)')
    BY DEF LostTo, Losses
  <2> QED BY <2>1, PlaceCounts
<1>2. Count(q \in asked') = Count(q \in asked)
  BY DEF Count
<1> QED BY <1>1, <1>2 DEF Accounted, Count

\* A question is woken for its owner, unless a template answers it.
LEMMA OnlyTheOwner ==
  ASSUME NEW q \in Questions, NEW e \in Events, About(e, q), roster \subseteq Agents,
         NEW a \in Accepting(e)
  PROVE  a = Owner[q] /\ ~IsLookup(e)
<1>1. Triggered(a, e) /\ a \in Agents
  BY WakesTrigger DEF Accepting
<1>2. e.kind \notin Listens[a]
  BY <1>1, PitwallAssumption DEF About, IsQuestion
<1> QED BY <1>1, <1>2 DEF Triggered, About

\* The pump takes a question off the bus: it is answered, refused, offered to its owner or
\* lost at once.
LEMMA QuestionDispatched ==
  ASSUME Follows, AllTypes, AllTypes', NEW q \in Questions, Accounted(q), Dispatch,
         About(Head(bus), q)
  PROVE  Accounted(q)'
<1> DEFINE e == Head(bus)
           accepted == Accepting(e)
<1>0. /\ bus # << >> /\ bus' = Tail(bus) /\ bus \in Seq(Events) /\ e \in Events
      /\ UNCHANGED <<run, asked>>
  BY DEF Dispatch, Follows
<1>1. /\ inbox' = [a \in Agents |-> IF a \in accepted THEN Winner(a, e) ELSE inbox[a]]
      /\ lost' = lost \cup
             { [id |-> Dropped(a, e).id, to |-> Winner(a, e).kind] :
                 a \in { a \in accepted : IsQuestion(Dropped(a, e)) } }
      /\ replies' = IF IsQuestion(e)
                      THEN [replies EXCEPT ![e.id] = @ + Count(Templated(e)) + Count(Unanswered(e))]
                      ELSE replies
  BY DEF Dispatch
<1>2. /\ CountTypes /\ RoutingTypes /\ RoutingTypes' /\ roster \subseteq Agents
      /\ IsFiniteSet(Losses(q))
  BY DEF AllTypes, SwitchTypes, Accounted
<1>3. /\ IsFiniteSet(BusPlaces(q)) /\ IsFiniteSet(Holders(q))
      /\ OnBus(q) \in Nat /\ Waiting(q) \in Nat /\ Answering(q) \in Nat
      /\ replies[q] \in Nat /\ LostTo(q) \in Nat
  BY <1>0, <1>2, PlacesFinite
<1>4. OnBus(q) = OnBus(q)' + 1 /\ OnBus(q)' \in Nat
  BY <1>0, <1>3, QuestionOffBus DEF Count
<1>5. /\ OnBus(q)' = 0 /\ OnBus(q) = 1 /\ Waiting(q) = 0 /\ Answering(q) = 0
      /\ replies[q] = 0 /\ LostTo(q) = 0 /\ q \in asked
  <2>1. Count(q \in asked) \in {0, 1} /\ (Count(q \in asked) = 1 => q \in asked)
    BY DEF Count
  <2> QED BY <1>3, <1>4, <2>1 DEF Accounted
<1>6. Holders(q) = {} /\ Losses(q) = {}
  BY <1>2, <1>3, <1>5, PlaceCounts, NoOther
<1>7. \A a \in accepted : a = Owner[q] /\ a \in Agents /\ ~IsLookup(e)
  BY <1>0, <1>2, OnlyTheOwner, WakesTrigger
<1>8. Answering(q)' = 0
  BY <1>0, <1>5 DEF Answering
<1>9. IsQuestion(e) /\ e.id = q
  BY DEF About
<1> HIDE DEF e
<1>10. CASE accepted = {}
  <2>1. inbox' = inbox /\ lost' = lost
    BY <1>1, <1>2, <1>10 DEF RoutingTypes
  <2>2. replies'[q] = 1
    <3>1. Unanswered(e) <=> ~Templated(e)
      BY <1>9, <1>10 DEF Unanswered
    <3>2. Count(Templated(e)) + Count(Unanswered(e)) = 1
      BY <3>1 DEF Count
    <3> DEFINE n == replies[q] + Count(Templated(e)) + Count(Unanswered(e))
    <3>3. n = 1
      BY <1>5, <3>2 DEF Count
    <3>4. replies' = [replies EXCEPT ![q] = n]
      BY <1>1, <1>9
    <3> HIDE DEF n
    <3> QED BY <1>2, <3>3, <3>4 DEF CountTypes
  <2>3. Waiting(q)' = 0 /\ Losses(q)' = Losses(q) /\ LostTo(q)' = 0
    BY <1>5, <2>1 DEF Waiting, Losses, LostTo
  <2> QED BY <1>0, <1>2, <1>5, <1>8, <2>2, <2>3 DEF Accounted, Count
<1>11. CASE accepted # {}
  <2> DEFINE o == Owner[q]
  <2>1. accepted = {o} /\ o \in Agents /\ ~IsLookup(e)
    BY <1>7, <1>11
  <2>2. replies'[q] = 0
    <3>1. ~Templated(e) /\ ~Unanswered(e)
      BY <1>11, <2>1 DEF Templated, Unanswered
    <3> DEFINE n == replies[q] + Count(Templated(e)) + Count(Unanswered(e))
    <3>2. n = 0
      BY <1>5, <3>1 DEF Count
    <3>3. replies' = [replies EXCEPT ![q] = n]
      BY <1>1, <1>9
    <3> HIDE DEF n
    <3> QED BY <1>2, <3>2, <3>3 DEF CountTypes
  <2> HIDE DEF o
  <2>3. /\ inbox'[o] = Winner(o, e) /\ \A a \in Agents \ {o} : inbox'[a] = inbox[a]
        /\ lost' = lost \cup IF IsQuestion(Dropped(o, e))
                             THEN {[id |-> Dropped(o, e).id, to |-> Winner(o, e).kind]} ELSE {}
    BY <1>1, <2>1
  <2>4. Holders(q)' = { a \in Agents : About(inbox'[a], q) }
    BY DEF Holders, About, IsQuestion
  <2>5. \A a \in Agents : ~About(inbox[a], q)
    BY <1>6 DEF Holders
  <2>6. Losses(q)' = { l \in lost' : l.id = q } /\ \A l \in lost : l.id # q
    BY <1>6 DEF Losses
  <2>7. /\ Waiting(q)' = Cardinality(Holders(q)')
        /\ LostTo(q)' = Cardinality(Losses(q)')
    BY DEF Waiting, Holders, About, IsQuestion, LostTo, Losses
  <2>8. CASE Keeps(o, e)
    <3> DEFINE l == [id |-> q, to |-> Winner(o, e).kind]
    <3>1. Winner(o, e) = inbox[o] /\ Dropped(o, e) = e
      BY <2>8 DEF Winner, Dropped
    <3>2. lost' = lost \cup {l}
      BY <1>9, <2>3, <3>1
    <3>3. l.id = q
      OBVIOUS
    <3> HIDE DEF l
    <3>4. Losses(q)' = {l}
      BY <2>6, <3>2, <3>3
    <3>5. Holders(q)' = {}
      BY <2>1, <2>3, <2>4, <2>5, <3>1
    <3>6. IsFiniteSet(Losses(q)') /\ LostTo(q)' = 1 /\ Waiting(q)' = 0
      BY <2>7, <3>4, <3>5, FS_Singleton, FS_EmptySet
    <3> QED BY <1>0, <1>5, <1>8, <2>2, <3>6 DEF Accounted, Count
  <2>9. CASE ~Keeps(o, e)
    <3>1. Winner(o, e) = e /\ Dropped(o, e) = inbox[o]
      BY <2>9 DEF Winner, Dropped
    <3>2. IsQuestion(inbox[o]) => inbox[o].id # q
      BY <2>1, <2>5 DEF About
    <3>3. Losses(q)' = {}
      BY <2>3, <2>6, <3>1, <3>2
    <3>4. Holders(q)' = {o}
      BY <1>9, <2>1, <2>3, <2>4, <2>5, <3>1 DEF About
    <3>5. IsFiniteSet(Losses(q)') /\ LostTo(q)' = 0 /\ Waiting(q)' = 1
      BY <2>7, <3>3, <3>4, FS_Singleton, FS_EmptySet
    <3> QED BY <1>0, <1>5, <1>8, <2>2, <3>5 DEF Accounted, Count
  <2> QED BY <2>8, <2>9
<1> QED BY <1>10, <1>11

\* The pump takes another event off the bus: what waits in an inbox stays or is lost.
LEMMA OtherDispatched ==
  ASSUME Follows, AllTypes, AllTypes', NEW q \in Questions, Accounted(q), Dispatch,
         ~About(Head(bus), q)
  PROVE  Accounted(q)'
<1> DEFINE e == Head(bus)
           accepted == Accepting(e)
<1>0. /\ bus # << >> /\ bus' = Tail(bus) /\ bus \in Seq(Events) /\ e \in Events
      /\ UNCHANGED <<run, asked>>
  BY DEF Dispatch, Follows
<1>1. /\ inbox' = [a \in Agents |-> IF a \in accepted THEN Winner(a, e) ELSE inbox[a]]
      /\ lost' = lost \cup
             { [id |-> Dropped(a, e).id, to |-> Winner(a, e).kind] :
                 a \in { a \in accepted : IsQuestion(Dropped(a, e)) } }
      /\ replies' = IF IsQuestion(e)
                      THEN [replies EXCEPT ![e.id] = @ + Count(Templated(e)) + Count(Unanswered(e))]
                      ELSE replies
  BY DEF Dispatch
<1>2. CountTypes /\ roster \subseteq Agents /\ IsFiniteSet(Losses(q))
  BY DEF AllTypes, SwitchTypes, Accounted
<1>3. /\ IsFiniteSet(BusPlaces(q)) /\ IsFiniteSet(Holders(q))
      /\ OnBus(q) \in Nat /\ Waiting(q) \in Nat /\ Answering(q) \in Nat
      /\ replies[q] \in Nat /\ LostTo(q) \in Nat
  BY <1>0, <1>2, PlacesFinite
<1>4. OnBus(q)' = OnBus(q)
  BY <1>0, <1>3, QuestionOffBus DEF Count
<1>5. Answering(q)' = Answering(q) /\ asked' = asked
  BY <1>0 DEF Answering
<1>6. replies'[q] = replies[q]
  <2> DEFINE n == replies[e.id] + Count(Templated(e)) + Count(Unanswered(e))
  <2>1. replies' = IF IsQuestion(e) THEN [replies EXCEPT ![e.id] = n] ELSE replies
    BY <1>1
  <2> HIDE DEF n
  <2> QED BY <1>2, <2>1 DEF About, CountTypes
<1>7. \A a \in accepted : a \in Agents
  BY <1>0, <1>2, WakesTrigger
<1>8. ~About(e, q)
  OBVIOUS
<1> HIDE DEF e, accepted
<1>9. Holders(q)' = { a \in Agents : About(inbox'[a], q) }
  BY DEF Holders, About, IsQuestion
<1>10. Losses(q)' = Losses(q) \cup
           { [id |-> q, to |-> Winner(a, e).kind] :
               a \in { a \in accepted : About(Dropped(a, e), q) } }
  BY <1>1 DEF Losses, About
<1>11. \A a \in accepted : About(Dropped(a, e), q) <=> ~Keeps(a, e) /\ About(inbox[a], q)
  BY <1>8 DEF Dropped
<1>12. \A a \in Agents : About(inbox'[a], q) <=> About(inbox[a], q) /\ (a \in accepted => Keeps(a, e))
  BY <1>1, <1>8 DEF Winner
<1>13. CASE \A a \in Holders(q) : a \in accepted => Keeps(a, e)
  <2>1. Holders(q)' = Holders(q)
    BY <1>9, <1>12, <1>13 DEF Holders
  <2>2. Losses(q)' = Losses(q)
    BY <1>7, <1>10, <1>11, <1>13 DEF Holders
  <2>3. Waiting(q)' = Waiting(q)
    BY <2>1, PlaceCounts DEF Waiting, Holders, About, IsQuestion
  <2> QED BY <1>4, <1>5, <1>6, <2>2, <2>3, SameAccount
<1>14. ASSUME NEW w \in Holders(q), w \in accepted, ~Keeps(w, e) PROVE Accounted(q)'
  <2>1. Count(q \in asked) <= 1 /\ Count(q \in asked) \in Nat
    BY DEF Count
  <2>2. /\ Holders(q) = {w} /\ Waiting(q) = 1 /\ OnBus(q) = 0 /\ Answering(q) = 0
        /\ replies[q] = 0 /\ LostTo(q) = 0 /\ q \in asked
    <3>1. Cardinality(Holders(q)) = Waiting(q) /\ Waiting(q) <= 1
      BY <1>3, <2>1, PlaceCounts DEF Accounted
    <3>2. Holders(q) = {w} /\ Waiting(q) = 1
      BY <1>3, <1>14, <3>1, OnlyOne
    <3> QED BY <1>3, <2>1, <3>2 DEF Accounted, Count
  <2>3. Losses(q) = {}
    BY <1>2, <2>2, PlaceCounts, NoOther
  <2>4. Holders(q)' = {}
    BY <1>9, <1>12, <1>14, <2>2 DEF Holders
  <2> DEFINE l == [id |-> q, to |-> Winner(w, e).kind]
  <2>5. Losses(q)' = {l}
    <3>1. \A a \in accepted : About(Dropped(a, e), q) <=> a = w
      BY <1>7, <1>11, <1>14, <2>2 DEF Holders
    <3> QED BY <1>10, <1>14, <2>3, <3>1
  <2> HIDE DEF l
  <2>6. IsFiniteSet(Losses(q)') /\ Cardinality(Losses(q)') = 1 /\ Cardinality(Holders(q)') = 0
    BY <2>4, <2>5, FS_Singleton, FS_EmptySet
  <2>7. LostTo(q)' = 1 /\ Waiting(q)' = 0
    BY <2>6 DEF LostTo, Losses, Waiting, Holders, About, IsQuestion
  <2> QED BY <1>4, <1>5, <1>6, <2>2, <2>6, <2>7 DEF Accounted, Count
<1> QED BY <1>13, <1>14

\* The worker takes what waits, and its run keeps it until it replies.
LEMMA WorkerAccounts ==
  ASSUME Follows, AllTypes, NEW q \in Questions, Accounted(q), NEW a \in Agents, Worker(a)
  PROVE  Accounted(q)'
<1>0. /\ CountTypes /\ RoutingTypes /\ bus \in Seq(Events) /\ IsFiniteSet(Losses(q))
      /\ bus' = bus /\ asked' = asked /\ lost' = lost
  BY DEF AllTypes, Accounted, Follows, Worker, Take, Starts, ModelCall, RunOk, RunFails, driverVars
<1>1. /\ IsFiniteSet(Answerers(q)) /\ IsFiniteSet(Holders(q))
      /\ OnBus(q) \in Nat /\ Waiting(q) \in Nat /\ Answering(q) \in Nat
      /\ replies[q] \in Nat /\ LostTo(q) \in Nat
  BY <1>0, PlacesFinite
<1>2. OnBus(q)' = OnBus(q) /\ Losses(q)' = Losses(q)
  BY <1>0 DEF OnBus, Losses
<1>3. /\ Holders(q)' = { b \in Agents : About(inbox'[b], q) }
      /\ Answerers(q)' = { b \in Agents : run'[b] # NoRun /\ About(run'[b].event, q) }
      /\ Waiting(q)' = Cardinality(Holders(q)') /\ Answering(q)' = Cardinality(Answerers(q)')
  <2>1. /\ Holders(q)' = { b \in Agents : About(inbox'[b], q) }
        /\ Waiting(q)' = Cardinality(Holders(q)')
    BY DEF Holders, Waiting, About, IsQuestion
  <2>2. Answerers(q)' = { b \in Agents : run'[b] # NoRun /\ About(run'[b].event, q) }
    BY DEF Answerers, About, IsQuestion
  <2>3. Answerers(q)' = { b \in Agents : /\ run'[b] # NoRun
                                         /\ IsQuestion(run'[b].event)
                                         /\ run'[b].event.id = q }
    BY <2>2 DEF About
  <2> QED BY <2>1, <2>2, <2>3 DEF Answering, IsQuestion
<1>4. CASE Take(a)
  <2> DEFINE r == [stage |-> "waiting", event |-> inbox[a], turns |-> 0]
  <2>1. r # NoRun /\ r.event = inbox[a]
    <3>1. r.stage # NoRun.stage
      BY DEF NoRun
    <3> QED BY <3>1
  <2> HIDE DEF r
  <2>2. /\ run[a] = NoRun /\ run'[a] = r /\ inbox'[a] = NoEvent /\ replies' = replies
        /\ \A b \in Agents \ {a} : run'[b] = run[b] /\ inbox'[b] = inbox[b]
    BY <1>0, <1>4 DEF Take, r, RoutingTypes, driverVars
  <2>3. ~About(NoEvent, q)
    BY DEF About, NoEvent, IsQuestion
  <2>4. CASE About(inbox[a], q)
    <3>1. Holders(q)' = Holders(q) \ {a} /\ a \in Holders(q)
      BY <1>3, <2>2, <2>3, <2>4 DEF Holders
    <3>2. Answerers(q)' = Answerers(q) \cup {a} /\ a \notin Answerers(q)
      BY <1>3, <2>1, <2>2, <2>4 DEF Answerers
    <3>3. Waiting(q)' = Waiting(q) - 1 /\ Answering(q)' = Answering(q) + 1
      <4>1. Cardinality(Holders(q) \ {a}) = Cardinality(Holders(q)) - 1
        BY <1>1, <3>1, FS_RemoveElement
      <4>2. Cardinality(Answerers(q) \cup {a}) = Cardinality(Answerers(q)) + 1
        BY <1>1, <3>2, FS_AddElement
      <4> QED BY <1>3, <3>1, <3>2, <4>1, <4>2, PlaceCounts
    <3>4. LostTo(q)' = LostTo(q) /\ replies'[q] = replies[q]
      BY <1>0, <2>2 DEF LostTo
    <3> QED BY <1>0, <1>1, <1>2, <3>3, <3>4 DEF Accounted, Count
  <2>5. CASE ~About(inbox[a], q)
    <3>1. Holders(q)' = Holders(q) /\ Answerers(q)' = Answerers(q)
      BY <1>3, <2>1, <2>2, <2>3, <2>5 DEF Holders, Answerers
    <3>2. Waiting(q)' = Waiting(q) /\ Answering(q)' = Answering(q)
      BY <1>3, <3>1, PlaceCounts
    <3> QED BY <1>0, <1>2, <2>2, <3>2, SameAccount
  <2> QED BY <2>4, <2>5
<1>5. CASE Starts(a) \/ ModelCall(a)
  <2>1. run[a] \in Runs /\ run[a] # NoRun
    BY <1>0, <1>5 DEF Starts, ModelCall, CanCall, RoutingTypes, NoRun
  <2>2. /\ run'[a] # NoRun /\ run'[a].event = run[a].event
        /\ \A b \in Agents \ {a} : run'[b] = run[b]
    <3>1. CASE Starts(a)
      <4> DEFINE r == [run[a] EXCEPT !.stage = "calling"]
      <4>1. r.stage = "calling" /\ r.event = run[a].event
        BY <2>1 DEF Runs
      <4>2. run' = [run EXCEPT ![a] = r]
        BY <3>1 DEF Starts
      <4> HIDE DEF r
      <4> QED BY <1>0, <4>1, <4>2 DEF RoutingTypes, NoRun
    <3>2. CASE ModelCall(a)
      <4> DEFINE n == run[a].turns + 1
                 r == [run[a] EXCEPT !.turns = n]
      <4>1. run' = [run EXCEPT ![a] = r]
        BY <3>2 DEF ModelCall
      <4> HIDE DEF n
      <4>2. r.stage = run[a].stage /\ r.event = run[a].event /\ run[a].stage # "none"
        BY <2>1 DEF Runs
      <4> HIDE DEF r
      <4> QED BY <1>0, <4>1, <4>2 DEF RoutingTypes, NoRun
    <3> QED BY <1>5, <3>1, <3>2
  <2>3. inbox' = inbox /\ replies' = replies
    BY <1>5 DEF Starts, ModelCall, driverVars
  <2>4. Holders(q)' = Holders(q) /\ Answerers(q)' = Answerers(q)
    BY <1>3, <2>1, <2>2, <2>3 DEF Holders, Answerers
  <2>5. Waiting(q)' = Waiting(q) /\ Answering(q)' = Answering(q)
    BY <1>3, <2>4, PlaceCounts
  <2> QED BY <1>0, <1>2, <2>3, <2>5, SameAccount
<1>6. CASE RunOk(a) \/ RunFails(a)
  <2>1. /\ run[a] # NoRun /\ run'[a] = NoRun /\ \A b \in Agents \ {a} : run'[b] = run[b]
        /\ inbox' = inbox /\ replies' = AnswersOnce(run[a].event, 1)
    BY <1>0, <1>6 DEF RunOk, RunFails, RoutingTypes, NoRun
  <2>2. Waiting(q)' = Waiting(q) /\ LostTo(q)' = LostTo(q)
    BY <1>0, <2>1 DEF Waiting, LostTo
  <2>3. CASE About(run[a].event, q)
    <3> DEFINE n == replies[q] + 1
    <3>1. replies' = [replies EXCEPT ![q] = n]
      BY <2>1, <2>3 DEF AnswersOnce, About
    <3>2. replies'[q] = replies[q] + 1
      BY <1>0, <3>1 DEF CountTypes
    <3>3. Answerers(q)' = Answerers(q) \ {a} /\ a \in Answerers(q)
      BY <1>3, <2>1, <2>3 DEF Answerers
    <3>4. Answering(q)' = Answering(q) - 1
      BY <1>1, <1>3, <3>3, PlaceCounts, FS_RemoveElement
    <3> QED BY <1>0, <1>1, <1>2, <2>2, <3>2, <3>4 DEF Accounted, Count
  <2>4. CASE ~About(run[a].event, q)
    <3> DEFINE n == replies[run[a].event.id] + 1
    <3>1. replies' = IF IsQuestion(run[a].event)
                     THEN [replies EXCEPT ![run[a].event.id] = n] ELSE replies
      BY <2>1 DEF AnswersOnce
    <3> HIDE DEF n
    <3>2. replies'[q] = replies[q]
      BY <1>0, <2>4, <3>1 DEF CountTypes, About
    <3>3. Answerers(q)' = Answerers(q)
      BY <1>3, <2>1, <2>4 DEF Answerers
    <3>4. Answering(q)' = Answering(q)
      BY <1>3, <3>3, PlaceCounts
    <3> QED BY <1>0, <1>2, <2>2, <3>2, <3>4, SameAccount
  <2> QED BY <2>3, <2>4
<1> QED BY <1>4, <1>5, <1>6 DEF Worker

Places(b, q) == { i \in DOMAIN b : About(b[i], q) }

LEMMA NotAQuestion ==
  ASSUME NEW b \in Seq(Events), NEW e \in Events, ~IsQuestion(e), NEW q
  PROVE  Places(Append(b, e), q) = Places(b, q)
BY DEF About, Places

\* The engine publishes what is not a question.
LEMMA EngineAccounts ==
  ASSUME Follows, NEW q \in Questions, Accounted(q), Engine
  PROVE  Accounted(q)'
<1>0. /\ UNCHANGED <<inbox, run, replies, asked, lost>>
      /\ bus \in Seq(Events) /\ session \in 0..MaxSessions /\ clock \in 0..MaxTime
      /\ type \in Types /\ 0 \in 0..MaxTime
  <2>1. UNCHANGED <<inbox, run, replies, asked, lost>>
    BY DEF Engine, BeginSegment, Tick, Detect, Green, Checkered, ResetForSegment, Reset,
           Disconnect, Connect, layerVars, driverVars
  <2> QED BY <2>1, PitwallAssumption DEF Follows
<1>1. ASSUME Places(bus', q) = Places(bus, q) PROVE Accounted(q)'
  <2>1. OnBus(q)' = OnBus(q)
    <3>1. OnBus(q) = Cardinality(Places(bus, q))
      BY PlaceCounts DEF BusPlaces, Places
    <3>2. OnBus(q)' = Cardinality(Places(bus', q))
      BY DEF OnBus, Places, About, IsQuestion
    <3> QED BY <1>1, <3>1, <3>2
  <2>2. /\ Waiting(q)' = Waiting(q) /\ Answering(q)' = Answering(q) /\ Losses(q)' = Losses(q)
        /\ replies'[q] = replies[q] /\ (q \in asked' <=> q \in asked)
    BY <1>0 DEF Waiting, Answering, Losses
  <2> QED BY <2>1, <2>2, SameAccount
<1>2. ASSUME bus' = bus PROVE Accounted(q)'
  BY <1>1, <1>2
<1>3. ASSUME NEW e \in Events, ~IsQuestion(e), bus' = Append(bus, e) PROVE Accounted(q)'
  <2>1. Places(Append(bus, e), q) = Places(bus, q)
    BY <1>0, <1>3, NotAQuestion
  <2> QED BY <1>1, <1>3, <2>1
<1>4. ASSUME NEW t \in Types, BeginSegment(t) PROVE Accounted(q)'
  <2> DEFINE over == Lifecycle("session_end", FALSE)
             new == [kind |-> "session_start", type |-> t, finished |-> FALSE,
                     session |-> session + 1, time |-> 0]
             b == IF Segment THEN Append(bus, over) ELSE bus
  <2>1. over \in Events /\ ~IsQuestion(over)
    BY <1>0, Published DEF Lifecycle, LifecycleKinds, IsQuestion
  <2>2. new \in Events /\ ~IsQuestion(new)
    <3>1. session + 1 \in 0..MaxSessions
      BY <1>0, <1>4, PitwallAssumption DEF BeginSegment
    <3>2. new \in Events
      BY <1>0, <3>1, Published DEF LifecycleKinds
    <3> QED BY <3>2 DEF IsQuestion
  <2>3. bus' = (bus \o (IF Segment THEN <<over>> ELSE << >>)) \o <<new>>
    BY <1>4 DEF BeginSegment
  <2> HIDE DEF over, new
  <2>4. bus \o (IF Segment THEN <<over>> ELSE << >>) = b /\ b \in Seq(Events)
    BY <1>0, <2>1
  <2>5. Places(b, q) = Places(bus, q)
    BY <1>0, <2>1, NotAQuestion
  <2>6. bus' = Append(b, new)
    <3>1. bus' = b \o <<new>>
      BY <2>3, <2>4
    <3> HIDE DEF b
    <3> QED BY <2>2, <2>4, <3>1
  <2> HIDE DEF b
  <2>7. Places(bus', q) = Places(bus, q)
    <3>1. Places(Append(b, new), q) = Places(b, q)
      BY <2>2, <2>4, NotAQuestion
    <3> QED BY <2>5, <2>6, <3>1
  <2> QED BY <1>1, <2>7
<1>5. ASSUME NEW d \in Detections, Detect(d) PROVE Accounted(q)'
  <2>1. Detection(d) \in Events /\ ~IsQuestion(Detection(d))
    BY <1>0, PitwallAssumption, Published DEF Detection, IsQuestion
  <2> QED BY <1>3, <1>5, <2>1 DEF Detect
<1>6. ASSUME NEW kind \in LifecycleKinds, NEW finished \in BOOLEAN,
             bus' = Append(bus, Lifecycle(kind, finished))
      PROVE  Accounted(q)'
  <2>1. Lifecycle(kind, finished) \in Events /\ ~IsQuestion(Lifecycle(kind, finished))
    BY <1>0, Published DEF Lifecycle, LifecycleKinds, IsQuestion
  <2> QED BY <1>3, <1>6, <2>1
<1>7. CASE Green \/ Connect
  BY <1>2, <1>6, <1>7 DEF Green, Connect, LifecycleKinds
<1>8. ASSUME NEW finished \in BOOLEAN, Checkered(finished) PROVE Accounted(q)'
  BY <1>6, <1>8 DEF Checkered, LifecycleKinds
<1>9. CASE Tick \/ ResetForSegment \/ Disconnect
  BY <1>2, <1>9 DEF Tick, ResetForSegment, Reset, Disconnect
<1> QED BY <1>4, <1>5, <1>7, <1>8, <1>9 DEF Engine

\* A question enters by being asked, once.
LEMMA AskAccounts ==
  ASSUME Follows, AllTypes, NEW q \in Questions, Accounted(q), NEW p \in Questions, Ask(p)
  PROVE  Accounted(q)'
<1>0. /\ bus' = Append(bus, Question(p)) /\ p \notin asked /\ asked' = asked \cup {p}
      /\ UNCHANGED <<inbox, run, replies, lost>>
      /\ bus \in Seq(Events) /\ CountTypes /\ IsFiniteSet(Losses(q))
  BY DEF Ask, Follows, AllTypes, Accounted
<1>1. /\ Waiting(q)' = Waiting(q) /\ Answering(q)' = Answering(q) /\ Losses(q)' = Losses(q)
      /\ LostTo(q)' = LostTo(q) /\ replies'[q] = replies[q]
  BY <1>0 DEF Waiting, Answering, Losses, LostTo
<1>2. /\ IsFiniteSet(BusPlaces(q)) /\ OnBus(q) \in Nat /\ Waiting(q) \in Nat
      /\ Answering(q) \in Nat /\ replies[q] \in Nat /\ LostTo(q) \in Nat
  BY <1>0, PlacesFinite
<1>3. Question(p) \in Events /\ (About(Question(p), q) <=> p = q)
  <2>1. Question(p) \in Events
    BY Published DEF Question, Follows
  <2> QED BY <2>1 DEF About, Question, IsQuestion
<1>4. OnBus(q)' = Cardinality(BusPlaces(q)')
  BY DEF OnBus, BusPlaces, About, IsQuestion
<1>5. BusPlaces(q)' = BusPlaces(q) \cup (IF p = q THEN {Len(bus) + 1} ELSE {})
  BY <1>0, <1>3, QuestionOnBus
<1>6. CASE p # q
  <2>1. OnBus(q)' = OnBus(q)
    BY <1>4, <1>5, <1>6, PlaceCounts
  <2> QED BY <1>0, <1>1, <1>6, <2>1, SameAccount
<1>7. CASE p = q
  <2>1. Len(bus) + 1 \notin BusPlaces(q)
    BY <1>0 DEF BusPlaces
  <2>2. BusPlaces(q)' = BusPlaces(q) \cup {Len(bus) + 1}
    BY <1>5, <1>7
  <2>3. OnBus(q)' = OnBus(q) + 1
    <3>1. Cardinality(BusPlaces(q) \cup {Len(bus) + 1}) = Cardinality(BusPlaces(q)) + 1
      BY <1>2, <2>1, FS_AddElement
    <3>2. OnBus(q) = Cardinality(BusPlaces(q))
      BY PlaceCounts
    <3> QED BY <1>4, <2>2, <3>1, <3>2
  <2> QED BY <1>0, <1>1, <1>2, <1>7, <2>3 DEF Accounted, Count
<1> QED BY <1>6, <1>7

LEMMA AccountStep == Follows /\ AllTypes /\ AccountInv /\ [Next]_vars => AccountInv'
<1> SUFFICES ASSUME Follows, AllTypes, AccountInv, [Next]_vars, NEW q \in Questions
             PROVE  Accounted(q)'
  BY DEF AccountInv
<1>0. Accounted(q) /\ AllTypes'
  BY TypesStep DEF AccountInv
<1>1. ASSUME UNCHANGED <<bus, inbox, run, replies, asked, lost>> PROVE Accounted(q)'
  <2>1. /\ OnBus(q)' = OnBus(q) /\ Waiting(q)' = Waiting(q) /\ Answering(q)' = Answering(q)
        /\ Losses(q)' = Losses(q) /\ replies'[q] = replies[q] /\ (q \in asked' <=> q \in asked)
    BY <1>1 DEF OnBus, Waiting, Answering, Losses
  <2> QED BY <1>0, <2>1, SameAccount
<1>2. CASE People
  <2>1. (\E p \in Questions : Ask(p)) \/ UNCHANGED <<bus, inbox, run, replies, asked, lost>>
    BY <1>2 DEF People, SetEnabled, SetAgentEnabled, OperatorReset, Reset, driverVars
  <2> QED BY <1>0, <1>1, <2>1, AskAccounts
<1>3. CASE Vision
  BY <1>1, <1>3 DEF Vision, VisionStarts, VisionRecords, driverVars
<1>4. CASE UNCHANGED vars
  BY <1>1, <1>4 DEF vars, driverVars
<1>5. CASE Dispatch
  BY <1>0, <1>5, QuestionDispatched, OtherDispatched
<1>6. CASE Engine
  BY <1>0, <1>6, EngineAccounts
<1>7. ASSUME NEW a \in Agents, Worker(a) PROVE Accounted(q)'
  BY <1>0, <1>7, WorkerAccounts
<1> QED BY <1>2, <1>3, <1>4, <1>5, <1>6, <1>7 DEF Next

LEMMA AccountInit == Init => AccountInv
<1> SUFFICES ASSUME Init, NEW q \in Questions PROVE Accounted(q)
  BY DEF AccountInv
<1>1. BusPlaces(q) = {} /\ Losses(q) = {}
  BY DEF Init, BusPlaces, Losses
<1>2. Holders(q) = {}
  BY DEF Init, Holders, About, IsQuestion, NoEvent
<1>3. Answerers(q) = {}
  BY DEF Init, Answerers
<1>4. IsFiniteSet(Losses(q)) /\ OnBus(q) = 0 /\ Waiting(q) = 0 /\ Answering(q) = 0
      /\ LostTo(q) = 0
  BY <1>1, <1>2, <1>3, PlaceCounts, FS_EmptySet
<1>5. replies[q] = 0 /\ q \notin asked
  BY DEF Init
<1> QED BY <1>4, <1>5 DEF Accounted, Count

\* The driver's question is never lost track of and never answered twice: whatever the
\* pump, the workers, resets, switches and reconnects do, it is in one place, answered or
\* refused once, or on record as dropped from a full inbox.
THEOREM QuestionsAccounted == Spec => []QuestionAccounted
<1>1. AccountInv => QuestionAccounted
  BY DEF AccountInv, Accounted, QuestionAccounted
<1> QED BY <1>1, AccountInit, AccountStep, FollowsInit, FollowsStep, TypesInit, TypesStep,
           PTL DEF Spec
===============================================================================
