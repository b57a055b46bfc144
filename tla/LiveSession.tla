------------------------------ MODULE LiveSession ------------------------------
(***************************************************************************)
(* The two feeds of a race: rtv.ingest.live's poller, which follows        *)
(* iRacing, and rtv.racestate.replay's driver, with the API calls that     *)
(* start and stop them.  What their frames and states do to the engine,    *)
(* the journal and the agent layer is SessionJournal's.                    *)
(*                                                                         *)
(* The poller reads iRacing's shared memory at several points of one pass  *)
(* of its loop, and iRacing moves on between them, so a pass is split      *)
(* there.  API calls run on threads of their own.                          *)
(***************************************************************************)
EXTENDS SessionJournal, FiniteSets

CONSTANTS
  SchemaOf,      \* per subsession (1..MaxSubsessions): its catalog's schema
  StoredSchema,  \* the schema of the recording a replay plays
  Disturbances,  \* which of {"blip", "overlap", "subsession", "car", "shutdown"} happen
  MaxSubsessions, MaxNum,
  MaxMoves       \* bound: things iRacing, the driver and the operator do

ASSUME LiveSessionAssumption ==
  /\ {MaxSubsessions, MaxNum, MaxMoves} \subseteq Nat
  /\ MaxSubsessions > 0
  /\ SchemaOf \in [1..MaxSubsessions -> Schemas]
  /\ StoredSchema \in Schemas

VARIABLES
  sim,      \* iRacing: is it in a session, which, and where on its clock
  poller,   \* LivePoller and the locals of its _run
  replay,   \* the replay driver's thread
  tape,     \* where the recording is
  starting, \* POST /replay/start has passed its guards
  store,    \* the store: live sessions opened, and those still "open"
  server,   \* AppServices.close: "up", "closing" once it has closed the segment, "down"
  race,
  moves

vars == <<sim, poller, replay, tape, starting, store, server, race, moves>>
-------------------------------------------------------------------------------
Subsessions == 1..MaxSubsessions
Times == {0, 1}
NoSub == 0
Stored == 1         \* the replayed session's id; live ids follow it
FirstLive == 2

Init ==
  /\ sim = [on |-> FALSE, sub |-> 1, num |-> 0, time |-> 0]
  /\ poller = [thread |-> "stopped", at |-> "check", stop |-> FALSE, leaving |-> FALSE,
               state |-> "disconnected", sid |-> NoId, catalog |-> NoSub, current |-> NoSub,
               tracker |-> FALSE]
  /\ replay = "idle" /\ starting = FALSE
  /\ tape = [num |-> 0, time |-> 0]
  /\ store = [ids |-> Stored, open |-> {}]
  /\ server = "up"
  /\ race = InitialRace
  /\ moves = 0
-------------------------------------------------------------------------------
(***************************************************************************)
(* iRacing.                                                                *)
(***************************************************************************)
Move == moves < MaxMoves /\ moves' = moves + 1

feedVars == <<poller, replay, tape, starting, store, server, race>>

\* The poller's view of iRacing does not pass through "disconnected".
Unseen == poller.thread = "running" /\ poller.state = "in_session"
MayFollow(sub) == "car" \in Disturbances \/ SchemaOf[sub] = SchemaOf[sim.sub]

Arrive(sub) ==
  /\ Move
  /\ ~sim.on
  /\ "blip" \in Disturbances \/ poller.at # "startup"
  /\ sub >= sim.sub
  /\ Unseen => MayFollow(sub)
  /\ sim' = IF sub = sim.sub THEN [sim EXCEPT !.on = TRUE]
            ELSE [on |-> TRUE, sub |-> sub, num |-> 0, time |-> 0]
  /\ UNCHANGED feedVars

Leave ==
  /\ Move
  /\ sim.on
  /\ sim' = [sim EXCEPT !.on = FALSE]
  /\ UNCHANGED feedVars

\* Practice, qualifying and race share one subsession; a session can be restarted.
NextSession ==
  /\ Move
  /\ sim.on /\ sim.num < MaxNum
  /\ sim' = [sim EXCEPT !.num = @ + 1, !.time = 0]
  /\ UNCHANGED feedVars

Restart ==
  /\ Move
  /\ sim.on /\ sim.time > 0
  /\ sim' = [sim EXCEPT !.time = 0]
  /\ UNCHANGED feedVars

ClockRuns ==
  /\ sim.on /\ sim.time = 0
  /\ sim' = [sim EXCEPT !.time = 1]
  /\ UNCHANGED <<feedVars, moves>>

\* The next subsession begins without iRacing going away in between.
NextSubsession ==
  /\ "subsession" \in Disturbances
  /\ Move
  /\ sim.on /\ sim.sub < MaxSubsessions
  /\ Unseen => MayFollow(sim.sub + 1)
  /\ sim' = [on |-> TRUE, sub |-> sim.sub + 1, num |-> 0, time |-> 0]
  /\ UNCHANGED feedVars
-------------------------------------------------------------------------------
(***************************************************************************)
(* The poller's loop.                                                      *)
(***************************************************************************)
PollerRuns == poller.thread = "running"
pollerOthers == <<sim, replay, tape, starting, server, moves>>

\* _set_state, for a poller p: on_state hears of a change of state only.
SetState(p, state, sid) ==
  /\ poller' = [p EXCEPT !.state = state]
  /\ race' = IF p.state = state THEN race
             ELSE IF state = "in_session" THEN OnInSession(race, sid)
             ELSE OnDisconnected(race)

CheckConnection ==
  /\ PollerRuns /\ poller.at = "check" /\ ~poller.stop
  /\ IF sim.on THEN poller' = [poller EXCEPT !.at = "open"] /\ UNCHANGED race
               ELSE SetState([poller EXCEPT !.at = "startup"], "disconnected", NoId)
  /\ UNCHANGED <<store, pollerOthers>>

\* After ir.startup(): still nothing there drops the catalog.
AfterStartup_KeepsCatalog(p) == [p EXCEPT !.at = IF sim.on THEN "open" ELSE "check"]
AfterStartup(p) ==
  IF sim.on THEN [p EXCEPT !.at = "open"] ELSE [p EXCEPT !.at = "check", !.catalog = NoSub]

Startup ==
  /\ PollerRuns /\ poller.at = "startup"
  /\ poller' = AfterStartup(poller)
  /\ UNCHANGED <<store, race, pollerOthers>>

\* A session is opened on (re)connect or subsession change; its id is a new one.
Opens_OnChange == sim.sub # poller.current
Opens == poller.catalog = NoSub \/ sim.sub # poller.current

Finalised_Forgotten == store.open
Finalised == store.open \ {poller.sid}

OpenOrKeep ==
  /\ PollerRuns /\ poller.at = "open"
  /\ IF Opens
       THEN LET sid == store.ids + 1
            IN /\ store' = [ids |-> sid, open |-> Finalised \cup {sid}]
               /\ SetState([poller EXCEPT !.at = "read", !.sid = sid, !.catalog = sim.sub,
                                          !.current = sim.sub, !.tracker = TRUE],
                           "in_session", sid)
       ELSE /\ poller' = [poller EXCEPT !.at = "read"]
            /\ UNCHANGED <<store, race>>
  /\ UNCHANGED pollerOthers

\* _read_tick and on_frame; a tick that cannot be read is skipped.
ReadTick ==
  /\ PollerRuns /\ poller.at = "read"
  /\ poller' = [poller EXCEPT !.at = "check"]
  /\ \/ \E eventful \in BOOLEAN :
          race' = OnFrame(race, SchemaOf[poller.catalog], sim.num, sim.time, eventful)
     \/ ~sim.on /\ UNCHANGED race
  /\ UNCHANGED <<store, pollerOthers>>

\* The stop flag ends the loop: what is left is flushed and the session finalised.
Finish ==
  /\ PollerRuns /\ poller.at = "check" /\ poller.stop
  /\ poller' = [poller EXCEPT !.thread = "stopped"]
  /\ store' = IF poller.sid # NoId /\ poller.tracker THEN [store EXCEPT !.open = Finalised] ELSE store
  /\ UNCHANGED <<race, pollerOthers>>

PollerSteps == CheckConnection \/ Startup \/ OpenOrKeep \/ ReadTick \/ Finish
-------------------------------------------------------------------------------
(***************************************************************************)
(* POST /live/start and /live/stop.  stop() joins the thread and then sets *)
(* the state itself, without the lock.                                     *)
(***************************************************************************)
Overlap == "overlap" \in Disturbances

LiveStart ==
  /\ Move /\ server = "up"
  /\ ~PollerRuns /\ replay = "idle"
  /\ Overlap \/ ~(poller.leaving \/ starting)
  /\ poller' = [poller EXCEPT !.thread = "running", !.at = "check", !.stop = FALSE,
                              !.catalog = NoSub, !.current = NoSub, !.tracker = FALSE]
  /\ UNCHANGED <<sim, replay, tape, starting, store, server, race>>

StopRequested ==
  /\ PollerRuns /\ ~poller.leaving
  /\ poller' = [poller EXCEPT !.stop = TRUE, !.leaving = TRUE]

LiveStop ==
  /\ Move /\ server = "up"
  /\ StopRequested
  /\ UNCHANGED <<sim, replay, tape, starting, store, server, race>>

LiveStopped ==
  /\ ~PollerRuns /\ poller.leaving
  /\ SetState([poller EXCEPT !.leaving = FALSE], "disconnected", NoId)
  /\ UNCHANGED <<store, pollerOthers>>
-------------------------------------------------------------------------------
(***************************************************************************)
(* The replay driver.                                                      *)
(***************************************************************************)
replayOthers == <<sim, poller, store, server>>

\* The guards of POST /replay/start; the recording is then looked up in the store.
ReplayAsked ==
  /\ Move /\ server = "up"
  /\ replay = "idle" /\ ~PollerRuns /\ ~starting
  /\ Overlap \/ ~poller.leaving
  /\ starting' = TRUE
  /\ UNCHANGED <<replay, tape, race, replayOthers>>

ReplayStart ==
  /\ starting /\ replay = "idle"
  /\ starting' = FALSE
  /\ replay' = "starting"
  /\ tape' = [num |-> 0, time |-> 0]
  /\ race' = [EngineReset(race) EXCEPT !.suspended = FALSE]
  /\ UNCHANGED <<moves, replayOthers>>

ReplayBegins ==
  /\ replay = "starting"
  /\ replay' = "binding"
  /\ race' = OnReplayBegins(race, Stored)
  /\ UNCHANGED <<starting, tape, moves, replayOthers>>

ReplayBinds ==
  /\ replay = "binding"
  /\ replay' = "running"
  /\ race' = BindCatalog(race, StoredSchema, Stored)
  /\ UNCHANGED <<starting, tape, moves, replayOthers>>

ReplayFrame(num, time) ==
  /\ replay = "running"
  /\ num = tape.num => time >= tape.time
  /\ num >= tape.num
  /\ tape' = [num |-> num, time |-> time]
  /\ \E eventful \in BOOLEAN : race' = OnFrame(race, StoredSchema, num, time, eventful)
  /\ UNCHANGED <<starting, replay, moves, replayOthers>>

\* The recording is over, or was stopped.
ReplayEnds ==
  /\ replay = "running"
  /\ replay' = "idle"
  /\ race' = OnReplayEnds(race)
  /\ UNCHANGED <<starting, tape, moves, replayOthers>>
-------------------------------------------------------------------------------
(***************************************************************************)
(* AppServices.close: the replay, the segment and its run, the hooks (it   *)
(* waits for them), and only then the poller.                              *)
(***************************************************************************)
CloseSegments ==
  /\ "shutdown" \in Disturbances
  /\ server = "up" /\ replay = "idle" /\ ~starting /\ ~poller.leaving
  /\ server' = "closing"
  /\ race' = LET over == EndSegment(race) IN Close(over, over.at)
  /\ UNCHANGED <<sim, poller, replay, tape, starting, store, moves>>

ClosePoller ==
  /\ server = "closing"
  /\ server' = "down"
  /\ IF PollerRuns THEN StopRequested ELSE UNCHANGED poller
  /\ UNCHANGED <<sim, replay, tape, starting, store, race, moves>>
-------------------------------------------------------------------------------
Sim ==
  \/ \E sub \in Subsessions : Arrive(sub)
  \/ Leave \/ NextSession \/ Restart \/ ClockRuns \/ NextSubsession

Replay ==
  \/ ReplayStart \/ ReplayBegins \/ ReplayBinds \/ ReplayEnds
  \/ \E num \in 0..MaxNum, time \in Times : ReplayFrame(num, time)

Next ==
  \/ Sim
  \/ PollerSteps
  \/ LiveStart \/ LiveStop \/ LiveStopped
  \/ ReplayAsked \/ Replay
  \/ CloseSegments \/ ClosePoller

Spec == Init /\ [][Next]_vars
-------------------------------------------------------------------------------
(***************************************************************************)
(* Safety.                                                                 *)
(***************************************************************************)
Ids == 0..(FirstLive + 2 * MaxMoves)

\* Every variable has its type, and the poller's locals fit the point it is at.
TypeOK ==
  /\ sim \in [on : BOOLEAN, sub : Subsessions, num : 0..MaxNum, time : Times]
  /\ poller \in [thread : {"stopped", "running"}, at : {"check", "startup", "open", "read"},
                 stop : BOOLEAN, leaving : BOOLEAN, state : {"disconnected", "in_session"},
                 sid : Ids, catalog : Subsessions \cup {NoSub},
                 current : Subsessions \cup {NoSub}, tracker : BOOLEAN]
  /\ PollerRuns /\ poller.at = "read" => poller.catalog # NoSub /\ poller.tracker
  /\ replay \in {"idle", "starting", "binding", "running"} /\ starting \in BOOLEAN
  /\ tape \in [num : 0..MaxNum, time : Times]
  /\ store \in [ids : Ids, open : SUBSET Ids]
  /\ server \in {"up", "closing", "down"}
  /\ race \in Races
  /\ moves \in 0..MaxMoves

\* A journal run holds the events of one session segment: the one it is named for.
OneSegmentPerRun ==
  \A run \in {race.run, race.filed.run} \ {NoRun} :
    run.written \subseteq {run.segment} \ {NoSegment}

\* While a feed is on, its open segment is being journaled: in the open run, from its
\* session_start, under the session the engine is named.
FeedIsJournaled ==
  race.open /\ (replay = "running" \/ (PollerRuns /\ poller.state = "in_session")) =>
    /\ race.run # NoRun
    /\ race.run.segment = race.at
    /\ race.at \in race.run.written
    /\ race.run.sid = race.sid
    /\ race.run.source = IF replay = "running" THEN "replay" ELSE "live"

\* The state a run ends with is its own segment's, not the next one's.
FinalStateIsItsOwn ==
  LET run == race.filed.run
  IN run # NoRun => run.segment \in {NoSegment, race.filed.final}

\* Every closed run fires the session-end hooks, once.
EveryClosedRunFires == race.fired = race.closed

\* The store has at most the poller's session open, and none once the poller stopped.
SessionsFinalised ==
  /\ store.open \subseteq {poller.sid}
  /\ ~PollerRuns => store.open = {}

\* The open segment of a feed that is gone is marked stale.
FrozenIsStale ==
  race.open /\ poller.state = "disconnected" /\ replay = "idle" => race.stale
-------------------------------------------------------------------------------
(***************************************************************************)
(* Liveness: the poller's thread runs, and the driver's.                   *)
(***************************************************************************)
FairSpec ==
  /\ Spec
  /\ WF_vars(PollerSteps) /\ WF_vars(LiveStopped) /\ WF_vars(Replay)

\* A poller left running on an iRacing that stays is in its session for good, with a
\* run open and the agents awake: whatever disconnects and replays came before.
FeedComesBack ==
  <>[](sim.on /\ PollerRuns /\ ~poller.stop) =>
    <>[](/\ poller.state = "in_session" /\ race.open
         /\ race.run # NoRun
         /\ ~race.stale /\ ~race.suspended)
-------------------------------------------------------------------------------
(***************************************************************************)
(* What the code's own words promise and its behaviour does not keep (the  *)
(* README quotes each).                                                    *)
(***************************************************************************)
Enters == poller.state # "in_session" /\ poller'.state = "in_session"

\* A reconnect to the subsession the poller was in goes on with its segment.
ReconnectKeepsSegment ==
  [][Enters /\ poller.current = sim.sub /\ race.open => race'.open]_vars

\* A new session id ends the open segment.
NewSessionEndsSegment == [][poller'.sid # poller.sid => ~race'.open]_vars

\* The agents stand down only while the state is stale: they resume when frames return.
AgentsResumeWithFrames == race.suspended => race.stale

\* The hooks are closed for good: close() waited for all there will be.
NoHookAfterClose == [][server # "up" => race'.fired = race.fired]_vars
===============================================================================
