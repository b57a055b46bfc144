-------------------------- MODULE LiveSession_proofs --------------------------
(***************************************************************************)
(* Facts about the journal that hold for every recording, catalog and      *)
(* number of subsessions, and under every disturbance: connections lost    *)
(* and back at any point, both feeds at once, subsession changes and the   *)
(* shutdown.  Then what holds with one feed at a time (see below).         *)
(***************************************************************************)
EXTENDS LiveSession, TLAPS

Sources == {"live", "replay"}

\* A run's events are of the segment it is named for, and it has none while it is
\* named for no segment.
Whole(run) == run # NoRun => run.written \subseteq {run.segment} \ {NoSegment}

\* The strengthening: the open run, when a segment is open, is that segment's.
Sound(r) ==
  /\ r \in Races
  /\ r.open => r.at # NoSegment
  /\ r.open /\ r.run # NoRun => r.run.segment = r.at
  /\ Whole(r.run)
  /\ Whole(r.filed.run)

\* Between the lifecycle's move to the next segment and the session_start that names
\* the run: everything but the tie between run and segment.
Between(r) ==
  /\ r \in Races
  /\ r.open => r.at # NoSegment
  /\ Whole(r.run)
  /\ Whole(r.filed.run)

LEMMA NoRunIsNone == NoRun \notin Runs
BY DEF NoRun, Runs

LEMMA SoundIsBetween == ASSUME NEW r, Sound(r) PROVE Between(r)
BY DEF Sound, Between

LEMMA RecorderEndFields ==
  ASSUME NEW r, Between(r), NEW final \in Nat
  PROVE  LET e == RecorderEnd(r, final)
         IN /\ Between(e)
            /\ e.run = NoRun
            /\ e.open = r.open /\ e.at = r.at /\ e.begun = r.begun
            /\ e.sid = r.sid /\ e.last = r.last
<1>1. CASE r.run = NoRun
  BY <1>1 DEF RecorderEnd
<1>2. CASE r.run # NoRun
  <2> DEFINE filed == [run |-> r.run, final |-> final]
             n == r.closed + 1
             e == [r EXCEPT !.run = NoRun, !.closed = n, !.filed = filed]
  <2>1. RecorderEnd(r, final) = e
    BY <1>2 DEF RecorderEnd
  <2>0. n \in Nat /\ filed \in [run : Runs \cup {NoRun}, final : Nat] /\ filed.run = r.run
    BY DEF Between, Races
  <2> HIDE DEF n, filed
  <2>2. e \in Races /\ e.run = NoRun /\ e.filed.run = r.run
    BY <2>0 DEF Between, Races
  <2>3. /\ e.open = r.open /\ e.at = r.at /\ e.begun = r.begun
        /\ e.sid = r.sid /\ e.last = r.last
    BY DEF Between, Races
  <2>4. Between(e)
    BY <2>2, <2>3 DEF Between, Whole
  <2> QED BY <2>1, <2>2, <2>3, <2>4
<1> QED BY <1>1, <1>2

LEMMA CloseFields ==
  ASSUME NEW r, Between(r), NEW final \in Nat
  PROVE  LET c == Close(r, final)
         IN /\ Between(c)
            /\ c.run = NoRun
            /\ c.open = r.open /\ c.at = r.at /\ c.begun = r.begun /\ c.sid = r.sid
<1>1. CASE r.run = NoRun
  BY <1>1 DEF Close
<1>2. CASE r.run # NoRun
  <2> DEFINE e == RecorderEnd(r, final)
  <2>1. /\ Between(e) /\ e.run = NoRun
        /\ e.open = r.open /\ e.at = r.at /\ e.begun = r.begun /\ e.sid = r.sid
    BY RecorderEndFields
  <2>2. r.run \in Runs
    BY <1>2 DEF Between, Races
  <2> DEFINE n == e.fired + 1
             c == [e EXCEPT !.fired = n, !.last = r.run]
  <2>3. Close(r, final) = c
    BY <1>2 DEF Close
  <2>4. n \in Nat
    BY <2>1 DEF Between, Races
  <2> HIDE DEF e, n
  <2>5. c \in Races
    BY <2>1, <2>2, <2>4 DEF Between, Races
  <2>6. /\ c.run = e.run /\ c.filed = e.filed
        /\ c.open = e.open /\ c.at = e.at /\ c.begun = e.begun /\ c.sid = e.sid
    BY <2>1 DEF Between, Races
  <2> HIDE DEF c
  <2> QED BY <2>1, <2>3, <2>5, <2>6 DEF Between
<1> QED BY <1>1, <1>2

LEMMA BeginFields ==
  ASSUME NEW r, Between(r), NEW sid \in Nat, NEW source \in Sources,
         NEW segment \in Nat
  PROVE  LET b == Begin(r, sid, source, segment)
         IN /\ Between(b)
            /\ b.run = NewRun(sid, source, segment)
            /\ b.open = r.open /\ b.at = r.at /\ b.begun = r.begun
<1> DEFINE e == RecorderEnd(r, r.at)
<1>1. r.at \in Nat
  BY DEF Between, Races
<1>2. Between(e) /\ e.open = r.open /\ e.at = r.at /\ e.begun = r.begun
  BY <1>1, RecorderEndFields
<1>3. NewRun(sid, source, segment) \in Runs /\ Whole(NewRun(sid, source, segment))
  BY DEF NewRun, Runs, Sources, Whole
<1> QED BY <1>2, <1>3 DEF Begin, Between, Races

LEMMA RecordSound ==
  ASSUME NEW r, Between(r), NEW segment \in Nat \ {NoSegment},
         r.run # NoRun => r.run.segment = segment
  PROVE  LET w == Record(r, segment)
         IN /\ Between(w)
            /\ w.open = r.open /\ w.at = r.at /\ w.begun = r.begun /\ w.sid = r.sid
            /\ w.run = NoRun <=> r.run = NoRun
            /\ w.run # NoRun => w.run.segment = segment
<1>1. CASE r.run = NoRun
  BY <1>1 DEF Record
<1>2. CASE r.run # NoRun
  <2>1. r.run \in Runs
    BY <1>2 DEF Between, Races
  <2> DEFINE written == [r.run EXCEPT !.written = @ \cup {segment}]
  <2>2. written \in Runs /\ written.segment = segment /\ Whole(written) /\ written # NoRun
    BY <1>2, <2>1, NoRunIsNone DEF Runs, Between, Whole
  <2>3. Record(r, segment) = [r EXCEPT !.run = written]
    BY <1>2 DEF Record, Between, Races
  <2> QED BY <1>2, <2>2, <2>3 DEF Between, Races
<1> QED BY <1>1, <1>2

LEMMA OnStartFields ==
  ASSUME NEW r, Between(r), NEW segment \in Nat \ {NoSegment}
  PROVE  LET o == OnStart(r, segment)
         IN /\ Between(o)
            /\ o.open = r.open /\ o.at = r.at /\ o.begun = r.begun
            /\ o.run # NoRun => o.run.segment = segment
<1> DEFINE fresh == [r EXCEPT !.suspended = FALSE]
           last == IF r.run # NoRun THEN r.run ELSE r.last
           sid == IF r.sid # NoId \/ last = NoRun THEN r.sid ELSE last.sid
           shut == Close(fresh, fresh.at)
<1>1. /\ Between(fresh) /\ fresh.at \in Nat
      /\ fresh.open = r.open /\ fresh.at = r.at /\ fresh.begun = r.begun
      /\ fresh.run = r.run
  BY DEF Between, Races
<1>2. /\ Between(shut) /\ shut.run = NoRun
      /\ shut.open = r.open /\ shut.at = r.at /\ shut.begun = r.begun
  BY <1>1, CloseFields
<1>3. CASE Annotates(r)
  <2> DEFINE named == [r.run EXCEPT !.segment = segment]
             o == [fresh EXCEPT !.run = named]
  <2>1. r.run \in Runs /\ r.run.segment = NoSegment /\ r.run.written = {}
    BY <1>3 DEF Annotates, Between, Races, Whole
  <2>2. named \in Runs /\ named.segment = segment /\ Whole(named)
    BY <2>1 DEF Runs, Whole
  <2>3. OnStart(r, segment) = o
    BY <1>1, <1>3 DEF OnStart
  <2> HIDE DEF fresh, named
  <2>4. /\ o \in Races /\ o.run = named /\ o.filed = fresh.filed
        /\ o.open = fresh.open /\ o.at = fresh.at /\ o.begun = fresh.begun
    BY <1>1, <2>2 DEF Between, Races
  <2> HIDE DEF o
  <2> QED BY <1>1, <2>2, <2>3, <2>4 DEF Between
<1>4. CASE ~Annotates(r) /\ (last = NoRun \/ sid = NoId)
  <2>1. OnStart(r, segment) = shut
    BY <1>4 DEF OnStart
  <2> QED BY <1>2, <2>1
<1>5. CASE ~Annotates(r) /\ last # NoRun /\ sid # NoId
  <2>1. last \in Runs
    BY <1>5 DEF Between, Races
  <2>2. sid \in Nat /\ last.source \in {"live", "replay"}
    BY <2>1 DEF Between, Races, Runs
  <2>3. OnStart(r, segment) = Begin(shut, sid, last.source, segment)
    BY <1>5 DEF OnStart
  <2> DEFINE source == last.source
             b == Begin(shut, sid, source, segment)
  <2>6. source \in Sources /\ segment \in Nat
    BY <2>2 DEF Sources
  <2> HIDE DEF sid, source, last, shut
  <2>4. /\ Between(b) /\ b.run = NewRun(sid, source, segment)
        /\ b.open = shut.open /\ b.at = shut.at /\ b.begun = shut.begun
    BY <1>2, <2>2, <2>6, BeginFields
  <2>5. b.run.segment = segment
    BY <2>4 DEF NewRun
  <2> HIDE DEF b
  <2> QED BY <1>2, <2>3, <2>4, <2>5 DEF b, source
<1> QED BY <1>3, <1>4, <1>5

LEMMA OnSessionStartSound ==
  ASSUME NEW r, Between(r), r.at \in Nat \ {NoSegment}
  PROVE  LET o == OnSessionStart(r, r.at)
         IN Sound(o) /\ o.at = r.at /\ (o.run # NoRun => o.run.segment = r.at)
<1> DEFINE o == OnStart(r, r.at)
<1>1. Between(o) /\ o.at = r.at /\ (o.run # NoRun => o.run.segment = r.at)
  BY OnStartFields
<1> HIDE DEF o
<1>2. LET w == Record(o, r.at)
      IN Between(w) /\ w.at = r.at /\ (w.run # NoRun => w.run.segment = r.at)
  BY <1>1, RecordSound
<1>3. OnSessionStart(r, r.at) = Record(o, r.at)
  BY DEF OnSessionStart, o
<1> QED BY <1>2, <1>3 DEF Sound, Between

LEMMA OnSessionEndFields ==
  ASSUME NEW r, Between(r), NEW segment \in Nat \ {NoSegment},
         r.run # NoRun => r.run.segment = segment
  PROVE  LET o == OnSessionEnd(r, segment)
         IN /\ Between(o) /\ o.run = NoRun
            /\ o.open = r.open /\ o.at = r.at /\ o.begun = r.begun /\ o.sid = r.sid
<1> DEFINE w == Record(r, segment)
<1>1. /\ Between(w)
      /\ w.open = r.open /\ w.at = r.at /\ w.begun = r.begun /\ w.sid = r.sid
  BY RecordSound
<1> HIDE DEF w
<1>2. OnSessionEnd(r, segment) = Close(w, segment)
  BY DEF OnSessionEnd, w
<1> QED BY <1>1, <1>2, CloseFields

LEMMA CloseSound == ASSUME NEW r, Sound(r), NEW final \in Nat PROVE Sound(Close(r, final))
BY SoundIsBetween, CloseFields DEF Sound, Between

LEMMA EndSegmentSound ==
  ASSUME NEW r, Sound(r)
  PROVE  Sound(EndSegment(r)) /\ EndSegment(r).sid = r.sid
<1>1. CASE ~r.open
  BY <1>1 DEF EndSegment
<1>2. CASE r.open
  <2> DEFINE over == [r EXCEPT !.open = FALSE]
  <2>1. /\ Between(over) /\ over.run = r.run /\ over.sid = r.sid /\ over.open = FALSE
        /\ r.at \in Nat \ {NoSegment}
        /\ r.run # NoRun => r.run.segment = r.at
    BY <1>2 DEF Sound, Between, Races
  <2> HIDE DEF over
  <2>2. EndSegment(r) = OnSessionEnd(over, r.at)
    BY <1>2 DEF EndSegment, over
  <2> QED BY <2>1, <2>2, OnSessionEndFields DEF Sound, Between
<1> QED BY <1>1, <1>2 DEF Sound, Races

LEMMA SetSessionIdSound ==
  ASSUME NEW r, Sound(r), NEW sid \in Nat
  PROVE  Sound(SetSessionId(r, sid))
<1> DEFINE e == IF r.sid # NoId /\ r.sid # sid THEN EndSegment(r) ELSE r
           n == [e EXCEPT !.sid = sid]
<1>1. Sound(e)
  BY EndSegmentSound
<1>2. SetSessionId(r, sid) = n
  BY DEF SetSessionId
<1> HIDE DEF e
<1> QED BY <1>1, <1>2 DEF Sound, Races

LEMMA EngineResetSound == ASSUME NEW r, Sound(r) PROVE Sound(EngineReset(r))
BY DEF EngineReset, Sound, Races, NoId, NoSegment

LEMMA BindCatalogSound ==
  ASSUME NEW r, Sound(r), NEW schema \in Schemas, NEW sid \in Nat
  PROVE  Sound(BindCatalog(r, schema, sid))
<1> DEFINE e == EngineReset(r)
<1>1. Sound(e)
  BY EngineResetSound
<1> HIDE DEF e
<1>2. Sound([e EXCEPT !.schema = schema, !.sid = sid])
  BY <1>1 DEF Sound, Races
<1> QED BY <1>2 DEF BindCatalog, e

LEMMA OnFrameSound ==
  ASSUME NEW r, Sound(r), NEW schema \in Schemas, NEW num \in Nat, NEW time \in Nat,
         NEW eventful \in BOOLEAN
  PROVE  Sound(OnFrame(r, schema, num, time, eventful))
<1> DEFINE bound == IF schema = r.schema THEN r ELSE BindCatalog(r, schema, r.sid)
           begins == Boundary(bound, num, time) # "none"
           begun == IF begins THEN bound.begun + 1 ELSE bound.begun
           at == IF begins THEN begun ELSE bound.at
           updated == [bound EXCEPT !.stale = FALSE, !.open = TRUE, !.num = num, !.time = time,
                                    !.begun = begun, !.at = at]
           published == IF begins THEN PublishBoundary(updated, OpenSegment(bound), at) ELSE updated
<1>1. Sound(bound)
  <2>1. r.sid \in Nat
    BY DEF Sound, Races
  <2> QED BY <2>1, BindCatalogSound
<1>2. OnFrame(r, schema, num, time, eventful)
        = IF eventful THEN Record(published, at) ELSE published
  BY DEF OnFrame
<1> HIDE DEF bound
<1>3. begins \in BOOLEAN /\ (~begins => bound.open)
  BY DEF Boundary
<1> HIDE DEF begins
<1>4. begun \in Nat /\ at \in Nat \ {NoSegment}
  <2>1. bound.begun \in Nat /\ bound.at \in Nat /\ (bound.open => bound.at # NoSegment)
    BY <1>1 DEF Sound, Races
  <2> QED BY <1>3, <2>1 DEF NoSegment
<1>5. ~begins => at = bound.at
  OBVIOUS
<1> HIDE DEF begun, at
<1>6. /\ updated \in Races /\ updated.open = TRUE /\ updated.at = at
      /\ updated.run = bound.run /\ updated.filed = bound.filed
  BY <1>1, <1>4 DEF Sound, Races
<1> HIDE DEF updated
<1>7. Between(updated)
  BY <1>1, <1>4, <1>6 DEF Between, Sound
<1>8. /\ Sound(published) /\ published.at = at
      /\ published.run # NoRun => published.run.segment = at
  <2>1. CASE ~begins
    BY <1>1, <1>3, <1>5, <1>6, <1>7, <2>1 DEF Sound, Between
  <2>2. CASE begins
    <3> DEFINE old == OpenSegment(bound)
               shut == IF old = NoSegment THEN updated ELSE OnSessionEnd(updated, old)
    <3>1. old \in Nat /\ (old # NoSegment => bound.open /\ old = bound.at)
      BY <1>1 DEF OpenSegment, Sound, Races, NoSegment
    <3>2. old # NoSegment /\ updated.run # NoRun => updated.run.segment = old
      BY <1>1, <1>6, <3>1 DEF Sound
    <3> HIDE DEF old
    <3>3. Between(shut) /\ shut.at = at
      BY <1>6, <1>7, <3>1, <3>2, OnSessionEndFields
    <3>4. published = OnSessionStart(shut, shut.at)
      BY <2>2, <3>3 DEF PublishBoundary, old
    <3> HIDE DEF shut, published
    <3> QED BY <1>4, <3>3, <3>4, OnSessionStartSound
  <2> QED BY <1>3, <2>1, <2>2
<1> HIDE DEF published
<1> DEFINE w == Record(published, at)
<1>9. Between(w) /\ w.at = at /\ (w.run # NoRun => w.run.segment = at)
  BY <1>4, <1>8, SoundIsBetween, RecordSound
<1>10. Sound(w)
  <2> HIDE DEF w
  <2> QED BY <1>9 DEF Sound, Between
<1> QED BY <1>2, <1>8, <1>10

LEMMA OnInSessionSound ==
  ASSUME NEW r, Sound(r), NEW sid \in Nat
  PROVE  Sound(OnInSession(r, sid))
<1> DEFINE named == SetSessionId(r, sid)
           mine == IF named.run # NoRun /\ named.run.sid # sid
                   THEN Close(named, named.at) ELSE named
           journaled == IF mine.run = NoRun
                        THEN Begin(mine, sid, "live", OpenSegment(mine)) ELSE mine
<1>1. Sound(named) /\ named.at \in Nat
  BY SetSessionIdSound DEF Sound, Races
<1>2. OnInSession(r, sid) = [journaled EXCEPT !.stale = FALSE, !.suspended = FALSE]
  BY DEF OnInSession
<1> HIDE DEF named
<1>3. Sound(mine)
  BY <1>1, CloseSound
<1> HIDE DEF mine
<1>4. Sound(journaled)
  <2>1. CASE mine.run # NoRun
    BY <1>3, <2>1
  <2>2. CASE mine.run = NoRun
    <3> DEFINE segment == OpenSegment(mine)
               b == Begin(mine, sid, "live", segment)
    <3>1. segment \in Nat /\ (mine.open => segment = mine.at)
      BY <1>3 DEF OpenSegment, Sound, Races, NoSegment
    <3>2. "live" \in Sources
      BY DEF Sources
    <3> HIDE DEF segment
    <3>3. /\ Between(b) /\ b.run = NewRun(sid, "live", segment)
          /\ b.open = mine.open /\ b.at = mine.at
      BY <1>3, <3>1, <3>2, SoundIsBetween, BeginFields
    <3>4. journaled = b
      BY <2>2 DEF segment
    <3> HIDE DEF b, journaled
    <3> QED BY <3>1, <3>3, <3>4 DEF NewRun, Sound, Between
  <2> QED BY <2>1, <2>2
<1> HIDE DEF journaled
<1>5. Sound([journaled EXCEPT !.stale = FALSE, !.suspended = FALSE])
  BY <1>4 DEF Sound, Races
<1> QED BY <1>2, <1>5

LEMMA OnDisconnectedSound == ASSUME NEW r, Sound(r) PROVE Sound(OnDisconnected(r))
<1> DEFINE shut == IF r.run # NoRun /\ r.run.source = "live" THEN Close(r, r.at) ELSE r
<1>1. Sound(shut)
  <2>1. r.at \in Nat
    BY DEF Sound, Races
  <2> QED BY <2>1, CloseSound
<1>2. OnDisconnected(r) = [shut EXCEPT !.stale = TRUE, !.suspended = TRUE]
  BY DEF OnDisconnected
<1> HIDE DEF shut
<1>3. Sound([shut EXCEPT !.stale = TRUE, !.suspended = TRUE])
  BY <1>1 DEF Sound, Races
<1> QED BY <1>2, <1>3

LEMMA OnReplayBeginsSound ==
  ASSUME NEW r, Sound(r), NEW sid \in Nat
  PROVE  Sound(OnReplayBegins(r, sid))
<1> DEFINE segment == OpenSegment(r)
           b == Begin(r, sid, "replay", segment)
<1>1. segment \in Nat /\ (r.open => segment = r.at) /\ "replay" \in Sources
  BY DEF OpenSegment, Sound, Races, NoSegment, Sources
<1>2. OnReplayBegins(r, sid) = b
  BY DEF OnReplayBegins
<1> HIDE DEF segment
<1>3. /\ Between(b) /\ b.run = NewRun(sid, "replay", segment)
      /\ b.open = r.open /\ b.at = r.at
  BY <1>1, SoundIsBetween, BeginFields
<1> HIDE DEF b
<1>4. Sound(b)
  BY <1>1, <1>3 DEF NewRun, Sound, Between
<1> QED BY <1>2, <1>4

\* OnReplayEnds, and the first half of the shutdown.
LEMMA SegmentOverSound ==
  ASSUME NEW r, Sound(r)
  PROVE  LET over == EndSegment(r) IN Sound(Close(over, over.at))
<1> DEFINE over == EndSegment(r)
<1>1. Sound(over) /\ over.at \in Nat
  BY EndSegmentSound DEF Sound, Races
<1> HIDE DEF over
<1>2. Sound(Close(over, over.at))
  BY <1>1, CloseSound
<1> QED BY <1>2 DEF over
-------------------------------------------------------------------------------
(***************************************************************************)
(* The inductive invariants.  Both feeds' steps hand the race from one     *)
(* Sound race to the next; what they hand it (a session id, a schema, a    *)
(* time) needs the types of iRacing, the poller and the store.             *)
(***************************************************************************)
Typed ==
  /\ sim \in [on : BOOLEAN, sub : Subsessions, num : Nat, time : Times]
  /\ poller \in [thread : {"stopped", "running"}, at : {"check", "startup", "open", "read"},
                 stop : BOOLEAN, leaving : BOOLEAN, state : {"disconnected", "in_session"},
                 sid : Nat, catalog : Subsessions \cup {NoSub},
                 current : Subsessions \cup {NoSub}, tracker : BOOLEAN]
  /\ poller.at = "read" => poller.catalog # NoSub
  /\ store \in [ids : Nat, open : SUBSET Nat]

\* A session left open is the one the running poller will finalise.
Kept ==
  /\ store.open \subseteq {poller.sid}
  /\ store.open # {} => PollerRuns /\ poller.tracker /\ poller.sid # NoId

LEMMA InitTyped == Init => Typed /\ Kept /\ Sound(race)
<1> SUFFICES ASSUME Init PROVE Typed /\ Kept /\ Sound(race)
  OBVIOUS
<1>1. 1 \in Subsessions
  BY LiveSessionAssumption DEF Subsessions
<1>2. Typed
  BY <1>1 DEF Init, Typed, Times, NoId, NoSub, Stored
<1>3. Kept
  BY DEF Init, Kept
<1>4. Sound(race)
  BY DEF Init, InitialRace, Sound, Whole, Races, NoId, NoSegment
<1> QED BY <1>2, <1>3, <1>4

\* on_state, for a poller that changes state or does not.
LEMMA SetStateSound ==
  ASSUME NEW p, NEW state, NEW sid \in Nat, Sound(race), SetState(p, state, sid)
  PROVE  Sound(race') /\ poller' = [p EXCEPT !.state = state]
BY OnInSessionSound, OnDisconnectedSound DEF SetState

LEMMA NextTyped == Typed /\ Kept /\ Sound(race) /\ [Next]_vars => Typed' /\ Kept' /\ Sound(race)'
<1> SUFFICES ASSUME Typed, Kept, Sound(race), [Next]_vars
             PROVE  Typed' /\ Kept' /\ Sound(race)'
  OBVIOUS
<1> USE LiveSessionAssumption
<1>0. /\ \A sub \in Subsessions : SchemaOf[sub] \in Schemas
      /\ Subsessions \subseteq Nat \ {NoSub}
  BY DEF Subsessions, NoSub
<1>1. ASSUME NEW sub \in Subsessions, Arrive(sub) PROVE Typed' /\ Kept' /\ Sound(race)'
  BY <1>1 DEF Arrive, feedVars, Typed, Kept, PollerRuns, Times
<1>2. CASE Leave \/ NextSession \/ Restart \/ ClockRuns \/ NextSubsession
  <2>1. sim' \in [on : BOOLEAN, sub : Subsessions, num : Nat, time : Times]
    <3>1. CASE Leave
      BY <3>1 DEF Leave, Typed
    <3>2. CASE NextSession
      <4> DEFINE n == sim.num + 1
      <4>1. n \in Nat /\ sim' = [sim EXCEPT !.num = n, !.time = 0]
        BY <3>2 DEF NextSession, Typed
      <4> HIDE DEF n
      <4> QED BY <4>1 DEF Typed, Times
    <3>3. CASE Restart \/ ClockRuns
      BY <3>3 DEF Restart, ClockRuns, Typed, Times
    <3>4. CASE NextSubsession
      <4> DEFINE n == sim.sub + 1
      <4>1. n \in Subsessions /\ sim' = [on |-> TRUE, sub |-> n, num |-> 0, time |-> 0]
        BY <3>4 DEF NextSubsession, Typed, Subsessions
      <4> HIDE DEF n
      <4> QED BY <4>1 DEF Times
    <3> QED BY <1>2, <3>1, <3>2, <3>3, <3>4
  <2>2. UNCHANGED feedVars
    BY <1>2 DEF Leave, NextSession, Restart, ClockRuns, NextSubsession
  <2> QED BY <2>1, <2>2 DEF feedVars, Typed, Kept, PollerRuns
<1>3. CASE CheckConnection
  <2> DEFINE p == [poller EXCEPT !.at = "startup"]
  <2>1. CASE sim.on
    BY <1>3, <2>1 DEF CheckConnection, pollerOthers, Typed, Kept, PollerRuns
  <2>2. CASE ~sim.on
    <3>1. SetState(p, "disconnected", NoId) /\ UNCHANGED <<sim, store>> /\ PollerRuns
      BY <1>3, <2>2 DEF CheckConnection, pollerOthers
    <3>2. NoId \in Nat
      BY DEF NoId
    <3> HIDE DEF p
    <3>3. Sound(race') /\ poller' = [p EXCEPT !.state = "disconnected"]
      BY <3>1, <3>2, SetStateSound
    <3> USE DEF p
    <3> QED BY <3>1, <3>3 DEF Typed, Kept, PollerRuns
  <2> QED BY <2>1, <2>2
<1>4. CASE Startup
  BY <1>4 DEF Startup, AfterStartup, pollerOthers, Typed, Kept, PollerRuns
<1>5. CASE OpenOrKeep
  <2> DEFINE sid == store.ids + 1
             p == [poller EXCEPT !.at = "read", !.sid = sid, !.catalog = sim.sub,
                                 !.current = sim.sub, !.tracker = TRUE]
  <2>1. CASE Opens
    <3>1. /\ SetState(p, "in_session", sid) /\ PollerRuns /\ sim' = sim
          /\ store' = [ids |-> sid, open |-> Finalised \cup {sid}]
      BY <1>5, <2>1 DEF OpenOrKeep, pollerOthers
    <3>2. sid \in Nat /\ sid # NoId /\ Finalised = {}
      BY DEF Typed, Kept, Finalised, NoId
    <3>3. /\ p \in [thread : {"stopped", "running"},
                    at : {"check", "startup", "open", "read"},
                    stop : BOOLEAN, leaving : BOOLEAN, state : {"disconnected", "in_session"},
                    sid : Nat, catalog : Subsessions \cup {NoSub},
                    current : Subsessions \cup {NoSub}, tracker : BOOLEAN]
          /\ p.thread = "running" /\ p.catalog # NoSub /\ p.sid = sid /\ p.tracker
      BY <1>0, <3>1, <3>2 DEF Typed, PollerRuns
    <3> HIDE DEF p, sid
    <3>4. Sound(race') /\ poller' = [p EXCEPT !.state = "in_session"]
      BY <3>1, <3>2, SetStateSound
    <3> QED BY <3>1, <3>2, <3>3, <3>4 DEF Typed, Kept, PollerRuns
  <2>2. CASE ~Opens
    BY <1>5, <2>2 DEF OpenOrKeep, Opens, pollerOthers, Typed, Kept, PollerRuns
  <2> QED BY <2>1, <2>2
<1>6. CASE ReadTick
  <2>1. /\ poller' = [poller EXCEPT !.at = "check"] /\ UNCHANGED <<sim, store>>
        /\ SchemaOf[poller.catalog] \in Schemas /\ sim.num \in Nat /\ sim.time \in Nat
    BY <1>0, <1>6 DEF ReadTick, pollerOthers, Typed, Times
  <2>2. Sound(race')
    BY <1>6, <2>1, OnFrameSound DEF ReadTick
  <2> QED BY <2>1, <2>2 DEF Typed, Kept, PollerRuns
<1>7. CASE Finish
  <2>1. /\ poller' = [poller EXCEPT !.thread = "stopped"] /\ UNCHANGED <<sim, race>>
        /\ store' = IF poller.sid # NoId /\ poller.tracker
                    THEN [store EXCEPT !.open = Finalised] ELSE store
    BY <1>7 DEF Finish, pollerOthers
  <2>2. store' \in [ids : Nat, open : SUBSET Nat] /\ store'.open = {}
    BY <2>1 DEF Typed, Kept, Finalised
  <2> QED BY <2>1, <2>2 DEF Typed, Kept
<1>8. CASE LiveStart
  BY <1>8 DEF LiveStart, Typed, Kept, PollerRuns, NoSub
<1>9. CASE LiveStop
  <2>1. /\ UNCHANGED <<sim, store, race>>
        /\ poller' = [poller EXCEPT !.stop = TRUE, !.leaving = TRUE]
    BY <1>9 DEF LiveStop, StopRequested
  <2> QED BY <2>1 DEF Typed, Kept, PollerRuns
<1>10. CASE LiveStopped
  <2> DEFINE p == [poller EXCEPT !.leaving = FALSE]
  <2>1. SetState(p, "disconnected", NoId) /\ UNCHANGED <<sim, store>> /\ NoId \in Nat
    BY <1>10 DEF LiveStopped, pollerOthers, NoId
  <2> HIDE DEF p
  <2>2. Sound(race') /\ poller' = [p EXCEPT !.state = "disconnected"]
    BY <2>1, SetStateSound
  <2> USE DEF p
  <2> QED BY <2>1, <2>2 DEF Typed, Kept, PollerRuns
<1>11. CASE ReplayAsked
  BY <1>11 DEF ReplayAsked, replayOthers, Typed, Kept, PollerRuns
<1>12. CASE Replay
  <2>0. StoredSchema \in Schemas /\ Stored \in Nat
    BY DEF Stored
  <2>1. UNCHANGED <<sim, poller, store>>
    BY <1>12 DEF Replay, ReplayStart, ReplayBegins, ReplayBinds, ReplayEnds, ReplayFrame,
                 replayOthers
  <2>2. ASSUME ReplayStart PROVE Sound(race')
    <3> DEFINE e == EngineReset(race)
    <3>1. Sound(e) /\ race' = [e EXCEPT !.suspended = FALSE]
      BY <2>2, EngineResetSound DEF ReplayStart
    <3> HIDE DEF e
    <3>2. Sound([e EXCEPT !.suspended = FALSE])
      BY <3>1 DEF Sound, Races
    <3> QED BY <3>1, <3>2
  <2>3. ASSUME ReplayBegins PROVE Sound(race')
    BY <2>0, <2>3, OnReplayBeginsSound DEF ReplayBegins
  <2>4. ASSUME ReplayBinds PROVE Sound(race')
    BY <2>0, <2>4, BindCatalogSound DEF ReplayBinds
  <2>5. ASSUME NEW num \in 0..MaxNum, NEW time \in Times, ReplayFrame(num, time)
        PROVE  Sound(race')
    <3>1. num \in Nat /\ time \in Nat
      BY DEF Times
    <3> QED BY <2>0, <2>5, <3>1, OnFrameSound DEF ReplayFrame
  <2>6. ASSUME ReplayEnds PROVE Sound(race')
    BY <2>6, SegmentOverSound DEF ReplayEnds, OnReplayEnds
  <2>7. Sound(race')
    BY <1>12, <2>2, <2>3, <2>4, <2>5, <2>6 DEF Replay
  <2> QED BY <2>1, <2>7 DEF Typed, Kept, PollerRuns
<1>13. CASE CloseSegments
  <2>1. Sound(race')
    BY <1>13, SegmentOverSound DEF CloseSegments
  <2> QED BY <1>13, <2>1 DEF CloseSegments, Typed, Kept, PollerRuns
<1>14. CASE ClosePoller
  <2>1. UNCHANGED <<sim, store, race>>
    BY <1>14 DEF ClosePoller
  <2>2. \/ poller' = poller
        \/ poller' = [poller EXCEPT !.stop = TRUE, !.leaving = TRUE]
    BY <1>14 DEF ClosePoller, StopRequested
  <2>3. Typed'
    BY <2>1, <2>2 DEF Typed
  <2>4. Kept'
    BY <2>1, <2>2 DEF Typed, Kept, PollerRuns
  <2> QED BY <2>1, <2>3, <2>4
<1>15. CASE UNCHANGED vars
  BY <1>15 DEF vars, Typed, Kept, PollerRuns
<1> QED BY <1>1, <1>2, <1>3, <1>4, <1>5, <1>6, <1>7, <1>8, <1>9, <1>10, <1>11, <1>12,
           <1>13, <1>14, <1>15 DEF Next, Sim, PollerSteps

\* LiveSession's journal: whatever is connected, lost, replayed or shut down, an open
\* or just closed run never holds an event of another segment than its own
\* (SegmentJournal and the recorder, under the engine's and the poller's steps).
THEOREM OneSegment == Spec => []OneSegmentPerRun
<1>1. Typed /\ Kept /\ Sound(race) => OneSegmentPerRun
  BY DEF Sound, Whole, OneSegmentPerRun
<1> QED BY <1>1, InitTyped, NextTyped, PTL DEF Spec

\* LivePoller's finalisation: no session is left open in the store but the one the
\* running poller is writing.
THEOREM Finalises == Spec => []SessionsFinalised
<1>1. Typed /\ Kept /\ Sound(race) => SessionsFinalised
  BY DEF Kept, SessionsFinalised
<1> QED BY <1>1, InitTyped, NextTyped, PTL DEF Spec
-------------------------------------------------------------------------------
(***************************************************************************)
(* TypeOK bounds the session ids.  A session is opened only after a move:  *)
(* the operator's start, or iRacing's return or next subsession.  Owed is  *)
(* how many more the moves already made can open.                          *)
(***************************************************************************)
Owed ==
  IF sim.on THEN IF Opens THEN 1 ELSE 0
  ELSE IF Opens /\ poller.at = "open" THEN 2 ELSE 1

Bounded ==
  /\ sim.num <= MaxNum
  /\ PollerRuns /\ poller.catalog # NoSub => poller.tracker
  /\ replay \in {"idle", "starting", "binding", "running"} /\ starting \in BOOLEAN
  /\ tape \in [num : 0..MaxNum, time : Times]
  /\ server \in {"up", "closing", "down"}
  /\ moves \in 0..MaxMoves
  /\ poller.sid <= store.ids
  /\ store.ids + Owed <= FirstLive + moves

LEMMA InitBounded == Init => Bounded
<1> SUFFICES ASSUME Init PROVE Bounded
  OBVIOUS
<1>1. MaxNum \in Nat /\ MaxMoves \in Nat
  BY LiveSessionAssumption
<1>2. Owed = 1 /\ store.ids = 1
  BY DEF Init, Owed, Stored
<1>3. store.ids + Owed <= FirstLive + moves
  BY <1>2 DEF Init, FirstLive
<1>4. tape \in [num : 0..MaxNum, time : Times]
  BY <1>1 DEF Init, Times
<1>5. sim.num <= MaxNum /\ moves \in 0..MaxMoves
  BY <1>1 DEF Init
<1>6. poller.sid <= store.ids /\ ~PollerRuns
  BY DEF Init, NoId, Stored, PollerRuns
<1> QED BY <1>3, <1>4, <1>5, <1>6 DEF Init, Bounded

LEMMA MovesAreCounted ==
  ASSUME Bounded, Move PROVE moves' \in 0..MaxMoves /\ moves' = moves + 1
BY LiveSessionAssumption DEF Bounded, Move

LEMMA NextBounded == Typed /\ Bounded /\ [Next]_vars => Bounded'
<1> SUFFICES ASSUME Typed, Bounded, [Next]_vars PROVE Bounded'
  OBVIOUS
<1> USE LiveSessionAssumption
<1>0. /\ store.ids \in Nat /\ poller.sid \in Nat /\ moves \in Nat /\ FirstLive \in Nat
      /\ Owed \in {0, 1, 2} /\ MaxNum \in Nat
      /\ store.ids + Owed <= FirstLive + moves /\ poller.sid <= store.ids
  BY DEF Typed, Bounded, FirstLive, Owed
<1>1. ASSUME NEW sub \in Subsessions, Arrive(sub) PROVE Bounded'
  <2>1. /\ UNCHANGED <<poller, replay, starting, tape, store, server>>
        /\ Move /\ ~sim.on /\ sim'.on = TRUE /\ sim'.num <= MaxNum
    BY <1>1 DEF Arrive, feedVars, Typed, Bounded
  <2>2. Owed >= 1 /\ Owed' \in {0, 1}
    BY <2>1 DEF Owed
  <2>3. store.ids + Owed' <= FirstLive + moves'
    BY <1>0, <2>1, <2>2, MovesAreCounted
  <2> HIDE DEF Owed
  <2> QED BY <2>1, <2>3, MovesAreCounted DEF Bounded, PollerRuns
<1>2. CASE Leave \/ NextSession \/ Restart \/ NextSubsession
  <2>1. /\ UNCHANGED <<poller, replay, starting, tape, store, server>>
        /\ Move /\ sim.on
    BY <1>2 DEF Leave, NextSession, Restart, NextSubsession, feedVars
  <2>2. sim'.num <= MaxNum
    <3>1. CASE NextSession
      <4> DEFINE n == sim.num + 1
      <4>1. n <= MaxNum /\ sim' = [sim EXCEPT !.num = n, !.time = 0]
        BY <1>0, <3>1 DEF NextSession, Typed
      <4> HIDE DEF n
      <4> QED BY <4>1 DEF Typed
    <3>2. CASE NextSubsession
      <4> DEFINE n == sim.sub + 1
      <4>1. sim' = [on |-> TRUE, sub |-> n, num |-> 0, time |-> 0]
        BY <3>2 DEF NextSubsession
      <4> HIDE DEF n
      <4> QED BY <1>0, <4>1
    <3>3. CASE Leave \/ Restart
      BY <3>3 DEF Leave, Restart, Typed, Bounded
    <3> QED BY <1>2, <3>1, <3>2, <3>3
  <2>3. Owed' <= Owed + 1 /\ Owed' \in {0, 1, 2}
    <3>1. CASE Leave
      <4>1. sim'.on = FALSE /\ sim'.sub = sim.sub
        BY <3>1 DEF Leave, Typed
      <4>2. Opens' <=> Opens
        BY <2>1, <4>1 DEF Opens
      <4> QED BY <2>1, <4>1, <4>2 DEF Owed
    <3>2. CASE NextSession \/ Restart \/ NextSubsession
      <4>1. sim'.on = TRUE
        <5> DEFINE n == sim.num + 1
        <5>1. ASSUME NextSession PROVE sim' = [sim EXCEPT !.num = n, !.time = 0]
          BY <5>1 DEF NextSession, Typed
        <5> HIDE DEF n
        <5>2. CASE NextSession
          BY <2>1, <5>1, <5>2 DEF Typed
        <5>3. CASE Restart
          BY <2>1, <5>3 DEF Restart, Typed
        <5>4. CASE NextSubsession
          <6> DEFINE m == sim.sub + 1
          <6>1. sim' = [on |-> TRUE, sub |-> m, num |-> 0, time |-> 0]
            BY <5>4 DEF NextSubsession
          <6> HIDE DEF m
          <6> QED BY <6>1
        <5> QED BY <3>2, <5>2, <5>3, <5>4
      <4> QED BY <2>1, <4>1 DEF Owed
    <3> QED BY <1>2, <3>1, <3>2
  <2>4. store.ids + Owed' <= FirstLive + moves'
    BY <1>0, <2>1, <2>3, MovesAreCounted
  <2> QED BY <2>1, <2>2, <2>4, MovesAreCounted DEF Bounded, PollerRuns
<1>3. CASE ClockRuns
  <2>1. /\ UNCHANGED <<feedVars, moves>>
        /\ sim'.on = sim.on /\ sim'.sub = sim.sub /\ sim'.num = sim.num
    BY <1>3 DEF ClockRuns, Typed
  <2> QED BY <2>1 DEF feedVars, Bounded, PollerRuns, Owed, Opens
<1>4. CASE CheckConnection
  <2>1. UNCHANGED <<sim, replay, tape, starting, server, moves, store>>
    BY <1>4 DEF CheckConnection, pollerOthers
  <2>2. /\ poller'.sid = poller.sid /\ poller'.catalog = poller.catalog
        /\ poller'.current = poller.current /\ poller'.tracker = poller.tracker
        /\ poller'.thread = poller.thread
        /\ ~sim.on => poller'.at = "startup"
    <3>1. CASE sim.on
      BY <1>4, <3>1 DEF CheckConnection, Typed
    <3>2. CASE ~sim.on
      <4>1. poller' = [poller EXCEPT !.at = "startup", !.state = "disconnected"]
        BY <1>4, <3>2 DEF CheckConnection, SetState
      <4> QED BY <3>2, <4>1 DEF Typed
    <3> QED BY <3>1, <3>2
  <2>3. Opens' <=> Opens
    BY <2>1, <2>2 DEF Opens
  <2>4. Owed' \in {0, 1, 2} /\ Owed' <= Owed
    BY <2>1, <2>2, <2>3 DEF Owed
  <2>5. store.ids + Owed' <= FirstLive + moves
    BY <1>0, <2>4
  <2> QED BY <2>1, <2>2, <2>5 DEF Bounded, PollerRuns
<1>5. CASE Startup
  <2>1. UNCHANGED <<sim, replay, tape, starting, server, moves, store>>
        /\ poller.at = "startup" /\ PollerRuns
    BY <1>5 DEF Startup, pollerOthers
  <2>2. CASE sim.on
    <3>1. poller' = [poller EXCEPT !.at = "open"]
      BY <1>5, <2>2 DEF Startup, AfterStartup
    <3>2. /\ poller'.sid = poller.sid /\ poller'.catalog = poller.catalog
          /\ poller'.current = poller.current /\ poller'.tracker = poller.tracker
      BY <3>1 DEF Typed
    <3>3. Opens' <=> Opens
      BY <2>1, <3>2 DEF Opens
    <3>4. Owed' = Owed
      BY <2>1, <2>2, <3>3 DEF Owed
    <3> QED BY <1>0, <2>1, <3>2, <3>4 DEF Bounded
  <2>3. CASE ~sim.on
    <3>1. poller' = [poller EXCEPT !.at = "check", !.catalog = NoSub]
      BY <1>5, <2>3 DEF Startup, AfterStartup
    <3>2. poller'.sid = poller.sid /\ poller'.at = "check" /\ poller'.catalog = NoSub
      BY <3>1 DEF Typed
    <3>3. Owed' = 1 /\ Owed = 1
      BY <2>1, <2>3, <3>2 DEF Owed
    <3> QED BY <1>0, <2>1, <3>2, <3>3 DEF Bounded
  <2> QED BY <2>2, <2>3
<1>6. CASE OpenOrKeep
  <2>1. UNCHANGED <<sim, replay, tape, starting, server, moves>> /\ poller.at = "open"
    BY <1>6 DEF OpenOrKeep, pollerOthers
  <2>2. CASE Opens
    <3> DEFINE sid == store.ids + 1
               p == [poller EXCEPT !.at = "read", !.sid = sid, !.catalog = sim.sub,
                                   !.current = sim.sub, !.tracker = TRUE]
    <3>1. SetState(p, "in_session", sid) /\ store' = [ids |-> sid, open |-> Finalised \cup {sid}]
      BY <1>6, <2>2 DEF OpenOrKeep
    <3>2. sid = store.ids + 1
      OBVIOUS
    <3> HIDE DEF sid
    <3>3. poller' = [p EXCEPT !.state = "in_session"] /\ store'.ids = sid
      BY <3>1 DEF SetState
    <3>4. /\ poller'.sid = sid /\ poller'.catalog = sim.sub /\ poller'.current = sim.sub
          /\ poller'.tracker = TRUE /\ poller'.at = "read" /\ sim.sub # NoSub
      BY <3>3 DEF Typed, Subsessions, NoSub
    <3> HIDE DEF p
    <3>5. ~Opens'
      BY <2>1, <3>4 DEF Opens
    <3>6. Owed' + 1 = Owed
      BY <2>1, <2>2, <3>4, <3>5 DEF Owed
    <3>7. store'.ids + Owed' <= FirstLive + moves
      BY <1>0, <3>2, <3>3, <3>6 DEF Owed
    <3>8. sid <= sid
      BY <1>0, <3>2
    <3> QED BY <2>1, <3>3, <3>4, <3>7, <3>8 DEF Bounded
  <2>3. CASE ~Opens
    <3>1. poller' = [poller EXCEPT !.at = "read"] /\ store' = store
      BY <1>6, <2>3 DEF OpenOrKeep
    <3>2. /\ poller'.sid = poller.sid /\ poller'.catalog = poller.catalog
          /\ poller'.current = poller.current /\ poller'.tracker = poller.tracker
          /\ poller'.thread = poller.thread
      BY <3>1 DEF Typed
    <3>3. ~Opens'
      BY <2>1, <2>3, <3>2 DEF Opens
    <3>4. Owed' = Owed
      BY <2>1, <2>3, <3>3 DEF Owed
    <3> QED BY <1>0, <2>1, <3>1, <3>2, <3>4 DEF Bounded, PollerRuns
  <2> QED BY <2>2, <2>3
<1>7. CASE ReadTick
  <2>1. /\ UNCHANGED <<sim, replay, tape, starting, server, moves, store>>
        /\ poller.at = "read" /\ poller' = [poller EXCEPT !.at = "check"]
    BY <1>7 DEF ReadTick, pollerOthers
  <2>2. /\ poller'.sid = poller.sid /\ poller'.catalog = poller.catalog
        /\ poller'.current = poller.current /\ poller'.tracker = poller.tracker
        /\ poller'.thread = poller.thread /\ poller'.at = "check"
    BY <2>1 DEF Typed
  <2>3. Opens' <=> Opens
    BY <2>1, <2>2 DEF Opens
  <2>4. Owed' = Owed
    BY <2>1, <2>2, <2>3 DEF Owed
  <2> QED BY <1>0, <2>1, <2>2, <2>4 DEF Bounded, PollerRuns
<1>8. CASE Finish
  <2>1. /\ UNCHANGED <<sim, replay, tape, starting, server, moves>>
        /\ poller' = [poller EXCEPT !.thread = "stopped"]
        /\ store'.ids = store.ids
    BY <1>8 DEF Finish, pollerOthers, Typed
  <2>2. /\ poller'.sid = poller.sid /\ poller'.catalog = poller.catalog
        /\ poller'.current = poller.current /\ poller'.at = poller.at
        /\ poller'.thread = "stopped"
    BY <2>1 DEF Typed
  <2>3. Opens' <=> Opens
    BY <2>1, <2>2 DEF Opens
  <2>4. Owed' = Owed
    BY <2>1, <2>2, <2>3 DEF Owed
  <2> QED BY <1>0, <2>1, <2>2, <2>4 DEF Bounded, PollerRuns
<1>9. CASE LiveStart
  <2>1. /\ UNCHANGED <<sim, replay, tape, starting, server, store>> /\ Move
        /\ poller' = [poller EXCEPT !.thread = "running", !.at = "check", !.stop = FALSE,
                              !.catalog = NoSub, !.current = NoSub, !.tracker = FALSE]
    BY <1>9 DEF LiveStart
  <2>2. poller'.sid = poller.sid /\ poller'.catalog = NoSub /\ poller'.at = "check"
    BY <2>1 DEF Typed
  <2>3. Owed' \in {0, 1, 2} /\ Owed' <= Owed + 1
    BY <2>1, <2>2 DEF Owed
  <2>4. store.ids + Owed' <= FirstLive + moves'
    BY <1>0, <2>1, <2>3, MovesAreCounted
  <2> QED BY <2>1, <2>2, <2>4, MovesAreCounted DEF Bounded
<1>10. ASSUME poller' = [poller EXCEPT !.stop = TRUE, !.leaving = TRUE] \/ UNCHANGED poller,
              UNCHANGED <<sim, store>>
       PROVE  Owed' = Owed /\ poller'.sid = poller.sid
              /\ (PollerRuns' /\ poller'.catalog # NoSub => poller'.tracker)
  <2>1. /\ poller'.sid = poller.sid /\ poller'.catalog = poller.catalog
        /\ poller'.current = poller.current /\ poller'.tracker = poller.tracker
        /\ poller'.thread = poller.thread /\ poller'.at = poller.at
    BY <1>10 DEF Typed
  <2>2. Opens' <=> Opens
    BY <1>10, <2>1 DEF Opens
  <2>3. Owed' = Owed
    BY <1>10, <2>1, <2>2 DEF Owed
  <2> QED BY <2>1, <2>3 DEF Bounded, PollerRuns
<1>11. CASE LiveStop
  <2>1. /\ UNCHANGED <<sim, replay, tape, starting, store, server>> /\ Move
        /\ poller' = [poller EXCEPT !.stop = TRUE, !.leaving = TRUE]
    BY <1>11 DEF LiveStop, StopRequested
  <2>2. Owed' = Owed /\ poller'.sid = poller.sid
        /\ (PollerRuns' /\ poller'.catalog # NoSub => poller'.tracker)
    BY <1>10, <2>1
  <2>3. store.ids + Owed' <= FirstLive + moves'
    BY <1>0, <2>1, <2>2, MovesAreCounted
  <2> QED BY <2>1, <2>2, <2>3, MovesAreCounted DEF Bounded
<1>12. CASE LiveStopped
  <2>1. /\ UNCHANGED <<sim, replay, tape, starting, server, moves, store>>
        /\ poller' = [poller EXCEPT !.leaving = FALSE, !.state = "disconnected"]
    BY <1>12 DEF LiveStopped, pollerOthers, SetState
  <2>2. /\ poller'.sid = poller.sid /\ poller'.catalog = poller.catalog
        /\ poller'.current = poller.current /\ poller'.tracker = poller.tracker
        /\ poller'.thread = poller.thread /\ poller'.at = poller.at
    BY <2>1 DEF Typed
  <2>3. Opens' <=> Opens
    BY <2>1, <2>2 DEF Opens
  <2>4. Owed' = Owed
    BY <2>1, <2>2, <2>3 DEF Owed
  <2> QED BY <1>0, <2>1, <2>2, <2>4 DEF Bounded, PollerRuns
<1>13. CASE ReplayAsked
  <2>1. UNCHANGED <<sim, poller, store, server, replay, tape>> /\ Move /\ starting' = TRUE
    BY <1>13 DEF ReplayAsked, replayOthers
  <2>2. Owed' = Owed
    BY <2>1 DEF Owed, Opens
  <2>3. store.ids + Owed' <= FirstLive + moves'
    BY <1>0, <2>1, <2>2, MovesAreCounted
  <2> QED BY <2>1, <2>3, MovesAreCounted DEF Bounded, PollerRuns
<1>14. CASE Replay
  <2>1. UNCHANGED <<sim, poller, store, server, moves>>
    BY <1>14 DEF Replay, ReplayStart, ReplayBegins, ReplayBinds, ReplayEnds, ReplayFrame,
                 replayOthers
  <2>2. /\ replay' \in {"idle", "starting", "binding", "running"} /\ starting' \in BOOLEAN
        /\ tape' \in [num : 0..MaxNum, time : Times]
    <3>1. CASE ReplayStart
      <4>1. replay' = "starting" /\ starting' = FALSE /\ tape' = [num |-> 0, time |-> 0]
        BY <3>1 DEF ReplayStart
      <4>2. tape' \in [num : 0..MaxNum, time : Times]
        BY <1>0, <4>1 DEF Times
      <4> QED BY <4>1, <4>2
    <3>2. CASE ReplayBegins \/ ReplayBinds \/ ReplayEnds
      BY <3>2 DEF ReplayBegins, ReplayBinds, ReplayEnds, Bounded
    <3>3. ASSUME NEW num \in 0..MaxNum, NEW time \in Times, ReplayFrame(num, time)
          PROVE  /\ replay' \in {"idle", "starting", "binding", "running"}
                 /\ starting' \in BOOLEAN
                 /\ tape' \in [num : 0..MaxNum, time : Times]
      BY <3>3 DEF ReplayFrame, Bounded
    <3> QED BY <1>14, <3>1, <3>2, <3>3 DEF Replay
  <2>3. Owed' = Owed
    BY <2>1 DEF Owed, Opens
  <2> QED BY <1>0, <2>1, <2>2, <2>3 DEF Bounded, PollerRuns
<1>15. CASE CloseSegments \/ ClosePoller
  <2>1. /\ UNCHANGED <<sim, replay, tape, starting, store, moves>>
        /\ poller' = [poller EXCEPT !.stop = TRUE, !.leaving = TRUE] \/ UNCHANGED poller
        /\ server' \in {"up", "closing", "down"}
    BY <1>15 DEF CloseSegments, ClosePoller, StopRequested
  <2>2. Owed' = Owed /\ poller'.sid = poller.sid
        /\ (PollerRuns' /\ poller'.catalog # NoSub => poller'.tracker)
    BY <1>10, <2>1
  <2> QED BY <1>0, <2>1, <2>2 DEF Bounded
<1>16. CASE UNCHANGED vars
  BY <1>16 DEF vars, Bounded, PollerRuns, Owed, Opens
<1> QED BY <1>1, <1>2, <1>3, <1>4, <1>5, <1>6, <1>7, <1>8, <1>9, <1>11, <1>12, <1>13,
           <1>14, <1>15, <1>16 DEF Next, Sim, PollerSteps

\* Every variable of LiveSession keeps its type under every disturbance; the session ids
\* the poller draws are bounded by the moves, since each follows a start, a return of
\* iRacing or a new subsession.
THEOREM TypeCorrect == Spec => []TypeOK
<1>1. Typed /\ Kept /\ Sound(race) /\ Bounded => TypeOK
  <2> SUFFICES ASSUME Typed, Kept, Sound(race), Bounded PROVE TypeOK
    OBVIOUS
  <2>0. MaxMoves \in Nat /\ MaxNum \in Nat
    BY LiveSessionAssumption
  <2>1. store.ids \in Ids /\ poller.sid \in Ids
    <3>1. store.ids \in Nat /\ poller.sid \in Nat /\ moves \in Nat /\ Owed \in {0, 1, 2}
      BY DEF Typed, Bounded, Owed
    <3>2. store.ids + Owed <= FirstLive + moves /\ moves <= MaxMoves /\ poller.sid <= store.ids
      BY <2>0 DEF Bounded
    <3> QED BY <2>0, <3>1, <3>2 DEF Ids, FirstLive
  <2>2. sim \in [on : BOOLEAN, sub : Subsessions, num : 0..MaxNum, time : Times]
    BY <2>0 DEF Typed, Bounded
  <2>3. poller \in [thread : {"stopped", "running"}, at : {"check", "startup", "open", "read"},
                    stop : BOOLEAN, leaving : BOOLEAN, state : {"disconnected", "in_session"},
                    sid : Ids, catalog : Subsessions \cup {NoSub},
                    current : Subsessions \cup {NoSub}, tracker : BOOLEAN]
    BY <2>1 DEF Typed
  <2>4. PollerRuns /\ poller.at = "read" => poller.catalog # NoSub /\ poller.tracker
    BY DEF Typed, Bounded
  <2>5. store \in [ids : Ids, open : SUBSET Ids]
    BY <2>1 DEF Typed, Kept
  <2> QED BY <2>2, <2>3, <2>4, <2>5 DEF TypeOK, Bounded, Sound
<1> QED BY <1>1, InitTyped, NextTyped, InitBounded, NextBounded, PTL DEF Spec
-------------------------------------------------------------------------------
(***************************************************************************)
(* LiveSession with one feed at a time ("overlap" does not happen) and no  *)
(* connection that is lost and back within one pass of the poller          *)
(* ("blip"): the segment of the feed is journaled, each closed run fires   *)
(* its hooks, and a feed that is gone leaves its segment stale.  When no   *)
(* other car follows unseen ("car") a run also ends with its own           *)
(* segment's state.                                                        *)
(***************************************************************************)

\* The feed a run, or the run the next segment's will follow, comes from.
Latest(r) == IF r.run # NoRun THEN r.run ELSE r.last
Source(r) == Latest(r).source

Balanced(r) == r.fired = r.closed

OwnFinal(r) == r.filed.run # NoRun => r.filed.run.segment \in {NoSegment, r.filed.final}

\* A run without an open segment waits for one.
Loose(r) == ~r.open /\ r.run # NoRun => r.run.segment = NoSegment

\* The engine is named, the open run is of that session, and it has the segment's start.
Feeding(r) ==
  /\ r.sid # NoId
  /\ r.run # NoRun => r.run.sid = r.sid
  /\ r.open => r.run # NoRun /\ r.at \in r.run.written

\* What the journal's operations leave as it is.
Keeps(r, x) ==
  /\ x.stale = r.stale /\ x.sid = r.sid /\ x.schema = r.schema
  /\ Source(x) = Source(r)
  /\ Balanced(r) => Balanced(x)
-------------------------------------------------------------------------------
(***************************************************************************)
(* The journal.                                                            *)
(***************************************************************************)
LEMMA SourceOfNoRun ==
  ASSUME NEW r, Between(r)
  PROVE  Source(r) \in Sources <=> Latest(r) # NoRun
BY DEF Source, Latest, Between, Races, Runs, NoRun, Sources

LEMMA CloseKeeps ==
  ASSUME NEW r, Between(r), NEW final \in Nat
  PROVE  LET c == Close(r, final)
         IN /\ Keeps(r, c)
            /\ Latest(c) = Latest(r)
            /\ OwnFinal(r) /\ (r.run # NoRun => r.run.segment \in {NoSegment, final})
                 => OwnFinal(c)
<1>1. CASE r.run = NoRun
  BY <1>1 DEF Close, Keeps
<1>2. CASE r.run # NoRun
  <2> DEFINE filed == [run |-> r.run, final |-> final]
             n == r.closed + 1
             e == [r EXCEPT !.run = NoRun, !.closed = n, !.filed = filed]
             m == e.fired + 1
             c == [e EXCEPT !.fired = m, !.last = r.run]
  <2>1. Close(r, final) = c
    BY <1>2 DEF Close, RecorderEnd
  <2>2. filed.run = r.run /\ filed.final = final
    OBVIOUS
  <2>3. r.closed \in Nat /\ r.fired \in Nat /\ e.fired = r.fired
    BY DEF Between, Races
  <2>4. Balanced(r) => m = n
    BY <2>3 DEF Balanced
  <2> HIDE DEF filed, n, m
  <2>5. /\ c.stale = r.stale /\ c.sid = r.sid /\ c.schema = r.schema
        /\ c.run = NoRun /\ c.last = r.run /\ c.filed = filed /\ c.fired = m /\ c.closed = n
    BY DEF Between, Races
  <2> HIDE DEF c
  <2> QED BY <1>2, <2>1, <2>2, <2>4, <2>5 DEF Keeps, Source, Latest, Balanced, OwnFinal
<1> QED BY <1>1, <1>2

LEMMA RecordKeeps ==
  ASSUME NEW r, Between(r), NEW segment \in Nat
  PROVE  LET w == Record(r, segment)
         IN /\ Keeps(r, w)
            /\ w.run = NoRun <=> r.run = NoRun
            /\ w.run # NoRun => /\ w.run.sid = r.run.sid
                                /\ w.run.written = r.run.written \cup {segment}
            /\ OwnFinal(r) => OwnFinal(w)
<1>1. CASE r.run = NoRun
  BY <1>1 DEF Record, Keeps
<1>2. CASE r.run # NoRun
  <2>1. r.run \in Runs
    BY <1>2 DEF Between, Races
  <2> DEFINE written == [r.run EXCEPT !.written = @ \cup {segment}]
             w == [r EXCEPT !.run = written]
  <2>2. /\ written \in Runs /\ written # NoRun
        /\ written.sid = r.run.sid /\ written.source = r.run.source
        /\ written.written = r.run.written \cup {segment}
    BY <2>1, NoRunIsNone DEF Runs
  <2>3. Record(r, segment) = w
    BY <1>2 DEF Record, Between, Races
  <2> HIDE DEF written
  <2>4. /\ w.stale = r.stale /\ w.sid = r.sid /\ w.schema = r.schema
        /\ w.run = written /\ w.filed = r.filed /\ w.fired = r.fired /\ w.closed = r.closed
    BY DEF Between, Races
  <2> HIDE DEF w
  <2> QED BY <1>2, <2>2, <2>3, <2>4 DEF Keeps, Source, Latest, Balanced, OwnFinal
<1> QED BY <1>1, <1>2

\* begin() with no run open closes none.
LEMMA BeginKeeps ==
  ASSUME NEW r, Between(r), r.run = NoRun,
         NEW sid \in Nat, NEW source \in Sources, NEW segment \in Nat
  PROVE  LET b == Begin(r, sid, source, segment)
         IN /\ b.run = NewRun(sid, source, segment) /\ b.run # NoRun /\ Source(b) = source
            /\ b.stale = r.stale /\ b.sid = r.sid /\ b.schema = r.schema
            /\ Balanced(r) => Balanced(b)
            /\ OwnFinal(r) => OwnFinal(b)
<1> DEFINE n == NewRun(sid, source, segment)
           b == [r EXCEPT !.run = n]
<1>1. n \in Runs /\ n # NoRun /\ n.source = source
  BY NoRunIsNone DEF NewRun, Runs, Sources
<1>2. Begin(r, sid, source, segment) = b
  BY DEF Begin, RecorderEnd
<1> HIDE DEF n
<1>3. /\ b.run = n /\ b.stale = r.stale /\ b.sid = r.sid /\ b.schema = r.schema
      /\ b.fired = r.fired /\ b.closed = r.closed /\ b.filed = r.filed
  BY DEF Between, Races
<1> HIDE DEF b
<1> QED BY <1>1, <1>2, <1>3 DEF n, Source, Latest, Balanced, OwnFinal

LEMMA OnStartKeeps ==
  ASSUME NEW r, Between(r), NEW segment \in Nat \ {NoSegment}
  PROVE  LET o == OnStart(r, segment)
         IN /\ Keeps(r, o)
            /\ OwnFinal(r) /\ (r.run # NoRun => r.run.segment = NoSegment) => OwnFinal(o)
            /\ Source(r) \in Sources /\ r.sid # NoId /\ (r.run # NoRun => r.run.sid = r.sid)
                 => o.run # NoRun /\ o.run.sid = r.sid
<1> DEFINE fresh == [r EXCEPT !.suspended = FALSE]
           last == Latest(r)
           sid == IF r.sid # NoId \/ last = NoRun THEN r.sid ELSE last.sid
           shut == Close(fresh, fresh.at)
<1>1. /\ Between(fresh) /\ fresh.at \in Nat
      /\ fresh.run = r.run /\ fresh.last = r.last /\ fresh.filed = r.filed
      /\ fresh.stale = r.stale /\ fresh.sid = r.sid /\ fresh.schema = r.schema
      /\ fresh.fired = r.fired /\ fresh.closed = r.closed
  BY DEF Between, Races
<1>2. Keeps(r, fresh) /\ Latest(fresh) = last /\ (OwnFinal(r) => OwnFinal(fresh))
  BY <1>1 DEF Keeps, Source, Latest, Balanced, OwnFinal
<1>3. /\ Between(shut) /\ shut.run = NoRun /\ Keeps(fresh, shut)
      /\ OwnFinal(fresh) /\ (fresh.run # NoRun => fresh.run.segment = NoSegment)
           => OwnFinal(shut)
  BY <1>1, CloseFields, CloseKeeps
<1>4. CASE Annotates(r)
  <2> DEFINE named == [r.run EXCEPT !.segment = segment]
             o == [fresh EXCEPT !.run = named]
  <2>1. r.run \in Runs /\ r.run # NoRun
    BY <1>4 DEF Annotates, Between, Races
  <2>2. named \in Runs /\ named # NoRun /\ named.sid = r.run.sid
        /\ named.source = r.run.source
    BY <2>1, NoRunIsNone DEF Runs
  <2>3. OnStart(r, segment) = o
    BY <1>1, <1>4 DEF OnStart
  <2> HIDE DEF fresh, named
  <2>4. /\ o.run = named /\ o.filed = fresh.filed
        /\ o.stale = fresh.stale /\ o.sid = fresh.sid /\ o.schema = fresh.schema
        /\ o.fired = fresh.fired /\ o.closed = fresh.closed
    BY <1>1 DEF Between, Races
  <2> HIDE DEF o
  <2> QED BY <1>1, <2>1, <2>2, <2>3, <2>4 DEF Keeps, Source, Latest, Balanced, OwnFinal
<1>5. CASE ~Annotates(r) /\ (last = NoRun \/ sid = NoId)
  <2>1. OnStart(r, segment) = shut
    BY <1>5 DEF OnStart, Latest
  <2>2. ~(Source(r) \in Sources /\ r.sid # NoId)
    BY <1>5, SourceOfNoRun
  <2> QED BY <1>1, <1>2, <1>3, <2>1, <2>2 DEF Keeps
<1>6. CASE ~Annotates(r) /\ last # NoRun /\ sid # NoId
  <2>1. last \in Runs
    BY <1>6 DEF Latest, Between, Races
  <2> DEFINE source == last.source
             b == Begin(shut, sid, source, segment)
  <2>2. sid \in Nat /\ source \in Sources /\ source = Source(r)
    BY <2>1 DEF Between, Races, Runs, Sources, Source
  <2>3. OnStart(r, segment) = b
    BY <1>6 DEF OnStart, Latest
  <2>4. r.sid # NoId => sid = r.sid
    OBVIOUS
  <2> HIDE DEF sid, source, shut
  <2>5. /\ b.run = NewRun(sid, source, segment) /\ b.run # NoRun /\ Source(b) = source
        /\ b.stale = shut.stale /\ b.sid = shut.sid /\ b.schema = shut.schema
        /\ Balanced(shut) => Balanced(b)
        /\ OwnFinal(shut) => OwnFinal(b)
    BY <1>3, <2>2, BeginKeeps
  <2>6. b.run.sid = sid
    BY <2>5 DEF NewRun
  <2> HIDE DEF b
  <2> QED BY <1>1, <1>2, <1>3, <2>2, <2>3, <2>4, <2>5, <2>6 DEF Keeps
<1> QED BY <1>4, <1>5, <1>6

LEMMA OnSessionStartKeeps ==
  ASSUME NEW r, Between(r), NEW segment \in Nat \ {NoSegment}
  PROVE  LET o == OnSessionStart(r, segment)
         IN /\ Keeps(r, o)
            /\ OwnFinal(r) /\ (r.run # NoRun => r.run.segment = NoSegment) => OwnFinal(o)
            /\ Source(r) \in Sources /\ r.sid # NoId /\ (r.run # NoRun => r.run.sid = r.sid)
                 => o.run # NoRun /\ o.run.sid = r.sid /\ segment \in o.run.written
<1> DEFINE s == OnStart(r, segment)
<1>1. Between(s)
  BY OnStartFields
<1>2. /\ Keeps(r, s)
      /\ OwnFinal(r) /\ (r.run # NoRun => r.run.segment = NoSegment) => OwnFinal(s)
      /\ Source(r) \in Sources /\ r.sid # NoId /\ (r.run # NoRun => r.run.sid = r.sid)
           => s.run # NoRun /\ s.run.sid = r.sid
  BY OnStartKeeps
<1> HIDE DEF s
<1>3. OnSessionStart(r, segment) = Record(s, segment)
  BY DEF OnSessionStart, s
<1> QED BY <1>1, <1>2, <1>3, RecordKeeps DEF Keeps

LEMMA OnSessionEndKeeps ==
  ASSUME NEW r, Between(r), NEW segment \in Nat \ {NoSegment},
         r.run # NoRun => r.run.segment = segment
  PROVE  LET o == OnSessionEnd(r, segment)
         IN Keeps(r, o) /\ (OwnFinal(r) => OwnFinal(o))
<1> DEFINE w == Record(r, segment)
<1>1. Between(w) /\ (w.run # NoRun => w.run.segment = segment)
  BY RecordSound
<1>2. Keeps(r, w) /\ (OwnFinal(r) => OwnFinal(w))
  BY RecordKeeps
<1> HIDE DEF w
<1>3. OnSessionEnd(r, segment) = Close(w, segment)
  BY DEF OnSessionEnd, w
<1> QED BY <1>1, <1>2, <1>3, CloseKeeps DEF Keeps
-------------------------------------------------------------------------------
(***************************************************************************)
(* The engine, and what services does to it.                               *)
(***************************************************************************)
LEMMA EndSegmentKeeps ==
  ASSUME NEW r, Sound(r)
  PROVE  LET e == EndSegment(r)
         IN /\ Keeps(r, e) /\ ~e.open
            /\ r.run = NoRun => e.run = NoRun
            /\ Loose(r) => (e.run # NoRun => e.run.segment = NoSegment)
            /\ OwnFinal(r) => OwnFinal(e)
<1>1. CASE ~r.open
  BY <1>1 DEF EndSegment, Keeps, Loose
<1>2. CASE r.open
  <2> DEFINE over == [r EXCEPT !.open = FALSE]
  <2>1. /\ Between(over) /\ over.run = r.run /\ over.open = FALSE /\ over.last = r.last
        /\ over.stale = r.stale /\ over.sid = r.sid /\ over.schema = r.schema
        /\ over.fired = r.fired /\ over.closed = r.closed /\ over.filed = r.filed
        /\ r.at \in Nat \ {NoSegment}
        /\ r.run # NoRun => r.run.segment = r.at
    BY <1>2 DEF Sound, Between, Races
  <2> HIDE DEF over
  <2>2. EndSegment(r) = OnSessionEnd(over, r.at)
    BY <1>2 DEF EndSegment, over
  <2> DEFINE e == OnSessionEnd(over, r.at)
  <2>3. /\ e.run = NoRun /\ e.open = FALSE
        /\ Keeps(over, e) /\ (OwnFinal(over) => OwnFinal(e))
    BY <2>1, OnSessionEndFields, OnSessionEndKeeps
  <2> HIDE DEF e
  <2> QED BY <2>1, <2>2, <2>3 DEF e, Keeps, Source, Latest, Balanced, OwnFinal
<1> QED BY <1>1, <1>2 DEF Sound, Races

\* Forgetting the segment, and binding another catalog, touch neither run nor hooks.
LEMMA EngineResetKeeps ==
  ASSUME NEW r, Sound(r)
  PROVE  LET e == EngineReset(r)
         IN /\ ~e.open /\ e.run = r.run /\ e.schema = r.schema /\ e.sid = NoId
            /\ Source(e) = Source(r)
            /\ Balanced(e) <=> Balanced(r)
            /\ OwnFinal(e) <=> OwnFinal(r)
<1> DEFINE e == EngineReset(r)
<1>1. /\ ~e.open /\ e.run = r.run /\ e.last = r.last /\ e.schema = r.schema /\ e.sid = NoId
      /\ e.fired = r.fired /\ e.closed = r.closed /\ e.filed = r.filed
  BY DEF EngineReset, Sound, Races
<1> HIDE DEF e
<1>2. /\ Source(e) = Source(r)
      /\ Balanced(e) <=> Balanced(r)
      /\ OwnFinal(e) <=> OwnFinal(r)
  BY <1>1 DEF Source, Latest, Balanced, OwnFinal
<1> QED BY <1>1, <1>2 DEF e

LEMMA BindCatalogKeeps ==
  ASSUME NEW r, Sound(r), NEW schema \in Schemas, NEW sid \in Nat
  PROVE  LET b == BindCatalog(r, schema, sid)
         IN /\ ~b.open /\ b.run = r.run /\ b.schema = schema /\ b.sid = sid
            /\ Source(b) = Source(r)
            /\ Balanced(b) <=> Balanced(r)
            /\ OwnFinal(b) <=> OwnFinal(r)
<1> DEFINE e == EngineReset(r)
           b == [e EXCEPT !.schema = schema, !.sid = sid]
<1>1. /\ Sound(e) /\ ~e.open /\ e.run = r.run
      /\ Source(e) = Source(r)
      /\ Balanced(e) <=> Balanced(r)
      /\ OwnFinal(e) <=> OwnFinal(r)
  BY EngineResetSound, EngineResetKeeps
<1>2. BindCatalog(r, schema, sid) = b
  BY DEF BindCatalog
<1> HIDE DEF e
<1>3. /\ b.open = e.open /\ b.run = e.run /\ b.last = e.last /\ b.schema = schema /\ b.sid = sid
      /\ b.fired = e.fired /\ b.closed = e.closed /\ b.filed = e.filed
  BY <1>1 DEF Sound, Races
<1> HIDE DEF b
<1> QED BY <1>1, <1>2, <1>3 DEF Source, Latest, Balanced, OwnFinal

\* A frame opens a segment or goes on with one, under the session the engine is named;
\* only a catalog that changes under an open segment files a run with another's state.
Framed(r, f, schema) ==
  /\ f.open = TRUE /\ f.stale = FALSE /\ f.sid = r.sid /\ f.schema = schema
  /\ Source(f) = Source(r)
  /\ Balanced(r) => Balanced(f)
  /\ Feeding(r) /\ Source(r) \in Sources => Feeding(f)
  /\ OwnFinal(r) /\ Loose(r) /\ (r.open => r.schema = schema) => OwnFinal(f)

LEMMA OnFrameKeeps ==
  ASSUME NEW r, Sound(r), NEW schema \in Schemas, NEW num \in Nat, NEW time \in Nat,
         NEW eventful \in BOOLEAN
  PROVE  Framed(r, OnFrame(r, schema, num, time, eventful), schema)
<1> DEFINE bound == IF schema = r.schema THEN r ELSE BindCatalog(r, schema, r.sid)
           begins == Boundary(bound, num, time) # "none"
           begun == IF begins THEN bound.begun + 1 ELSE bound.begun
           at == IF begins THEN begun ELSE bound.at
           updated == [bound EXCEPT !.stale = FALSE, !.open = TRUE, !.num = num, !.time = time,
                                    !.begun = begun, !.at = at]
           published == IF begins THEN PublishBoundary(updated, OpenSegment(bound), at) ELSE updated
           f == OnFrame(r, schema, num, time, eventful)
           calm == OwnFinal(r) /\ Loose(r) /\ (r.open => r.schema = schema)
           fed == Feeding(r) /\ Source(r) \in Sources
<1>0. r.sid \in Nat
  BY DEF Sound, Races
<1>1. /\ Sound(bound) /\ bound.schema = schema /\ bound.sid = r.sid /\ bound.run = r.run
      /\ Source(bound) = Source(r)
      /\ Balanced(r) => Balanced(bound)
      /\ calm => OwnFinal(bound) /\ Loose(bound)
      /\ bound.open => r.open /\ bound.at = r.at
  <2>1. CASE schema = r.schema
    BY <2>1
  <2>2. CASE schema # r.schema
    <3> DEFINE b == BindCatalog(r, schema, r.sid)
    <3>1. /\ Sound(b) /\ ~b.open /\ b.run = r.run /\ b.schema = schema /\ b.sid = r.sid
          /\ Source(b) = Source(r)
          /\ Balanced(b) <=> Balanced(r)
          /\ OwnFinal(b) <=> OwnFinal(r)
      BY <1>0, BindCatalogSound, BindCatalogKeeps
    <3> HIDE DEF b
    <3>2. calm => Loose(b)
      BY <2>2, <3>1 DEF Loose
    <3> QED BY <2>2, <3>1, <3>2 DEF b
  <2> QED BY <2>1, <2>2
<1>2. OnFrame(r, schema, num, time, eventful)
        = IF eventful THEN Record(published, at) ELSE published
  BY DEF OnFrame
<1>3. bound.run # NoRun /\ fed => bound.run.sid = bound.sid
  BY <1>1 DEF Feeding
<1>4. fed /\ bound.open => bound.run # NoRun /\ bound.at \in bound.run.written
  BY <1>1 DEF Feeding
<1>5. fed => bound.sid # NoId /\ Source(bound) \in Sources
  BY <1>1 DEF Feeding
<1> HIDE DEF bound, calm, fed
<1>6. begins \in BOOLEAN /\ (~begins => bound.open)
  BY DEF Boundary
<1> HIDE DEF begins
<1>7. begun \in Nat /\ at \in Nat \ {NoSegment}
  <2>1. bound.begun \in Nat /\ bound.at \in Nat /\ (bound.open => bound.at # NoSegment)
    BY <1>1 DEF Sound, Races
  <2> QED BY <1>6, <2>1 DEF NoSegment
<1>8. ~begins => at = bound.at
  OBVIOUS
<1> HIDE DEF begun, at
<1>9. /\ updated \in Races /\ updated.open = TRUE /\ updated.at = at /\ updated.stale = FALSE
      /\ updated.sid = bound.sid /\ updated.schema = bound.schema
      /\ updated.run = bound.run /\ updated.last = bound.last /\ updated.filed = bound.filed
      /\ updated.fired = bound.fired /\ updated.closed = bound.closed
  BY <1>1, <1>7 DEF Sound, Races
<1> HIDE DEF updated
<1>10. Between(updated)
  BY <1>1, <1>7, <1>9 DEF Between, Sound
<1>11. Keeps(updated, published) /\ Between(published) /\ published.open = TRUE
       /\ published.at = at
       /\ (calm => OwnFinal(published))
       /\ (fed => /\ published.run # NoRun /\ published.run.sid = r.sid
                  /\ at \in published.run.written)
  <2>1. CASE ~begins
    BY <1>1, <1>3, <1>4, <1>6, <1>8, <1>9, <1>10, <2>1 DEF Keeps, OwnFinal
  <2>2. CASE begins
    <3> DEFINE old == OpenSegment(bound)
               shut == IF old = NoSegment THEN updated ELSE OnSessionEnd(updated, old)
               o == OnSessionStart(shut, at)
    <3>1. /\ old \in Nat
          /\ bound.open => old # NoSegment /\ old = bound.at
          /\ ~bound.open => old = NoSegment
      BY <1>1 DEF OpenSegment, Sound, Races, NoSegment
    <3>2. old # NoSegment /\ updated.run # NoRun => updated.run.segment = old
      BY <1>1, <1>9, <3>1 DEF Sound
    <3>3. calm => OwnFinal(updated)
      BY <1>1, <1>9 DEF OwnFinal
    <3>4. published = o
      BY <2>2 DEF PublishBoundary
    <3> HIDE DEF old
    <3>5. /\ Between(shut) /\ shut.open = TRUE /\ shut.at = at /\ Keeps(updated, shut)
          /\ old # NoSegment => shut.run = NoRun
          /\ old = NoSegment => shut = updated
          /\ calm => OwnFinal(shut)
      BY <1>9, <1>10, <3>1, <3>2, <3>3, OnSessionEndFields, OnSessionEndKeeps DEF Keeps
    <3>6. calm => (shut.run # NoRun => shut.run.segment = NoSegment)
      BY <1>1, <1>9, <3>1, <3>5 DEF Loose
    <3>7. fed => /\ Source(shut) \in Sources /\ shut.sid # NoId
                 /\ shut.run # NoRun => shut.run.sid = shut.sid
      <4>1. Source(updated) = Source(bound)
        BY <1>9 DEF Source, Latest
      <4> QED BY <1>3, <1>5, <1>9, <3>5, <4>1 DEF Keeps
    <3> HIDE DEF shut
    <3>8. /\ Keeps(shut, o)
          /\ OwnFinal(shut) /\ (shut.run # NoRun => shut.run.segment = NoSegment) => OwnFinal(o)
          /\ Source(shut) \in Sources /\ shut.sid # NoId
               /\ (shut.run # NoRun => shut.run.sid = shut.sid)
               => o.run # NoRun /\ o.run.sid = shut.sid /\ at \in o.run.written
      BY <1>7, <3>5, OnSessionStartKeeps
    <3>9. Between(o) /\ o.open = TRUE /\ o.at = at
      <4> DEFINE s == OnStart(shut, at)
      <4>1. /\ Between(s) /\ s.open = TRUE /\ s.at = at
            /\ s.run # NoRun => s.run.segment = at
        BY <1>7, <3>5, OnStartFields
      <4> HIDE DEF s
      <4>2. o = Record(s, at)
        BY DEF OnSessionStart, s
      <4> QED BY <1>7, <4>1, <4>2, RecordSound
    <3> HIDE DEF o, published
    <3> QED BY <1>1, <1>9, <3>4, <3>5, <3>6, <3>7, <3>8, <3>9 DEF Keeps
  <2> QED BY <1>6, <2>1, <2>2
<1> HIDE DEF published
<1>12. Keeps(updated, f) /\ f.open = TRUE /\ f.at = at
       /\ (calm => OwnFinal(f))
       /\ (fed => /\ f.run # NoRun /\ f.run.sid = r.sid /\ at \in f.run.written)
  <2>1. CASE ~eventful
    BY <1>2, <1>11, <2>1
  <2>2. CASE eventful
    <3> DEFINE w == Record(published, at)
    <3>1. f = w
      BY <1>2, <2>2
    <3>2. w.open = published.open /\ w.at = published.at
      <4>1. CASE published.run = NoRun
        BY <4>1 DEF Record
      <4>2. CASE published.run # NoRun
        BY <4>2, <1>11 DEF Record, Between, Races
      <4> QED BY <4>1, <4>2
    <3>3. /\ Keeps(published, w)
          /\ w.run = NoRun <=> published.run = NoRun
          /\ w.run # NoRun => /\ w.run.sid = published.run.sid
                              /\ w.run.written = published.run.written \cup {at}
          /\ OwnFinal(published) => OwnFinal(w)
      BY <1>7, <1>11, RecordKeeps
    <3> HIDE DEF w
    <3> QED BY <1>11, <3>1, <3>2, <3>3 DEF Keeps
  <2> QED BY <2>1, <2>2
<1> HIDE DEF f
<1>13. /\ f.stale = FALSE /\ f.sid = r.sid /\ f.schema = schema
       /\ Source(f) = Source(r) /\ (Balanced(r) => Balanced(f))
  <2>1. Source(updated) = Source(bound) /\ (Balanced(bound) => Balanced(updated))
    BY <1>9 DEF Source, Latest, Balanced
  <2> QED BY <1>1, <1>9, <1>12, <2>1 DEF Keeps
<1>14. fed => Feeding(f)
  BY <1>1, <1>5, <1>12, <1>13 DEF Feeding
<1> QED BY <1>12, <1>13, <1>14 DEF f, calm, fed, Framed

\* Coming into a session under an id the engine does not have ends what was open and
\* begins a run that waits for the first segment.
LEMMA OnInSessionKeeps ==
  ASSUME NEW r, Sound(r), NEW sid \in Nat, sid # NoId, r.run = NoRun, r.sid # sid,
         r.open => r.sid # NoId
  PROVE  LET i == OnInSession(r, sid)
         IN /\ i.open = FALSE /\ i.run = NewRun(sid, "live", NoSegment) /\ i.run # NoRun
            /\ i.sid = sid /\ Source(i) = "live"
            /\ Balanced(r) => Balanced(i)
            /\ OwnFinal(r) => OwnFinal(i)
<1> DEFINE e == IF r.sid # NoId /\ r.sid # sid THEN EndSegment(r) ELSE r
           named == [e EXCEPT !.sid = sid]
           b == Begin(named, sid, "live", NoSegment)
           i == [b EXCEPT !.stale = FALSE, !.suspended = FALSE]
<1>1. /\ Sound(e) /\ e.run = NoRun /\ e.open = FALSE
      /\ Balanced(r) => Balanced(e)
      /\ OwnFinal(r) => OwnFinal(e)
  <2>1. CASE r.sid # NoId
    <3> DEFINE x == EndSegment(r)
    <3>1. /\ Sound(x) /\ x.run = NoRun /\ ~x.open
          /\ Balanced(r) => Balanced(x)
          /\ OwnFinal(r) => OwnFinal(x)
      BY EndSegmentSound, EndSegmentKeeps DEF Keeps
    <3> HIDE DEF x
    <3>2. x.open = FALSE
      BY <3>1 DEF Sound, Races
    <3>3. e = x
      BY <2>1 DEF x
    <3> QED BY <3>1, <3>2, <3>3
  <2>2. CASE r.sid = NoId
    <3>1. r.open = FALSE
      BY <2>2 DEF Sound, Races
    <3> QED BY <2>2, <3>1
  <2> QED BY <2>1, <2>2
<1>2. SetSessionId(r, sid) = named
  BY DEF SetSessionId
<1> HIDE DEF e
<1>3. /\ Sound(named) /\ Between(named) /\ named.sid = sid
      /\ named.run = e.run /\ named.open = e.open /\ named.last = e.last
      /\ named.fired = e.fired /\ named.closed = e.closed /\ named.filed = e.filed
  BY <1>1 DEF Sound, Between, Races
<1>4. Sound(named) /\ named.run = NoRun /\ named.open = FALSE
      /\ (Balanced(r) => Balanced(named))
      /\ (OwnFinal(r) => OwnFinal(named))
  BY <1>1, <1>3 DEF Balanced, OwnFinal
<1>5. OnInSession(r, sid) = i
  <2>1. OpenSegment(named) = NoSegment
    BY <1>4 DEF OpenSegment
  <2> QED BY <1>2, <1>4, <2>1 DEF OnInSession
<1> HIDE DEF named
<1>6. /\ b.run = NewRun(sid, "live", NoSegment) /\ b.run # NoRun /\ Source(b) = "live"
      /\ b.sid = named.sid /\ b.open = FALSE /\ Between(b)
      /\ Balanced(named) => Balanced(b)
      /\ OwnFinal(named) => OwnFinal(b)
  <2>1. "live" \in Sources /\ NoSegment \in Nat
    BY DEF Sources, NoSegment
  <2> QED BY <1>3, <1>4, <2>1, BeginFields, BeginKeeps
<1> HIDE DEF b
<1>7. /\ i.run = b.run /\ i.sid = b.sid /\ i.open = b.open /\ i.last = b.last
      /\ i.fired = b.fired /\ i.closed = b.closed /\ i.filed = b.filed
  BY <1>6 DEF Between, Races
<1> HIDE DEF i
<1> QED BY <1>3, <1>4, <1>5, <1>6, <1>7 DEF Source, Latest, Balanced, OwnFinal

\* Losing a session closes its run and leaves its segment stale.
LEMMA OnDisconnectedKeeps ==
  ASSUME NEW r, Sound(r), Source(r) = "live"
  PROVE  LET d == OnDisconnected(r)
         IN /\ d.run = NoRun /\ d.stale = TRUE /\ d.open = r.open /\ d.sid = r.sid
            /\ Balanced(r) => Balanced(d)
            /\ OwnFinal(r) /\ Loose(r) => OwnFinal(d)
<1> DEFINE c == Close(r, r.at)
           d == [c EXCEPT !.stale = TRUE, !.suspended = TRUE]
<1>1. OnDisconnected(r) = d
  BY DEF OnDisconnected, Source, Latest, Close
<1>2. r.at \in Nat /\ Between(r)
  BY SoundIsBetween DEF Sound, Races
<1>3. r.run # NoRun /\ Loose(r) => r.run.segment \in {NoSegment, r.at}
  BY DEF Sound, Loose
<1>4. /\ Between(c) /\ c.run = NoRun /\ c.open = r.open /\ c.sid = r.sid
      /\ Balanced(r) => Balanced(c)
      /\ OwnFinal(r) /\ Loose(r) => OwnFinal(c)
  BY <1>2, <1>3, CloseFields, CloseKeeps DEF Keeps
<1> HIDE DEF c
<1>5. /\ d.stale = TRUE /\ d.run = c.run /\ d.open = c.open /\ d.sid = c.sid
      /\ d.fired = c.fired /\ d.closed = c.closed /\ d.filed = c.filed
  BY <1>4 DEF Between, Races
<1> HIDE DEF d
<1> QED BY <1>1, <1>4, <1>5 DEF Balanced, OwnFinal

LEMMA OnReplayBeginsKeeps ==
  ASSUME NEW r, Sound(r), NEW sid \in Nat, r.run = NoRun, ~r.open
  PROVE  LET b == OnReplayBegins(r, sid)
         IN /\ b.run = NewRun(sid, "replay", NoSegment) /\ Source(b) = "replay"
            /\ b.open = r.open /\ b.sid = r.sid
            /\ Balanced(r) => Balanced(b)
            /\ OwnFinal(r) => OwnFinal(b)
<1>1. "replay" \in Sources /\ NoSegment \in Nat
  BY DEF Sources, NoSegment
<1>2. OnReplayBegins(r, sid) = Begin(r, sid, "replay", NoSegment)
  BY DEF OnReplayBegins, OpenSegment
<1> QED BY <1>1, <1>2, SoundIsBetween, BeginFields, BeginKeeps

\* OnReplayEnds, and the first half of the shutdown: no segment and no run is left.
LEMMA SegmentOverKeeps ==
  ASSUME NEW r, Sound(r)
  PROVE  LET over == EndSegment(r)
             o == Close(over, over.at)
         IN /\ o.run = NoRun /\ ~o.open /\ o.sid = r.sid
            /\ Source(o) = Source(r)
            /\ Balanced(r) => Balanced(o)
            /\ OwnFinal(r) /\ Loose(r) => OwnFinal(o)
<1> DEFINE over == EndSegment(r)
<1>1. /\ Sound(over) /\ Between(over) /\ over.at \in Nat
      /\ Keeps(r, over) /\ ~over.open
      /\ Loose(r) => (over.run # NoRun => over.run.segment = NoSegment)
      /\ OwnFinal(r) => OwnFinal(over)
  BY EndSegmentSound, EndSegmentKeeps, SoundIsBetween DEF Sound, Races
<1> HIDE DEF over
<1> DEFINE o == Close(over, over.at)
<1>2. /\ o.run = NoRun /\ o.open = over.open /\ Keeps(over, o)
      /\ OwnFinal(over) /\ (over.run # NoRun => over.run.segment \in {NoSegment, over.at})
           => OwnFinal(o)
  BY <1>1, CloseFields, CloseKeeps
<1> HIDE DEF o
<1> QED BY <1>1, <1>2 DEF o, over, Keeps
-------------------------------------------------------------------------------
(***************************************************************************)
(* Control: where the poller is in its pass tells whether it has a session,*)
(* and only one feed is on.                                                *)
(***************************************************************************)
OneFeed == "blip" \notin Disturbances /\ "overlap" \notin Disturbances

InSession == poller.state = "in_session"

Steady ==
  /\ poller.at = "startup" => ~InSession /\ ~sim.on
  /\ PollerRuns /\ poller.at = "read" => InSession
  /\ PollerRuns /\ ~InSession /\ poller.at \in {"check", "open"} => poller.catalog = NoSub
  /\ PollerRuns /\ poller.stop => poller.leaving
  /\ ~PollerRuns => poller.at = "check"
  /\ ~PollerRuns /\ ~poller.leaving => ~InSession
  /\ replay # "idle" \/ starting => ~PollerRuns /\ ~poller.leaving

\* _set_state, as a change of the poller alone.
LEMMA SetStateMoves ==
  ASSUME NEW p, NEW state, NEW sid, SetState(p, state, sid)
  PROVE  poller' = [p EXCEPT !.state = state]
BY DEF SetState

LEMMA NextSteady == ASSUME OneFeed, Typed, Steady, [Next]_vars PROVE Steady'
<1> USE DEF InSession, PollerRuns
<1>1. ASSUME NEW sub \in Subsessions, Arrive(sub) PROVE Steady'
  BY <1>1 DEF Arrive, OneFeed, feedVars, Steady
<1>2. CASE Leave \/ NextSession \/ Restart \/ ClockRuns \/ NextSubsession
  <2>1. UNCHANGED feedVars /\ (~sim.on => ~sim'.on)
    BY <1>2 DEF Leave, NextSession, Restart, ClockRuns, NextSubsession, Typed
  <2> QED BY <2>1 DEF feedVars, Steady
<1>3. CASE CheckConnection
  <2> DEFINE p == [poller EXCEPT !.at = "startup"]
  <2>1. CASE sim.on
    BY <1>3, <2>1 DEF CheckConnection, pollerOthers, Typed, Steady
  <2>2. CASE ~sim.on
    <3>1. SetState(p, "disconnected", NoId) /\ UNCHANGED <<sim, replay, starting>>
          /\ poller.thread = "running"
      BY <1>3, <2>2 DEF CheckConnection, pollerOthers
    <3>2. poller' = [p EXCEPT !.state = "disconnected"]
      BY <3>1, SetStateMoves
    <3> QED BY <2>2, <3>1, <3>2 DEF Typed, Steady
  <2> QED BY <2>1, <2>2
<1>4. CASE Startup
  BY <1>4 DEF Startup, AfterStartup, pollerOthers, Typed, Steady
<1>5. CASE OpenOrKeep
  <2> DEFINE sid == store.ids + 1
             p == [poller EXCEPT !.at = "read", !.sid = sid, !.catalog = sim.sub,
                                 !.current = sim.sub, !.tracker = TRUE]
  <2>0. poller.thread = "running" /\ poller.at = "open" /\ UNCHANGED <<sim, replay, starting>>
    BY <1>5 DEF OpenOrKeep, pollerOthers
  <2>1. CASE Opens
    <3>1. SetState(p, "in_session", sid)
      BY <1>5, <2>1 DEF OpenOrKeep
    <3> HIDE DEF sid
    <3>2. poller' = [p EXCEPT !.state = "in_session"]
      BY <3>1, SetStateMoves
    <3> QED BY <2>0, <3>2 DEF Typed, Steady
  <2>2. CASE ~Opens
    BY <1>5, <2>0, <2>2 DEF OpenOrKeep, Opens, Typed, Steady
  <2> QED BY <2>1, <2>2
<1>6. CASE ReadTick
  BY <1>6 DEF ReadTick, pollerOthers, Typed, Steady
<1>7. CASE Finish
  BY <1>7 DEF Finish, pollerOthers, Typed, Steady
<1>8. CASE LiveStart
  BY <1>8 DEF LiveStart, Overlap, OneFeed, Typed, Steady
<1>9. CASE LiveStop
  BY <1>9 DEF LiveStop, StopRequested, Typed, Steady
<1>10. CASE LiveStopped
  <2> DEFINE p == [poller EXCEPT !.leaving = FALSE]
  <2>1. SetState(p, "disconnected", NoId) /\ UNCHANGED <<sim, replay, starting>>
        /\ poller.thread # "running" /\ poller.leaving
    BY <1>10 DEF LiveStopped, pollerOthers
  <2>2. poller' = [p EXCEPT !.state = "disconnected"]
    BY <2>1, SetStateMoves
  <2> QED BY <2>1, <2>2 DEF Typed, Steady
<1>11. CASE ReplayAsked
  BY <1>11 DEF ReplayAsked, replayOthers, Overlap, OneFeed, Steady
<1>12. CASE Replay
  <2>1. UNCHANGED <<sim, poller>> /\ (replay # "idle" \/ starting)
    BY <1>12 DEF Replay, ReplayStart, ReplayBegins, ReplayBinds, ReplayEnds, ReplayFrame,
                 replayOthers
  <2> QED BY <2>1 DEF Steady
<1>13. CASE CloseSegments
  BY <1>13 DEF CloseSegments, Steady
<1>14. CASE ClosePoller
  BY <1>14 DEF ClosePoller, StopRequested, Typed, Steady
<1>15. CASE UNCHANGED vars
  BY <1>15 DEF vars, Steady
<1> QED BY <1>1, <1>2, <1>3, <1>4, <1>5, <1>6, <1>7, <1>8, <1>9, <1>10, <1>11, <1>12,
           <1>13, <1>14, <1>15 DEF Next, Sim, PollerSteps
-------------------------------------------------------------------------------
(***************************************************************************)
(* The race, by what the feeds are doing.                                  *)
(***************************************************************************)
FeedSettled ==
  /\ Balanced(race)
  /\ Stored <= store.ids /\ race.sid <= store.ids
  /\ race.open => race.sid # NoId
  /\ InSession => Source(race) = "live" /\ Feeding(race)
  /\ ~InSession /\ replay \in {"idle", "starting"} => race.run = NoRun
  /\ ~InSession /\ replay = "idle" /\ race.open => race.stale
  /\ replay \in {"starting", "binding"} => ~race.open
  /\ replay = "binding" => race.run = NewRun(Stored, "replay", NoSegment)
  /\ replay = "running" => Source(race) = "replay" /\ Feeding(race)

LEMMA InitSettled == Init => Steady /\ FeedSettled
<1> SUFFICES ASSUME Init PROVE Steady /\ FeedSettled
  OBVIOUS
<1>1. Steady
  BY DEF Init, Steady, InSession, PollerRuns
<1>2. FeedSettled
  BY DEF Init, InitialRace, FeedSettled, Balanced, InSession, Stored, NoId
<1> QED BY <1>1, <1>2

\* A state the poller sets while no replay is on.
LEMMA SetStateSettles ==
  ASSUME NEW p, NEW state \in {"disconnected", "in_session"}, NEW sid \in Nat,
         Typed, Sound(race), FeedSettled, replay = "idle", replay' = "idle",
         p.state = poller.state, SetState(p, state, sid),
         poller' = [p EXCEPT !.state = state], poller'.state = state,
         state = "in_session" => race.sid < sid,
         race.sid <= store.ids, store'.ids \in Nat, store.ids <= store'.ids,
         state = "in_session" => sid <= store'.ids
  PROVE  FeedSettled'
<1>0. /\ race.sid \in Nat /\ store.ids \in Nat /\ Stored <= store'.ids
      /\ race.sid <= store'.ids
  BY DEF Sound, Races, Typed, FeedSettled, Stored
<1>1. CASE poller.state = state
  <2>1. race' = race
    BY <1>1 DEF SetState
  <2> QED BY <1>0, <1>1, <2>1 DEF FeedSettled, InSession
<1>2. CASE poller.state # state /\ state = "in_session"
  <2> DEFINE i == OnInSession(race, sid)
  <2>1. race' = i
    BY <1>2 DEF SetState
  <2>2. race.run = NoRun /\ Balanced(race) /\ (race.open => race.sid # NoId)
    BY <1>2 DEF FeedSettled, InSession, Typed
  <2>3. sid # NoId /\ race.sid # sid
    BY <1>0, <1>2 DEF NoId
  <2>4. /\ i.open = FALSE /\ i.run = NewRun(sid, "live", NoSegment)
        /\ i.sid = sid /\ Source(i) = "live" /\ Balanced(i)
    BY <2>2, <2>3, OnInSessionKeeps
  <2>5. i.run.sid = sid
    BY <2>4 DEF NewRun
  <2> HIDE DEF i
  <2>6. Feeding(race')
    BY <2>1, <2>3, <2>4, <2>5 DEF Feeding
  <2> QED BY <1>0, <1>2, <2>1, <2>4, <2>6 DEF FeedSettled, InSession
<1>3. CASE poller.state # state /\ state = "disconnected"
  <2> DEFINE d == OnDisconnected(race)
  <2>1. race' = d
    BY <1>3 DEF SetState
  <2>2. Source(race) = "live" /\ Balanced(race) /\ race.sid # NoId
    BY <1>3 DEF FeedSettled, InSession, Typed, Feeding
  <2>3. d.run = NoRun /\ d.stale = TRUE /\ d.sid = race.sid /\ Balanced(d)
    BY <2>2, OnDisconnectedKeeps
  <2> HIDE DEF d
  <2> QED BY <1>0, <1>3, <2>1, <2>2, <2>3 DEF FeedSettled, InSession
<1> QED BY <1>1, <1>2, <1>3

LEMMA NextSettled ==
  ASSUME OneFeed, Typed, Sound(race), Steady, FeedSettled, [Next]_vars
  PROVE  FeedSettled'
<1> USE LiveSessionAssumption
<1>0. /\ race.sid \in Nat /\ store.ids \in Nat
      /\ \A sub \in Subsessions : SchemaOf[sub] \in Schemas
      /\ StoredSchema \in Schemas /\ Stored \in Nat /\ Stored # NoId
      /\ race.sid <= store.ids
  <2>1. race.sid \in Nat /\ store.ids \in Nat
    BY DEF Sound, Races, Typed
  <2>2. \A sub \in Subsessions : SchemaOf[sub] \in Schemas
    BY DEF Subsessions
  <2>3. StoredSchema \in Schemas /\ Stored \in Nat /\ Stored # NoId
    BY DEF Stored, NoId
  <2> QED BY <2>1, <2>2, <2>3 DEF FeedSettled
<1>1. ASSUME race' = race, replay' = replay, store'.ids = store.ids,
             poller'.state = poller.state
      PROVE  FeedSettled'
  BY <1>1 DEF FeedSettled, InSession
<1>2. CASE Sim
  BY <1>1, <1>2 DEF Sim, Arrive, Leave, NextSession, Restart, ClockRuns, NextSubsession,
                    feedVars
<1>3. CASE CheckConnection
  <2> DEFINE p == [poller EXCEPT !.at = "startup"]
  <2>0. UNCHANGED <<replay, store>> /\ replay = "idle"
    BY <1>3 DEF CheckConnection, pollerOthers, Steady
  <2>1. CASE sim.on
    BY <1>1, <1>3, <2>0, <2>1 DEF CheckConnection, Typed
  <2>2. CASE ~sim.on
    <3>1. SetState(p, "disconnected", NoId) /\ NoId \in Nat /\ p.state = poller.state
      BY <1>3, <2>2 DEF CheckConnection, NoId, Typed
    <3>2. poller' = [p EXCEPT !.state = "disconnected"]
      BY <3>1, SetStateMoves
    <3>3. poller'.state = "disconnected"
      BY <3>2 DEF Typed
    <3> HIDE DEF p
    <3> QED BY <1>0, <2>0, <3>1, <3>2, <3>3, SetStateSettles
  <2> QED BY <2>1, <2>2
<1>4. CASE Startup
  BY <1>1, <1>4 DEF Startup, AfterStartup, pollerOthers, Typed
<1>5. CASE OpenOrKeep
  <2> DEFINE sid == store.ids + 1
             p == [poller EXCEPT !.at = "read", !.sid = sid, !.catalog = sim.sub,
                                 !.current = sim.sub, !.tracker = TRUE]
  <2>0. replay' = replay /\ replay = "idle"
    BY <1>5 DEF OpenOrKeep, pollerOthers, Steady
  <2>1. CASE Opens
    <3>1. SetState(p, "in_session", sid) /\ store'.ids = sid
      BY <1>5, <2>1 DEF OpenOrKeep
    <3>2. sid \in Nat /\ store.ids <= sid /\ race.sid < sid
      BY <1>0 DEF FeedSettled
    <3> HIDE DEF sid
    <3>3. poller' = [p EXCEPT !.state = "in_session"]
      BY <3>1, SetStateMoves
    <3>4. poller'.state = "in_session" /\ p.state = poller.state
      BY <3>3 DEF Typed
    <3> HIDE DEF p
    <3> QED BY <1>0, <2>0, <3>1, <3>2, <3>3, <3>4, SetStateSettles
  <2>2. CASE ~Opens
    BY <1>1, <1>5, <2>0, <2>2 DEF OpenOrKeep, Typed
  <2> QED BY <2>1, <2>2
<1>6. CASE ReadTick
  <2>1. /\ poller' = [poller EXCEPT !.at = "check"] /\ UNCHANGED <<sim, store, replay>>
        /\ InSession /\ replay = "idle" /\ InSession'
        /\ SchemaOf[poller.catalog] \in Schemas /\ sim.num \in Nat /\ sim.time \in Nat
    BY <1>0, <1>6 DEF ReadTick, pollerOthers, Steady, Typed, Times, InSession
  <2>2. CASE race' = race
    BY <1>1, <2>1, <2>2 DEF Typed
  <2>3. ASSUME NEW eventful \in BOOLEAN,
               race' = OnFrame(race, SchemaOf[poller.catalog], sim.num, sim.time, eventful)
        PROVE  FeedSettled'
    <3>1. Source(race) = "live" /\ Feeding(race) /\ Source(race) \in Sources
          /\ Balanced(race)
      BY <2>1 DEF FeedSettled, Sources
    <3> DEFINE schema == SchemaOf[poller.catalog]
               f == OnFrame(race, schema, sim.num, sim.time, eventful)
    <3>2. schema \in Schemas /\ race' = f
      BY <2>1, <2>3
    <3> HIDE DEF schema
    <3>3. Framed(race, f, schema)
      BY <2>1, <3>1, <3>2, OnFrameKeeps
    <3> HIDE DEF f
    <3> QED BY <2>1, <3>1, <3>2, <3>3 DEF FeedSettled, Feeding, Framed
  <2> QED BY <1>6, <2>2, <2>3 DEF ReadTick
<1>7. CASE Finish
  BY <1>1, <1>7 DEF Finish, pollerOthers, Typed
<1>8. CASE LiveStart \/ LiveStop
  BY <1>1, <1>8 DEF LiveStart, LiveStop, StopRequested, Typed
<1>9. CASE LiveStopped
  <2> DEFINE p == [poller EXCEPT !.leaving = FALSE]
  <2>1. SetState(p, "disconnected", NoId) /\ UNCHANGED <<replay, store>> /\ NoId \in Nat
        /\ replay = "idle" /\ p.state = poller.state
    BY <1>9 DEF LiveStopped, pollerOthers, NoId, Steady, Typed
  <2>2. poller' = [p EXCEPT !.state = "disconnected"]
    BY <2>1, SetStateMoves
  <2>3. poller'.state = "disconnected"
    BY <2>2 DEF Typed
  <2> HIDE DEF p
  <2> QED BY <1>0, <2>1, <2>2, <2>3, SetStateSettles
<1>10. CASE ReplayAsked \/ ClosePoller
  BY <1>1, <1>10 DEF ReplayAsked, replayOthers, ClosePoller, StopRequested, Typed
<1>11. CASE Replay
  <2>0. UNCHANGED <<poller, store>> /\ ~InSession /\ ~InSession'
    BY <1>11 DEF Replay, ReplayStart, ReplayBegins, ReplayBinds, ReplayEnds, ReplayFrame,
                 replayOthers, Steady, InSession
  <2>1. ASSUME ReplayStart PROVE FeedSettled'
    <3> DEFINE e == EngineReset(race)
               s == [e EXCEPT !.suspended = FALSE]
    <3>1. /\ Sound(e) /\ ~e.open /\ e.run = race.run /\ e.sid = NoId
          /\ Balanced(e) <=> Balanced(race)
      BY EngineResetSound, EngineResetKeeps
    <3>2. race' = s /\ replay' = "starting" /\ replay = "idle"
      BY <2>1 DEF ReplayStart
    <3> HIDE DEF e
    <3>3. /\ s.open = e.open /\ s.run = e.run /\ s.sid = e.sid
          /\ s.fired = e.fired /\ s.closed = e.closed
      BY <3>1 DEF Sound, Races
    <3> HIDE DEF s
    <3> QED BY <1>0, <2>0, <3>1, <3>2, <3>3 DEF FeedSettled, Balanced, NoId
  <2>2. ASSUME ReplayBegins PROVE FeedSettled'
    <3> DEFINE b == OnReplayBegins(race, Stored)
    <3>1. race' = b /\ replay' = "binding" /\ replay = "starting"
      BY <2>2 DEF ReplayBegins
    <3>2. /\ b.run = NewRun(Stored, "replay", NoSegment)
          /\ b.open = race.open /\ b.sid = race.sid /\ Balanced(b)
      BY <1>0, <2>0, <3>1, OnReplayBeginsKeeps DEF FeedSettled
    <3> HIDE DEF b
    <3> QED BY <1>0, <2>0, <3>1, <3>2 DEF FeedSettled
  <2>3. ASSUME ReplayBinds PROVE FeedSettled'
    <3> DEFINE b == BindCatalog(race, StoredSchema, Stored)
    <3>1. race' = b /\ replay' = "running" /\ replay = "binding"
      BY <2>3 DEF ReplayBinds
    <3>2. /\ ~b.open /\ b.run = race.run /\ b.sid = Stored /\ Source(b) = Source(race)
          /\ Balanced(b) <=> Balanced(race)
      BY <1>0, BindCatalogKeeps
    <3>3. race.run = NewRun(Stored, "replay", NoSegment)
      BY <3>1 DEF FeedSettled
    <3>4. race.run.sid = Stored /\ Source(race) = "replay"
      BY <3>3 DEF NewRun, NoRun, Source, Latest
    <3> HIDE DEF b
    <3> QED BY <1>0, <2>0, <3>1, <3>2, <3>4 DEF FeedSettled, Feeding
  <2>4. ASSUME NEW num \in 0..MaxNum, NEW time \in Times, ReplayFrame(num, time)
        PROVE  FeedSettled'
    <3>1. /\ num \in Nat /\ time \in Nat /\ replay = "running" /\ replay' = "running"
          /\ Source(race) = "replay" /\ Feeding(race) /\ Source(race) \in Sources
          /\ Balanced(race)
      BY <2>4 DEF Times, ReplayFrame, FeedSettled, Sources
    <3>2. PICK eventful \in BOOLEAN :
            race' = OnFrame(race, StoredSchema, num, time, eventful)
      BY <2>4 DEF ReplayFrame
    <3> DEFINE f == OnFrame(race, StoredSchema, num, time, eventful)
    <3>3. Framed(race, f, StoredSchema)
      BY <1>0, <3>1, OnFrameKeeps
    <3>4. race' = f
      BY <3>2
    <3> HIDE DEF f
    <3> QED BY <2>0, <3>1, <3>3, <3>4 DEF FeedSettled, Feeding, Framed
  <2>5. ASSUME ReplayEnds PROVE FeedSettled'
    <3>1. race' = OnReplayEnds(race) /\ replay' = "idle"
      BY <2>5 DEF ReplayEnds
    <3>2. race'.run = NoRun /\ ~race'.open /\ race'.sid = race.sid
          /\ (Balanced(race) => Balanced(race'))
      BY <3>1, SegmentOverKeeps DEF OnReplayEnds
    <3> QED BY <2>0, <3>1, <3>2 DEF FeedSettled
  <2> QED BY <1>11, <2>1, <2>2, <2>3, <2>4, <2>5 DEF Replay
<1>12. CASE CloseSegments
  <2>1. /\ race'.run = NoRun /\ ~race'.open /\ race'.sid = race.sid
        /\ Source(race') = Source(race)
        /\ Balanced(race) => Balanced(race')
    BY <1>12, SegmentOverKeeps DEF CloseSegments
  <2>2. UNCHANGED <<poller, replay, store>> /\ replay = "idle"
    BY <1>12 DEF CloseSegments
  <2> QED BY <2>1, <2>2 DEF FeedSettled, Feeding, InSession
<1>13. CASE UNCHANGED vars
  BY <1>1, <1>13 DEF vars
<1> QED BY <1>2, <1>3, <1>4, <1>5, <1>6, <1>7, <1>8, <1>9, <1>10, <1>11, <1>12, <1>13
        DEF Next, PollerSteps
-------------------------------------------------------------------------------
(***************************************************************************)
(* The catalog: while a segment is open it is the feed's, so no frame      *)
(* forgets the segment under its run.                                      *)
(***************************************************************************)
CatalogFits ==
  /\ OwnFinal(race) /\ Loose(race)
  /\ InSession /\ PollerRuns =>
       /\ poller.catalog # NoSub
       /\ SchemaOf[sim.sub] = SchemaOf[poller.catalog]
       /\ race.open => race.schema = SchemaOf[poller.catalog]
  /\ replay = "running" => race.schema = StoredSchema

LEMMA InitFits == Init => CatalogFits
BY DEF Init, InitialRace, CatalogFits, OwnFinal, Loose, InSession, PollerRuns, NoRun

\* What a change of the poller's state leaves of a run: nothing, or one that waits.
LEMMA SetStateFits ==
  ASSUME NEW p, NEW state \in {"disconnected", "in_session"}, NEW sid \in Nat,
         Typed, Sound(race), FeedSettled, CatalogFits, replay = "idle",
         p.state = poller.state, SetState(p, state, sid),
         state = "in_session" => race.sid < sid
  PROVE  /\ OwnFinal(race') /\ Loose(race')
         /\ poller.state = state => race' = race
         /\ poller.state # state /\ state = "in_session" => ~race'.open
<1>0. race.sid \in Nat /\ OwnFinal(race) /\ Loose(race)
  BY DEF Sound, Races, CatalogFits
<1>1. CASE poller.state = state
  BY <1>0, <1>1 DEF SetState
<1>2. CASE poller.state # state /\ state = "in_session"
  <2> DEFINE i == OnInSession(race, sid)
  <2>1. race' = i
    BY <1>2 DEF SetState
  <2>2. race.run = NoRun /\ (race.open => race.sid # NoId)
    BY <1>2 DEF FeedSettled, InSession, Typed
  <2>3. sid # NoId /\ race.sid # sid
    BY <1>0, <1>2 DEF NoId
  <2>4. i.open = FALSE /\ i.run = NewRun(sid, "live", NoSegment) /\ OwnFinal(i)
    BY <1>0, <2>2, <2>3, OnInSessionKeeps
  <2>5. i.run.segment = NoSegment
    BY <2>4 DEF NewRun
  <2> HIDE DEF i
  <2> QED BY <1>2, <2>1, <2>4, <2>5 DEF Loose
<1>3. CASE poller.state # state /\ state = "disconnected"
  <2> DEFINE d == OnDisconnected(race)
  <2>1. race' = d
    BY <1>3 DEF SetState
  <2>2. Source(race) = "live"
    BY <1>3 DEF FeedSettled, InSession, Typed
  <2>3. d.run = NoRun /\ OwnFinal(d)
    BY <1>0, <2>2, OnDisconnectedKeeps
  <2> HIDE DEF d
  <2> QED BY <1>3, <2>1, <2>3 DEF Loose
<1> QED BY <1>1, <1>2, <1>3

LEMMA NextFits ==
  ASSUME OneFeed, "car" \notin Disturbances,
         Typed, Sound(race), Steady, FeedSettled, CatalogFits, [Next]_vars
  PROVE  CatalogFits'
<1> USE LiveSessionAssumption
<1>0. /\ race.sid \in Nat /\ store.ids \in Nat /\ race.sid <= store.ids
      /\ OwnFinal(race) /\ Loose(race)
      /\ \A sub \in Subsessions : SchemaOf[sub] \in Schemas /\ sub # NoSub
      /\ StoredSchema \in Schemas /\ Stored \in Nat
  <2>1. race.sid \in Nat /\ store.ids \in Nat
    BY DEF Sound, Races, Typed
  <2>2. race.sid <= store.ids
    BY DEF FeedSettled
  <2>3. OwnFinal(race) /\ Loose(race)
    BY DEF CatalogFits
  <2>4. \A sub \in Subsessions : SchemaOf[sub] \in Schemas /\ sub # NoSub
    BY DEF Subsessions, NoSub
  <2>5. StoredSchema \in Schemas /\ Stored \in Nat
    BY DEF Stored
  <2> QED BY <2>1, <2>2, <2>3, <2>4, <2>5
<1>1. CASE Sim
  <2>1. UNCHANGED feedVars
    BY <1>1 DEF Sim, Arrive, Leave, NextSession, Restart, ClockRuns, NextSubsession
  <2>2. InSession /\ PollerRuns => SchemaOf[sim'.sub] = SchemaOf[sim.sub]
    <3>1. ASSUME NEW sub \in Subsessions, Arrive(sub), InSession, PollerRuns
          PROVE  SchemaOf[sim'.sub] = SchemaOf[sim.sub]
      BY <3>1, "car" \notin Disturbances
      DEF Arrive, Unseen, MayFollow, InSession, PollerRuns, Typed
    <3>2. ASSUME NextSubsession, InSession, PollerRuns
          PROVE  SchemaOf[sim'.sub] = SchemaOf[sim.sub]
      <4> DEFINE n == sim.sub + 1
      <4>1. sim' = [on |-> TRUE, sub |-> n, num |-> 0, time |-> 0] /\ MayFollow(n)
        BY <3>2 DEF NextSubsession, Unseen, InSession, PollerRuns
      <4> HIDE DEF n
      <4> QED BY <4>1 DEF MayFollow
    <3>3. ASSUME Leave \/ NextSession \/ Restart \/ ClockRuns PROVE sim'.sub = sim.sub
      BY <3>3 DEF Leave, NextSession, Restart, ClockRuns, Typed
    <3> QED BY <1>1, <3>1, <3>2, <3>3 DEF Sim
  <2> QED BY <2>1, <2>2 DEF feedVars, CatalogFits, InSession, PollerRuns
<1>2. CASE CheckConnection
  <2> DEFINE p == [poller EXCEPT !.at = "startup"]
  <2>0. UNCHANGED <<sim, replay>> /\ replay = "idle"
    BY <1>2 DEF CheckConnection, pollerOthers, Steady
  <2>1. CASE sim.on
    BY <1>2, <2>0, <2>1 DEF CheckConnection, CatalogFits, InSession, PollerRuns, Typed
  <2>2. CASE ~sim.on
    <3>1. SetState(p, "disconnected", NoId) /\ NoId \in Nat /\ p.state = poller.state
      BY <1>2, <2>2 DEF CheckConnection, NoId, Typed
    <3>2. poller' = [p EXCEPT !.state = "disconnected"]
      BY <3>1, SetStateMoves
    <3>3. poller'.state = "disconnected"
      BY <3>2 DEF Typed
    <3> HIDE DEF p
    <3>4. OwnFinal(race') /\ Loose(race')
      BY <2>0, <3>1, SetStateFits
    <3> QED BY <2>0, <3>3, <3>4 DEF CatalogFits, InSession
  <2> QED BY <2>1, <2>2
<1>3. CASE Startup
  BY <1>3 DEF Startup, AfterStartup, pollerOthers, Steady, CatalogFits, InSession, PollerRuns,
              Typed
<1>4. CASE OpenOrKeep
  <2> DEFINE sid == store.ids + 1
             p == [poller EXCEPT !.at = "read", !.sid = sid, !.catalog = sim.sub,
                                 !.current = sim.sub, !.tracker = TRUE]
  <2>0. UNCHANGED <<sim, replay>> /\ replay = "idle" /\ PollerRuns
    BY <1>4 DEF OpenOrKeep, pollerOthers, Steady
  <2>1. CASE Opens
    <3>1. SetState(p, "in_session", sid)
      BY <1>4, <2>1 DEF OpenOrKeep
    <3>2. sid \in Nat /\ race.sid < sid
      BY <1>0
    <3> HIDE DEF sid
    <3>3. poller' = [p EXCEPT !.state = "in_session"]
      BY <3>1, SetStateMoves
    <3>4. /\ poller'.catalog = sim.sub /\ sim.sub \in Subsessions /\ p.state = poller.state
      BY <3>3 DEF Typed
    <3> HIDE DEF p
    <3>5. /\ OwnFinal(race') /\ Loose(race')
          /\ poller.state = "in_session" => race' = race
          /\ poller.state # "in_session" => ~race'.open
      BY <2>0, <3>1, <3>2, <3>4, SetStateFits
    <3> QED BY <1>0, <2>0, <3>4, <3>5 DEF CatalogFits, InSession
  <2>2. CASE ~Opens
    BY <1>4, <2>0, <2>2 DEF OpenOrKeep, CatalogFits, InSession, PollerRuns, Typed
  <2> QED BY <2>1, <2>2
<1>5. CASE ReadTick
  <2>1. /\ poller' = [poller EXCEPT !.at = "check"] /\ UNCHANGED <<sim, replay>>
        /\ InSession /\ PollerRuns /\ replay = "idle"
        /\ SchemaOf[poller.catalog] \in Schemas /\ sim.num \in Nat /\ sim.time \in Nat
    BY <1>0, <1>5 DEF ReadTick, pollerOthers, Steady, Typed, Times, InSession
  <2>2. poller'.catalog = poller.catalog
    BY <2>1 DEF Typed
  <2>3. CASE race' = race
    BY <2>1, <2>2, <2>3 DEF CatalogFits, InSession, PollerRuns
  <2>4. ASSUME NEW eventful \in BOOLEAN,
               race' = OnFrame(race, SchemaOf[poller.catalog], sim.num, sim.time, eventful)
        PROVE  CatalogFits'
    <3> DEFINE schema == SchemaOf[poller.catalog]
               f == OnFrame(race, schema, sim.num, sim.time, eventful)
    <3>1. /\ schema \in Schemas /\ race' = f
          /\ race.open => race.schema = schema
      BY <2>1, <2>4 DEF CatalogFits
    <3>2. schema = SchemaOf[poller'.catalog] /\ poller'.catalog # NoSub
          /\ SchemaOf[sim'.sub] = schema
      BY <2>1, <2>2 DEF CatalogFits
    <3> HIDE DEF schema
    <3>3. Framed(race, f, schema)
      BY <2>1, <3>1, OnFrameKeeps
    <3> HIDE DEF f
    <3> QED BY <1>0, <2>1, <3>1, <3>2, <3>3 DEF CatalogFits, Framed, Loose
  <2> QED BY <1>5, <2>3, <2>4 DEF ReadTick
<1>6. CASE Finish
  BY <1>6 DEF Finish, pollerOthers, CatalogFits, PollerRuns, Typed
<1>7. CASE LiveStart
  BY <1>7 DEF LiveStart, Overlap, OneFeed, Steady, CatalogFits, InSession, PollerRuns, Typed
<1>8. CASE LiveStop \/ ReplayAsked \/ ClosePoller
  BY <1>8 DEF LiveStop, ReplayAsked, replayOthers, ClosePoller, StopRequested, CatalogFits,
              InSession, PollerRuns, Typed
<1>9. CASE LiveStopped
  <2> DEFINE p == [poller EXCEPT !.leaving = FALSE]
  <2>1. SetState(p, "disconnected", NoId) /\ UNCHANGED replay /\ NoId \in Nat
        /\ replay = "idle" /\ p.state = poller.state
    BY <1>9 DEF LiveStopped, pollerOthers, NoId, Steady, Typed
  <2>2. poller' = [p EXCEPT !.state = "disconnected"]
    BY <2>1, SetStateMoves
  <2>3. poller'.state = "disconnected"
    BY <2>2 DEF Typed
  <2> HIDE DEF p
  <2>4. OwnFinal(race') /\ Loose(race')
    BY <2>1, SetStateFits
  <2> QED BY <2>1, <2>3, <2>4 DEF CatalogFits, InSession
<1>10. CASE Replay
  <2>0. UNCHANGED <<sim, poller>> /\ ~InSession /\ ~InSession'
    BY <1>10 DEF Replay, ReplayStart, ReplayBegins, ReplayBinds, ReplayEnds, ReplayFrame,
                 replayOthers, Steady, InSession
  <2>1. ASSUME ReplayStart PROVE CatalogFits'
    <3> DEFINE e == EngineReset(race)
               s == [e EXCEPT !.suspended = FALSE]
    <3>1. Sound(e) /\ e.run = race.run /\ (OwnFinal(e) <=> OwnFinal(race))
      BY EngineResetSound, EngineResetKeeps
    <3>2. race' = s /\ replay' = "starting" /\ race.run = NoRun
      BY <2>0, <2>1 DEF ReplayStart, FeedSettled
    <3> HIDE DEF e
    <3>3. s.run = e.run /\ s.filed = e.filed
      BY <3>1 DEF Sound, Races
    <3> HIDE DEF s
    <3> QED BY <1>0, <2>0, <3>1, <3>2, <3>3 DEF CatalogFits, OwnFinal, Loose
  <2>2. ASSUME ReplayBegins PROVE CatalogFits'
    <3> DEFINE b == OnReplayBegins(race, Stored)
    <3>1. race' = b /\ replay' = "binding" /\ race.run = NoRun /\ ~race.open
      BY <2>0, <2>2 DEF ReplayBegins, FeedSettled
    <3>2. b.run = NewRun(Stored, "replay", NoSegment) /\ OwnFinal(b)
      BY <1>0, <3>1, OnReplayBeginsKeeps
    <3>3. b.run.segment = NoSegment
      BY <3>2 DEF NewRun
    <3> HIDE DEF b
    <3> QED BY <2>0, <3>1, <3>2, <3>3 DEF CatalogFits, Loose
  <2>3. ASSUME ReplayBinds PROVE CatalogFits'
    <3> DEFINE b == BindCatalog(race, StoredSchema, Stored)
    <3>1. race' = b /\ replay = "binding"
      BY <2>3 DEF ReplayBinds
    <3>2. b.run = race.run /\ b.schema = StoredSchema /\ (OwnFinal(b) <=> OwnFinal(race))
      BY <1>0, BindCatalogKeeps
    <3>3. race.run.segment = NoSegment
      BY <3>1 DEF FeedSettled, NewRun
    <3> HIDE DEF b
    <3> QED BY <1>0, <2>0, <3>1, <3>2, <3>3 DEF CatalogFits, Loose
  <2>4. ASSUME NEW num \in 0..MaxNum, NEW time \in Times, ReplayFrame(num, time)
        PROVE  CatalogFits'
    <3>1. /\ num \in Nat /\ time \in Nat /\ replay = "running"
          /\ race.schema = StoredSchema
      BY <2>4 DEF Times, ReplayFrame, CatalogFits
    <3>2. PICK eventful \in BOOLEAN :
            race' = OnFrame(race, StoredSchema, num, time, eventful)
      BY <2>4 DEF ReplayFrame
    <3> DEFINE f == OnFrame(race, StoredSchema, num, time, eventful)
    <3>3. Framed(race, f, StoredSchema)
      BY <1>0, <3>1, OnFrameKeeps
    <3>4. race' = f
      BY <3>2
    <3> HIDE DEF f
    <3> QED BY <1>0, <2>0, <3>1, <3>3, <3>4 DEF CatalogFits, Framed, Loose
  <2>5. ASSUME ReplayEnds PROVE CatalogFits'
    <3>1. race' = OnReplayEnds(race) /\ replay' = "idle"
      BY <2>5 DEF ReplayEnds
    <3>2. race'.run = NoRun /\ OwnFinal(race')
      BY <1>0, <3>1, SegmentOverKeeps DEF OnReplayEnds
    <3> QED BY <2>0, <3>1, <3>2 DEF CatalogFits, Loose
  <2> QED BY <1>10, <2>1, <2>2, <2>3, <2>4, <2>5 DEF Replay
<1>11. CASE CloseSegments
  <2>1. race'.run = NoRun /\ ~race'.open /\ OwnFinal(race')
    BY <1>0, <1>11, SegmentOverKeeps DEF CloseSegments
  <2>2. UNCHANGED <<sim, poller, replay>> /\ replay = "idle"
    BY <1>11 DEF CloseSegments
  <2> QED BY <2>1, <2>2 DEF CatalogFits, Loose, InSession, PollerRuns
<1>12. CASE UNCHANGED vars
  BY <1>12 DEF vars, CatalogFits, InSession, PollerRuns
<1> QED BY <1>1, <1>2, <1>3, <1>4, <1>5, <1>6, <1>7, <1>8, <1>9, <1>10, <1>11, <1>12
        DEF Next, PollerSteps
-------------------------------------------------------------------------------
(***************************************************************************)
(* The theorems.                                                           *)
(***************************************************************************)
Inv == Typed /\ Kept /\ Sound(race) /\ Steady /\ FeedSettled

LEMMA InvHolds == ASSUME OneFeed PROVE Spec => []Inv
<1>1. Init => Inv
  BY InitTyped, InitSettled DEF Inv
<1>2. Inv /\ [Next]_vars => Inv'
  BY NextTyped, NextSteady, NextSettled DEF Inv
<1> QED BY <1>1, <1>2, PTL DEF Spec

\* SegmentJournal's close: with one feed at a time and every lost connection seen, no run
\* is closed by the recorder alone, so each fires its session-end hooks, once.
THEOREM ClosedRunsFire == ASSUME OneFeed PROVE Spec => []EveryClosedRunFires
<1>1. Inv => EveryClosedRunFires
  BY DEF Inv, FeedSettled, Balanced, EveryClosedRunFires
<1> QED BY <1>1, InvHolds, PTL

\* on_state: whatever was open when the poller lost or stopped its feed is marked stale.
THEOREM GoneIsStale == ASSUME OneFeed PROVE Spec => []FrozenIsStale
<1>1. Inv => FrozenIsStale
  BY DEF Inv, FeedSettled, InSession, FrozenIsStale
<1> QED BY <1>1, InvHolds, PTL

\* The engine, SegmentJournal and the recorder together: the open segment of the feed that
\* is on is being journaled from its session_start, under the engine's session id, in a
\* run of that feed's kind - also when a subsession of another car follows unseen.
THEOREM FeedsAreJournaled == ASSUME OneFeed PROVE Spec => []FeedIsJournaled
<1>1. Inv => FeedIsJournaled
  <2> SUFFICES ASSUME Inv, race.open,
                      replay = "running" \/ (PollerRuns /\ poller.state = "in_session")
               PROVE  /\ race.run # NoRun
                      /\ race.run.segment = race.at
                      /\ race.at \in race.run.written
                      /\ race.run.sid = race.sid
                      /\ race.run.source = IF replay = "running" THEN "replay" ELSE "live"
    BY DEF FeedIsJournaled
  <2>1. Feeding(race)
    BY DEF Inv, FeedSettled, InSession
  <2>2. race.run # NoRun /\ race.at \in race.run.written /\ race.run.sid = race.sid
    BY <2>1 DEF Feeding
  <2>3. race.run.segment = race.at
    BY <2>2 DEF Inv, Sound
  <2>4. race.run.source = IF replay = "running" THEN "replay" ELSE "live"
    BY <2>2 DEF Inv, FeedSettled, InSession, Source, Latest
  <2> QED BY <2>2, <2>3, <2>4
<1> QED BY <1>1, InvHolds, PTL

\* SegmentJournal.close and engine.on_frame: when no other car follows unseen as well, the
\* state a run ends with is that of its own segment.
THEOREM FinalStates ==
  ASSUME OneFeed, "car" \notin Disturbances PROVE Spec => []FinalStateIsItsOwn
<1>1. Init => Inv /\ CatalogFits
  BY InitTyped, InitSettled, InitFits DEF Inv
<1>2. Inv /\ CatalogFits /\ [Next]_vars => Inv' /\ CatalogFits'
  BY NextTyped, NextSteady, NextSettled, NextFits DEF Inv
<1>3. CatalogFits => FinalStateIsItsOwn
  BY DEF CatalogFits, OwnFinal, FinalStateIsItsOwn
<1> QED BY <1>1, <1>2, <1>3, PTL DEF Spec
===============================================================================
