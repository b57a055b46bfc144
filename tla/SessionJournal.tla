---------------------------- MODULE SessionJournal ----------------------------
(***************************************************************************)
(* What one frame, one connection change or one replay boundary does to    *)
(* the race: the engine's segment (rtv.racestate.engine and .lifecycle),   *)
(* the journal run (rtv.store.journal), services.SegmentJournal between    *)
(* them, the session-end hooks, and the agent layer's suspension.          *)
(*                                                                         *)
(* Each handler calls the next synchronously, on the thread of its caller, *)
(* so each is a function from race to race and LiveSession says who calls  *)
(* them when.  A race has the fields                                       *)
(*   sid, schema, stale  the session the engine is named, the catalog it   *)
(*                       is bound to, RaceState.stale                      *)
(*   open, num, time     the lifecycle: segment open, SessionNum, clock    *)
(*   begun               segments begun, never reset (a history field)     *)
(*   at                  the segment the RaceState describes, by that      *)
(*                       count; NoSegment after a reset                    *)
(*   suspended           the agents stand down                             *)
(*   run                 the open journal run, or NoRun                    *)
(*   last                SegmentJournal._last                              *)
(*   closed, fired       runs closed, hooks fired                          *)
(*   filed               the last closed run, and the segment its final    *)
(*                       state describes (a history field)                 *)
(***************************************************************************)
EXTENDS Integers

CONSTANT Schemas  \* what catalogs' schema hashes tell apart

NoSegment == 0
NoId == 0
NoSchema == "none"

ASSUME SchemasAssumption == NoSchema \notin Schemas

NoRun == [source |-> "none"]

NewRun(sid, source, segment) ==
  [source |-> source, sid |-> sid, segment |-> segment, written |-> {}]

Runs == [source : {"live", "replay"}, sid : Nat, segment : Nat, written : SUBSET Nat]

Races ==
  [sid : Nat, schema : Schemas \cup {NoSchema}, stale : BOOLEAN,
   open : BOOLEAN, num : Nat, time : Nat, begun : Nat, at : Nat,
   suspended : BOOLEAN, run : Runs \cup {NoRun}, last : Runs \cup {NoRun},
   closed : Nat, fired : Nat, filed : [run : Runs \cup {NoRun}, final : Nat]]

InitialRace ==
  [sid |-> NoId, schema |-> NoSchema, stale |-> FALSE,
   open |-> FALSE, num |-> 0, time |-> 0, begun |-> 0, at |-> NoSegment,
   suspended |-> FALSE, run |-> NoRun, last |-> NoRun, closed |-> 0, fired |-> 0,
   filed |-> [run |-> NoRun, final |-> NoSegment]]
-------------------------------------------------------------------------------
(***************************************************************************)
(* The recorder and SegmentJournal.                                        *)
(***************************************************************************)
\* SessionRecorder.end: final is the segment of the state it writes last.
RecorderEnd(r, final) ==
  IF r.run = NoRun THEN r
  ELSE [r EXCEPT !.run = NoRun, !.closed = @ + 1,
                 !.filed = [run |-> r.run, final |-> final]]

\* SegmentJournal.close
Close(r, final) ==
  IF r.run = NoRun THEN r
  ELSE [RecorderEnd(r, final) EXCEPT !.fired = @ + 1, !.last = r.run]

\* SessionRecorder.begin closes an open run itself, without the hook.
Begin(r, sid, source, segment) ==
  [RecorderEnd(r, r.at) EXCEPT !.run = NewRun(sid, source, segment)]

\* SessionRecorder.on_race_event, for an event of that segment.
Record(r, segment) ==
  IF r.run = NoRun THEN r ELSE [r EXCEPT !.run.written = @ \cup {segment}]

\* SegmentJournal.segment
OpenSegment(r) == IF r.open THEN r.at ELSE NoSegment

\* SegmentJournal._on_start: the agent layer is reset (which resumes it), and the
\* segment gets the run that has none yet, or a run of its own.
Annotates(r) == r.run # NoRun /\ r.run.segment = NoSegment

OnStart(r, segment) ==
  LET fresh == [r EXCEPT !.suspended = FALSE]
      last == IF r.run # NoRun THEN r.run ELSE r.last
      sid == IF r.sid # NoId \/ last = NoRun THEN r.sid ELSE last.sid
  IN IF Annotates(r) THEN [fresh EXCEPT !.run.segment = segment]
     ELSE IF last = NoRun \/ sid = NoId THEN Close(fresh, fresh.at)
     ELSE Begin(Close(fresh, fresh.at), sid, last.source, segment)

\* SegmentJournal.on_race_event: the run is opened before the start is written and
\* closed, with the state the segment ended in, after the end is.
OnSessionStart_RecordFirst(r, segment) == OnStart(Record(r, segment), segment)
OnSessionStart(r, segment) == Record(OnStart(r, segment), segment)

OnSessionEnd_LeavesOpen(r, segment) == Record(r, segment)
OnSessionEnd(r, segment) == Close(Record(r, segment), segment)
-------------------------------------------------------------------------------
(***************************************************************************)
(* The engine.                                                             *)
(***************************************************************************)
\* end_segment, also from set_session_id.
EndSegment(r) == IF r.open THEN OnSessionEnd([r EXCEPT !.open = FALSE], r.at) ELSE r

SetSessionId(r, sid) ==
  [(IF r.sid # NoId /\ r.sid # sid THEN EndSegment(r) ELSE r) EXCEPT !.sid = sid]

\* reset() forgets the lifecycle without ending it.
EngineReset(r) ==
  [r EXCEPT !.sid = NoId, !.stale = FALSE, !.open = FALSE, !.at = NoSegment]

BindCatalog(r, schema, sid) == [EngineReset(r) EXCEPT !.schema = schema, !.sid = sid]

\* SessionLifecycle.boundary, for a frame of session num at that time.
Boundary(r, num, time) ==
  IF ~r.open THEN "start"
  ELSE IF num # r.num THEN "session_num_changed"
  ELSE IF time < r.time THEN "clock_reset"
  ELSE "none"

\* The boundary's events: what ended (NoSegment: nothing), then what starts.
PublishBoundary_StartFirst(r, old, new) ==
  LET started == OnSessionStart(r, new)
  IN IF old = NoSegment THEN started ELSE OnSessionEnd(started, old)
PublishBoundary(r, old, new) ==
  OnSessionStart(IF old = NoSegment THEN r ELSE OnSessionEnd(r, old), new)

\* on_frame: the whole update first, then its events in order, off the lock.
OnFrame(r, schema, num, time, eventful) ==
  LET bound == IF schema = r.schema THEN r ELSE BindCatalog(r, schema, r.sid)
      begins == Boundary(bound, num, time) # "none"
      begun == IF begins THEN bound.begun + 1 ELSE bound.begun
      at == IF begins THEN begun ELSE bound.at
      updated == [bound EXCEPT !.stale = FALSE, !.open = TRUE, !.num = num, !.time = time,
                               !.begun = begun, !.at = at]
      published == IF begins THEN PublishBoundary(updated, OpenSegment(bound), at) ELSE updated
  IN IF eventful THEN Record(published, at) ELSE published
-------------------------------------------------------------------------------
(***************************************************************************)
(* services: on_state for the live feed, on_replay for a replay.           *)
(***************************************************************************)
OnInSession(r, sid) ==
  LET named == SetSessionId(r, sid)
      mine == IF named.run # NoRun /\ named.run.sid # sid THEN Close(named, named.at) ELSE named
      journaled == IF mine.run = NoRun THEN Begin(mine, sid, "live", OpenSegment(mine)) ELSE mine
  IN [journaled EXCEPT !.stale = FALSE, !.suspended = FALSE]

OnDisconnected_NoHook(r) == [RecorderEnd(r, r.at) EXCEPT !.stale = TRUE, !.suspended = TRUE]
OnDisconnected_AgentsOnly(r) == [Close(r, r.at) EXCEPT !.suspended = TRUE]
OnDisconnected(r) ==
  LET shut == IF r.run # NoRun /\ r.run.source = "live" THEN Close(r, r.at) ELSE r
  IN [shut EXCEPT !.stale = TRUE, !.suspended = TRUE]

OnReplayBegins(r, sid) == Begin(r, sid, "replay", OpenSegment(r))
OnReplayEnds(r) == LET over == EndSegment(r) IN Close(over, over.at)
===============================================================================
