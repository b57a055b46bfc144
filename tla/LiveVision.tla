----------------------------- MODULE LiveVision -----------------------------
(* The live VLM (vision/live_worker.py): a flagged race event is admitted on   *)
(* the thread that published it, waits in a queue for the worker's thread, is  *)
(* looked at by the model, published on the bus and filed in the journal of    *)
(* its run.  A run is one capture or one replay of a session; it is closed     *)
(* from a third thread, whatever the worker is doing.  The model calls are     *)
(* paid out of the budget the pitwall's agents spend too.                      *)
EXTENDS Integers, Sequences, FiniteSets

CONSTANTS Sessions,
          Nobody,
          MaxCalls,   \* RTV_VISION_LIVE_MAX_CALLS
          Budget,     \* RTV_PITWALL_MAX_CALLS_PER_SESSION
          MinGap,     \* RTV_VISION_LIVE_MIN_GAP_S
          MaxTime,    \* bounds the clock of the model
          MaxRuns,    \* bounds the captures and replays of the model
          MaxRecords  \* bounds the over-budget records of a run

ASSUME BoundsAssumption == /\ MaxCalls \in Nat \ {0} /\ Budget \in Nat \ {0}
                           /\ {MinGap, MaxTime, MaxRuns, MaxRecords} \subseteq Nat
                           /\ Nobody \notin Sessions

VARIABLES session,  \* the session the engine consumes
          source,   \* the session a capture or a synced video covers
          time,
          runs,     \* every live run opened, oldest first
          open,     \* _runs: the open run of a session, 0 if none
          queue,    \* _queue, a moment as its run; 0 is stop()'s None
          worker,   \* what the worker's thread is doing
          moment,   \* to a moment of this run, 0 if to none
          pending,  \* moments admitted and not settled, as the worker counts them
          spent,    \* the shared budget's count of calls
          phase     \* "running", "stopping" after stop() queued its None, "stopped"

vars == <<session, source, time, runs, open, queue, worker, moment, pending, spent, phase>>

Never == -1
Busy == {"waiting", "calling", "answered", "filing", "settling"}
Stages == Busy \cup {"idle", "over"}

Init == /\ session \in Sessions /\ source = Nobody /\ time = 0
        /\ runs = <<>> /\ open = [s \in Sessions |-> 0]
        /\ queue = <<>> /\ worker = "idle" /\ moment = 0
        /\ pending = 0 /\ spent = 0 /\ phase = "running"

--------------------------------------------------------------------------
(* A run and its journal *)

\* shown: moments of the run whose observations went to the bus.
NewRun(s) == [session |-> s, open |-> TRUE, calls |-> 0, lastT |-> Never, shown |-> 0,
              endNotes |-> 0, journal |-> <<"start">>]

\* RunWriter.write: to a file that _close_run closed it raises, and nothing is kept.
Write(run, record) == IF run.open THEN [run EXCEPT !.journal = Append(@, record)] ELSE run

Notes(run) == Cardinality({n \in DOMAIN run.journal : run.journal[n] = "note"})

--------------------------------------------------------------------------
(* The publishing thread: on_event and _admit *)

OverBudget(reserved) == Budget - spent - reserved <= 0

Merged(run) == run.lastT # Never /\ time - run.lastT < MinGap

\* Mutant: the moments still waiting are not held against the cap.
AtCap_FiledOnly(run) == run.calls >= MaxCalls
AtCap(run) == run.calls + pending >= MaxCalls

\* _run: the session's open run, or a new one with its start record.
Opened == IF open[session] # 0 THEN runs ELSE Append(runs, NewRun(session))
RunOf == IF open[session] # 0 THEN open[session] ELSE Len(runs) + 1

\* A moment that is merged, or beyond the cap or the budget, only leaves its count (and,
\* for the budget, a record); any other is reserved and queued.
Flag ==
  LET run == Opened[RunOf]
  IN /\ phase = "running" /\ source = session /\ RunOf <= MaxRuns
     /\ open' = [open EXCEPT ![session] = RunOf]
     /\ \/ /\ Merged(run) \/ AtCap(run)
           /\ runs' = Opened /\ UNCHANGED <<pending, queue>>
        \/ /\ ~Merged(run) /\ ~AtCap(run) /\ OverBudget(pending)
           /\ Len(run.journal) < MaxRecords
           /\ runs' = [Opened EXCEPT ![RunOf] = Write(run, "skip")]
           /\ UNCHANGED <<pending, queue>>
        \/ /\ ~Merged(run) /\ ~AtCap(run) /\ ~OverBudget(pending)
           /\ runs' = [Opened EXCEPT ![RunOf].lastT = time]
           /\ pending' = pending + 1
           /\ queue' = Append(queue, RunOf)
     /\ UNCHANGED <<session, source, time, worker, moment, spent, phase>>

--------------------------------------------------------------------------
(* The worker's thread *)

Take ==
  /\ worker = "idle" /\ queue # <<>>
  /\ queue' = Tail(queue)
  /\ worker' = IF Head(queue) = 0 THEN "over" ELSE "waiting"
  /\ moment' = Head(queue)
  /\ UNCHANGED <<session, source, time, runs, open, pending, spent, phase>>

\* Mutant: the early return gives the moment's place back, and so does the finally.
NoFramesInTime_Returns ==
  /\ worker = "waiting" /\ worker' = "settling" /\ pending' = pending - 1
  /\ UNCHANGED <<session, source, time, runs, open, queue, moment, spent, phase>>

\* source.ready() timed out.
NoFramesInTime ==
  /\ worker = "waiting" /\ worker' = "settling"
  /\ UNCHANGED <<session, source, time, runs, open, queue, moment, pending, spent, phase>>

MaySpend == ~OverBudget(0)

\* The frames are there: the budget once more, then the model is asked.
FramesReady ==
  /\ worker = "waiting"
  /\ IF MaySpend
     THEN worker' = "calling" /\ UNCHANGED runs
     ELSE worker' = "settling" /\ runs' = [runs EXCEPT ![moment] = Write(@, "skip")]
  /\ UNCHANGED <<session, source, time, open, queue, moment, pending, spent, phase>>

\* No frame could be grabbed: a note of the error, and no call was made.
GrabFails ==
  /\ worker = "calling" /\ worker' = "settling"
  /\ runs' = [runs EXCEPT ![moment] = Write(@, "frames error")]
  /\ UNCHANGED <<session, source, time, open, queue, moment, pending, spent, phase>>

\* The analyser could not be made or raised: one moment, not the worker.
AnalysisRaises ==
  /\ worker = "calling" /\ worker' = "settling"
  /\ UNCHANGED <<session, source, time, runs, open, queue, moment, pending, spent, phase>>

\* The model answered, or failed: the call is recorded against the shared budget.
Answer ==
  /\ worker = "calling" /\ worker' = "answered"
  /\ spent' = spent + 1
  /\ UNCHANGED <<session, source, time, runs, open, queue, moment, pending, phase>>

\* live.publish_note: what was kept, if anything, and only into the session it is about.
Publish ==
  /\ worker = "answered" /\ worker' = "filing"
  /\ \/ UNCHANGED runs
     \/ /\ runs[moment].session = session
        /\ runs' = [runs EXCEPT ![moment].shown = @ + 1]
  /\ UNCHANGED <<session, source, time, open, queue, moment, pending, spent, phase>>

\* Mutant: a write that raises takes the worker's loop with it.
AfterFiling_Dies == IF runs[moment].open THEN "settling" ELSE "over"
AfterFiling == "settling"

Counted(run) == [run EXCEPT !.calls = @ + 1]

\* Counted and written under the lock; in a closed run the write raises, and is logged.
File ==
  /\ worker = "filing" /\ worker' = AfterFiling
  /\ runs' = [runs EXCEPT ![moment] = Write(Counted(@), "note")]
  /\ UNCHANGED <<session, source, time, open, queue, moment, pending, spent, phase>>

\* _aloop's finally: whatever became of the moment, it is no longer pending.
Settle ==
  /\ worker = "settling" /\ worker' = "idle"
  /\ moment' = 0 /\ pending' = pending - 1
  /\ UNCHANGED <<session, source, time, runs, open, queue, spent, phase>>

--------------------------------------------------------------------------
(* Closing *)

\* Mutant: the calls still under way are counted in as well.
EndNotes_WithPending(run) == run.calls + pending
EndNotes(run) == run.calls

Closed(run) == [run EXCEPT !.open = FALSE, !.endNotes = EndNotes(run),
                           !.journal = Append(@, "end")]

CloseRuns(which) ==
  /\ runs' = [i \in DOMAIN runs |-> IF \E s \in which : open[s] = i THEN Closed(runs[i]) ELSE runs[i]]
  /\ open' = [s \in Sessions |-> IF s \in which THEN 0 ELSE open[s]]

\* A capture is started, or a replay whose video is synced.
StartSource ==
  /\ source = Nobody /\ phase = "running" /\ Len(runs) < MaxRuns
  /\ source' = session
  /\ UNCHANGED <<session, time, runs, open, queue, worker, moment, pending, spent, phase>>

\* stop_capture and the replay's end: end_session() for what was covered.
EndSession ==
  /\ source # Nobody
  /\ CloseRuns({source})
  /\ source' = Nobody
  /\ UNCHANGED <<session, time, queue, worker, moment, pending, spent, phase>>

\* stop(): unsubscribed, the loop told to end.
Stop ==
  /\ phase = "running" /\ phase' = "stopping"
  /\ queue' = Append(queue, 0)
  /\ UNCHANGED <<session, source, time, runs, open, worker, moment, pending, spent>>

\* Joined, or given up on after ten seconds: every run is closed.
StopJoined ==
  /\ phase = "stopping" /\ phase' = "stopped"
  /\ CloseRuns(Sessions)
  /\ UNCHANGED <<session, source, time, queue, worker, moment, pending, spent>>

--------------------------------------------------------------------------
(* Around it *)

\* Bound: the clock moves where something may read it.
Tick == /\ time < MaxTime /\ phase = "running" /\ source = session
        /\ time' = time + 1
        /\ UNCHANGED <<session, source, runs, open, queue, worker, moment, pending, spent, phase>>

\* The engine is given another session; the budget is a segment's (Pitwall resets it).
\* Bound: only while a run can still open.
Switch == /\ Len(runs) < MaxRuns /\ phase = "running"
          /\ session' \in Sessions \ {session}
          /\ spent' = 0
          /\ UNCHANGED <<source, time, runs, open, queue, worker, moment, pending, phase>>

\* The agents spend a call of the budget while there is one.
AgentCall == /\ spent < Budget
             /\ spent' = spent + 1
             /\ UNCHANGED <<session, source, time, runs, open, queue, worker, moment, pending, phase>>

WorkerStep ==
  \/ Take \/ NoFramesInTime \/ FramesReady \/ GrabFails \/ AnalysisRaises
  \/ Answer \/ Publish \/ File \/ Settle
Next == Flag \/ WorkerStep \/ StartSource \/ EndSession \/ Stop \/ StopJoined
        \/ Tick \/ Switch \/ AgentCall

Spec == Init /\ [][Next]_vars
\* The worker's thread is never starved, every wait has a timeout and every call ends.
FairSpec == Spec /\ WF_vars(WorkerStep)

--------------------------------------------------------------------------
(* Properties *)

RunType == [session : Sessions, open : BOOLEAN, calls : Nat, lastT : Int, shown : Nat,
            endNotes : Nat, journal : Seq({"start", "skip", "frames error", "note", "end"})]

TypeOK ==
  /\ session \in Sessions /\ source \in Sessions \cup {Nobody} /\ time \in Nat
  /\ runs \in Seq(RunType)
  /\ open \in [Sessions -> 0..Len(runs)]
  /\ queue \in Seq(0..Len(runs))
  /\ worker \in Stages /\ moment \in 0..Len(runs)
  /\ worker \in Busy => moment # 0
  /\ pending \in Nat /\ spent \in Nat /\ phase \in {"running", "stopping", "stopped"}

\* Moments of a run that may still cost a call, and moments the worker has not filed.
Waiting(i) == Cardinality({n \in DOMAIN queue : queue[n] = i})
              + (IF moment = i /\ worker \in Busy \ {"settling"} THEN 1 ELSE 0)

\* A run never costs more calls than its cap, those to come included, although the cap is
\* held against a count that the worker's thread moves between two places in two steps, and
\* that other runs' moments are in too (_admit); and of all the moments that wait for
\* frames while the agents spend, at most the one in hand takes the budget past its end.
SpendBounded ==
  /\ \A i \in DOMAIN runs : runs[i].calls + Waiting(i) <= MaxCalls
  /\ spent <= Budget + 1

\* A closed run's journal has one end, its last record, that counts the notes before it:
\* what the review reads as a complete analysis is all there (_close_run and _analyse).
EndCountsItsNotes ==
  \A i \in DOMAIN runs :
    LET journal == runs[i].journal
    IN  /\ \A n \in DOMAIN journal : (journal[n] = "start") <=> (n = 1)
        /\ \A n \in DOMAIN journal : (journal[n] = "end") <=> (n = Len(journal) /\ ~runs[i].open)
        /\ runs[i].endNotes = IF runs[i].open THEN 0 ELSE Notes(runs[i])

\* Every moment admitted is settled, noted or skipped, and the count the cap is held
\* against comes back to nothing: a moment that fails costs one moment, not the worker
\* (_aloop).
MomentsSettle == (pending > 0) ~> (pending = 0)

\* docs/VISION.md: the worker "writes the note to a live analysis ... and publishes the
\* kept observations": what went to the bus can be found in a journal.
PublishedIsFiled ==
  worker = "idle" => \A i \in DOMAIN runs : runs[i].shown <= Notes(runs[i])
=============================================================================
