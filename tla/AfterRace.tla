------------------------------ MODULE AfterRace ------------------------------
(* What happens to a run of the journal once it is closed: SessionEndHooks     *)
(* (session_end.py) stores its summary, tells the notifier and has it          *)
(* debriefed, on one worker thread; DebriefService (debrief/service.py) does   *)
(* one debrief at a time, for the hook or for a request of the API, and writes *)
(* it to a file and into the closed run.  What a section says is one of:       *)
(* nothing, something, something about the corner, or something the checks     *)
(* refuse.                                                                     *)
EXTENDS Naturals, Sequences

CONSTANTS Runs,      \* journal runs
          Debriefed, \* those of a type in RTV_DEBRIEF_SESSIONS
          Requests,  \* POST .../debrief requests
          Hook,      \* the session-end callback, as an asker
          Sections,  \* the sections a priority may rest on
          Answers,   \* what the model may answer
          NoAnswer, NoRun, NoDoc

Contents == {"nothing", "plain", "corner", "refusable"}
AllAnswers == [of : [Sections -> Contents],
               priority : [basis : Sections, corner : BOOLEAN, sound : BOOLEAN]]

ASSUME AnswersAssumption == Answers \subseteq AllAnswers /\ NoAnswer \notin Answers
ASSUME RunsAssumption == Debriefed \subseteq Runs /\ NoRun \notin Runs
ASSUME AskersAssumption == Hook \notin Requests

Askers == {Hook} \cup Requests

VARIABLES closed, \* runs the recorder has ended
          queue,  \* runs whose callbacks wait for the executor
          worker, \* the run whose callbacks are run, and the callback
          asks,   \* the run a request of the API is for
          waits,  \* requests before the lock
          gens,   \* generate(), of each asker
          files,  \* what is on disk for a run
          failed, \* runs a debrief could not be written for
          killed  \* the process was killed, once at most

vars == <<closed, queue, worker, asks, waits, gens, files, failed, killed>>

Rest == [run |-> NoRun, at |-> "idle"]
NoGen == [run |-> NoRun, step |-> "none", first |-> NoAnswer, doc |-> NoDoc]
NoFiles == [summary |-> FALSE, notice |-> <<>>, doc |-> NoDoc, record |-> NoDoc, torn |-> FALSE]

Init == /\ closed = {} /\ queue = <<>> /\ worker = Rest
        /\ asks = [a \in Requests |-> NoRun] /\ waits = {}
        /\ gens = [a \in Askers |-> NoGen]
        /\ files = [r \in Runs |-> NoFiles]
        /\ failed = {} /\ killed = FALSE

--------------------------------------------------------------------------
(* The checks and the assembly *)

Passes(answer, s) == answer.of[s] # "refusable"

\* check_priorities: rests on a kept section that says something, about the corner if it is.
Supported(priority, kept) ==
  /\ priority.sound
  /\ kept[priority.basis] \in IF priority.corner THEN {"corner"} ELSE {"plain", "corner"}

\* _check: the sections of an answer as they would be kept of it alone.
OwnSections(answer) == [s \in Sections |-> IF Passes(answer, s) THEN answer.of[s] ELSE "nothing"]
AllOk(answer) == /\ \A s \in Sections : Passes(answer, s)
                 /\ Supported(answer.priority, OwnSections(answer))

Refused == [status |-> "refused", what |-> "nothing"]

\* _assemble, a section: of the first answer that passes.
Section(s, first, second) ==
  IF Passes(first, s) THEN [status |-> "ok", what |-> first.of[s]]
  ELSE IF second # NoAnswer /\ Passes(second, s) THEN [status |-> "repaired", what |-> second.of[s]]
  ELSE Refused

\* Mutant: the priorities are held to the answer they came with.
Priority_AsAnswered(kept, first, second) ==
  IF Supported(first.priority, OwnSections(first)) THEN [status |-> "ok", what |-> first.priority]
  ELSE IF second # NoAnswer /\ Supported(second.priority, OwnSections(second))
  THEN [status |-> "repaired", what |-> second.priority]
  ELSE Refused

\* _assemble: the priorities are held to the sections as kept, whichever pass they came from.
Priority(kept, first, second) ==
  IF Supported(first.priority, kept) THEN [status |-> "ok", what |-> first.priority]
  ELSE IF second # NoAnswer /\ Supported(second.priority, kept)
  THEN [status |-> "repaired", what |-> second.priority]
  ELSE Refused

Assembled(first, second) ==
  LET section == [s \in Sections |-> Section(s, first, second)]
      kept == [s \in Sections |-> section[s].what]
  IN  [available |-> TRUE, first |-> first, sections |-> section,
       priority |-> Priority(kept, first, second)]

Unavailable(first) ==
  [available |-> FALSE, first |-> first, sections |-> [s \in Sections |-> Refused],
   priority |-> Refused]

--------------------------------------------------------------------------
(* generate(), one step per thing that can fail or be seen from outside *)

\* Mutant: generate() does not take the lock.
LockFree_Unlocked == TRUE
LockFree == \A a \in Askers : gens[a].step = "none"

Goes(a, gen) == gens' = [gens EXCEPT ![a] = gen]
Writes(a, doc) == Goes(a, [gens[a] EXCEPT !.step = "writing", !.doc = doc])

\* What the asker does when generate() is over: the hook's callback announces or has raised.
Over(a, raised) ==
  /\ Goes(a, NoGen)
  /\ IF a = Hook
     THEN worker' = IF raised THEN Rest ELSE [worker EXCEPT !.at = "announce"]
     ELSE UNCHANGED worker

Starts(a, run) ==
  /\ LockFree /\ gens[a].step = "none"
  /\ Goes(a, [NoGen EXCEPT !.run = run, !.step = "asking"])

\* No key or no extra; a call that raises or never validates.
NoAnalysis(a) ==
  /\ gens[a].step = "asking"
  /\ Writes(a, Unavailable(NoAnswer))
  /\ UNCHANGED <<closed, queue, worker, asks, waits, files, failed, killed>>

FirstAnswer(a) ==
  /\ gens[a].step = "asking"
  /\ \E first \in Answers :
       IF AllOk(first) THEN Writes(a, Assembled(first, NoAnswer))
       ELSE Goes(a, [gens[a] EXCEPT !.step = "repairing", !.first = first])
  /\ UNCHANGED <<closed, queue, worker, asks, waits, files, failed, killed>>

\* The repair answers, or its answer never validates.
SecondAnswer(a) ==
  /\ gens[a].step = "repairing"
  /\ \E second \in Answers \cup {NoAnswer} : Writes(a, Assembled(gens[a].first, second))
  /\ UNCHANGED <<closed, queue, worker, asks, waits, files, failed, killed>>

\* generate() catches it: the first answer goes with it.
RepairRaises(a) ==
  /\ gens[a].step = "repairing"
  /\ Writes(a, Unavailable(gens[a].first))
  /\ UNCHANGED <<closed, queue, worker, asks, waits, files, failed, killed>>

\* The inputs cannot be built, or the file cannot be written: generate() raises.
Raises(a) ==
  /\ gens[a].step \in {"asking", "writing"}
  /\ failed' = failed \cup {gens[a].run}
  /\ Over(a, TRUE)
  /\ UNCHANGED <<closed, queue, asks, waits, files, killed>>

\* _store: the file is replaced ...
Replace(a) ==
  /\ gens[a].step = "writing"
  /\ files' = [files EXCEPT ![gens[a].run].doc = gens[a].doc, ![gens[a].run].torn = FALSE]
  /\ Goes(a, [gens[a] EXCEPT !.step = "appending"])
  /\ UNCHANGED <<closed, queue, worker, asks, waits, failed, killed>>

\* ... and the run is told.
AppendRecord(a) ==
  /\ gens[a].step = "appending"
  /\ files' = [files EXCEPT ![gens[a].run].record = gens[a].doc]
  /\ Over(a, FALSE)
  /\ UNCHANGED <<closed, queue, asks, waits, failed, killed>>

AppendFails(a) ==
  /\ gens[a].step = "appending"
  /\ files' = [files EXCEPT ![gens[a].run].torn = TRUE]
  /\ Over(a, TRUE)
  /\ UNCHANGED <<closed, queue, asks, waits, failed, killed>>

Generate(a) == \/ NoAnalysis(a) \/ FirstAnswer(a) \/ SecondAnswer(a) \/ RepairRaises(a)
               \/ Raises(a) \/ Replace(a) \/ AppendRecord(a) \/ AppendFails(a)

--------------------------------------------------------------------------
(* The session-end worker *)

\* SegmentJournal closes the run and fires it.
Fire(r) ==
  /\ r \notin closed
  /\ closed' = closed \cup {r}
  /\ queue' = Append(queue, r)
  /\ UNCHANGED <<worker, asks, waits, gens, files, failed, killed>>

TakeRun ==
  /\ worker = Rest /\ queue # <<>>
  /\ worker' = [run |-> Head(queue), at |-> "summary"]
  /\ queue' = Tail(queue)
  /\ UNCHANGED <<closed, asks, waits, gens, files, failed, killed>>

\* Mutant: a callback that raises ends the run's callbacks.
NextCallback_StopsAtAnError(at, raised) == IF raised THEN Rest ELSE [worker EXCEPT !.at = at]

\* _run: the next callback, whether this one raised or not.
NextCallback(at, raised) == [worker EXCEPT !.at = at]

StoreSummary ==
  /\ worker.at = "summary"
  /\ \E raised \in BOOLEAN :
       /\ files' = [files EXCEPT ![worker.run].summary = @ \/ ~raised]
       /\ worker' = NextCallback("notify", raised)
  /\ UNCHANGED <<closed, queue, asks, waits, gens, failed, killed>>

\* The notice is the stored summary's, or of an empty one.
Notify ==
  /\ worker.at = "notify"
  /\ \E raised \in BOOLEAN :
       /\ files' = [files EXCEPT ![worker.run].notice =
                      IF raised THEN @
                      ELSE <<IF files[worker.run].summary THEN "result" ELSE "blank">>]
       /\ worker' = NextCallback("debrief", raised)
  /\ UNCHANGED <<closed, queue, asks, waits, gens, failed, killed>>

\* DebriefService.on_session_end.
OnSessionEnd ==
  /\ worker.at = "debrief" /\ gens[Hook].step = "none"
  /\ IF worker.run \in Debriefed
     THEN Starts(Hook, worker.run) /\ UNCHANGED worker
     ELSE worker' = Rest /\ UNCHANGED gens
  /\ UNCHANGED <<closed, queue, asks, waits, files, failed, killed>>

\* notify_debrief: one more line.
Announce ==
  /\ worker.at = "announce"
  /\ \E raised \in BOOLEAN :
       files' = [files EXCEPT ![worker.run].notice = IF raised THEN @ ELSE Append(@, "debrief")]
  /\ worker' = Rest
  /\ UNCHANGED <<closed, queue, asks, waits, gens, failed, killed>>

--------------------------------------------------------------------------
(* The API and the process *)

\* regenerate_debrief: 409 for a run that is still recorded.
Ask(a) ==
  /\ asks[a] = NoRun
  /\ \E r \in closed : asks' = [asks EXCEPT ![a] = r]
  /\ waits' = waits \cup {a}
  /\ UNCHANGED <<closed, queue, worker, gens, files, failed, killed>>

Serve(a) ==
  /\ a \in waits /\ waits' = waits \ {a}
  /\ Starts(a, asks[a])
  /\ UNCHANGED <<closed, queue, worker, asks, files, failed, killed>>

\* Whatever was queued or under way is gone; a restart finds the files.
Kill ==
  /\ ~killed /\ killed' = TRUE
  /\ queue' = <<>> /\ worker' = Rest /\ waits' = {}
  /\ gens' = [a \in Askers |-> NoGen]
  /\ files' = [r \in Runs |-> [files[r] EXCEPT !.torn =
                 @ \/ \E a \in Askers : gens[a].run = r /\ gens[a].step = "appending"]]
  /\ UNCHANGED <<closed, asks, failed>>

Callback == TakeRun \/ StoreSummary \/ Notify \/ OnSessionEnd \/ Announce
Next == \/ \E r \in Runs : Fire(r)
        \/ Callback
        \/ \E a \in Askers : Generate(a)
        \/ \E a \in Requests : Ask(a) \/ Serve(a)
        \/ Kill

Spec == Init /\ [][Next]_vars
\* The worker's thread runs, calls time out, and a thread that waits for the lock gets it
\* in the end: a request is served once, so only so many are ahead of the hook.
FairSpec == Spec /\ WF_vars(Callback) /\ \A a \in Askers : WF_vars(Generate(a))

--------------------------------------------------------------------------
(* Properties *)

Docs == {NoDoc} \cup [available : BOOLEAN, first : Answers \cup {NoAnswer},
                      sections : [Sections -> [status : {"ok", "repaired", "refused"}, what : Contents]],
                      priority : {Refused} \cup [status : {"ok", "repaired"},
                                                 what : [basis : Sections, corner : BOOLEAN, sound : BOOLEAN]]]

TypeOK ==
  /\ closed \subseteq Runs /\ queue \in Seq(Runs)
  /\ worker \in [run : Runs \cup {NoRun}, at : {"idle", "summary", "notify", "debrief", "announce"}]
  /\ asks \in [Requests -> Runs \cup {NoRun}] /\ waits \subseteq Requests
  /\ gens \in [Askers -> [run : Runs \cup {NoRun}, first : Answers \cup {NoAnswer}, doc : Docs,
                          step : {"none", "asking", "repairing", "writing", "appending"}]]
  /\ files \in [Runs -> [summary : BOOLEAN, notice : Seq({"result", "blank", "debrief"}),
                         doc : Docs, record : Docs, torn : BOOLEAN]]
  /\ failed \subseteq Runs /\ killed \in BOOLEAN

Kept(part) == part.status \in {"ok", "repaired"}

\* No refused section is kept, a section that passed in the first answer is there as it
\* was, and the priorities rest on what the reader is shown.
Sound(doc) ==
  /\ \A s \in Sections : Kept(doc.sections[s]) => doc.sections[s].what # "refusable"
  /\ doc.available =>
       \A s \in Sections : Passes(doc.first, s) =>
         doc.sections[s] = [status |-> "ok", what |-> doc.first.of[s]]
  /\ Kept(doc.priority) =>
       LET basis == doc.sections[doc.priority.what.basis]
       IN  /\ Kept(basis) /\ basis.what # "nothing"
           /\ doc.priority.what.corner => basis.what = "corner"

\* What a debrief on disk keeps held up against the run, and holds up together, although
\* its sections and its priorities may come from different answers (_assemble).
DocumentIsSound == \A r \in Runs : files[r].doc # NoDoc => Sound(files[r].doc)

\* The last debrief record of a closed run is of the debrief on disk, whoever asked for
\* debriefs meanwhile (DebriefService._lock); only a crash or an error in the very append
\* leaves an older one.
LastRecordIsTheDocument ==
  \A r \in Runs :
    (~files[r].torn /\ \A a \in Askers : gens[a].run # r \/ gens[a].step # "appending")
      => files[r].record = files[r].doc

\* A run that ended is debriefed, whatever its summary and its notifier do, unless the
\* process dies or its debrief cannot be written (SessionEndHooks._run).
EveryRunIsDebriefed ==
  \A r \in Debriefed : (r \in closed) ~> (killed \/ r \in failed \/ files[r].doc # NoDoc)
=============================================================================
