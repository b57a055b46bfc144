------------------------------ MODULE AudioQueue ------------------------------
(* The radio as the driver hears it: RadioAudioManager (desktop/model/         *)
(* audio_queue.py) decides what is said and when, QtSpeaker (desktop/tts.py)   *)
(* says it and reports the end of a call later, Hub (desktop/views/hub.py)     *)
(* pushes what the socket brings.  Everything runs on the Qt thread;           *)
(* what comes late are the reports, and what comes twice are the messages.     *)
EXTENDS Integers, Sequences, FiniteSets

CONSTANTS Messages, Agents,
          AgentOf, PriorityOf, SubjectOf, \* of a message
          NoSubject, NoMessage,
          StaleAfter, \* stale_info_ms, in ticks
          SeenLimit   \* SEEN_LIMIT

ASSUME MessagesAssumption ==
  /\ AgentOf \in [Messages -> Agents]
  /\ PriorityOf \in [Messages -> {"critical", "advisory", "info"}]
  /\ NoMessage \notin Messages
ASSUME LimitsAssumption == StaleAfter \in Nat /\ SeenLimit \in Nat \ {0}

VARIABLES air,     \* the manager's queue and current, the speaker's _current and its timers
          seen,    \* ids the channel remembers, oldest first
          muted,   \* muted agents
          master,  \* master_muted
          engine,  \* is there a speech engine
          open,    \* the window is open
          settled  \* calls said to their end, or silenced by the driver's controls

audioVars == <<air, seen, muted, master, engine, open, settled>>

Quiet == [queue |-> <<>>, current |-> NoMessage, saying |-> NoMessage, posted |-> {}]

AudioInit == /\ air = Quiet /\ seen = <<>>
        /\ muted = {} /\ master = FALSE
        /\ engine \in BOOLEAN /\ open = TRUE
        /\ settled = {}

--------------------------------------------------------------------------
(* The manager *)

Critical(m) == PriorityOf[m] = "critical"
Rank(m) == CASE Critical(m) -> 0 [] PriorityOf[m] = "advisory" -> 1 [] OTHER -> 2
Entry(m) == [msg |-> m, age |-> 0]

Muted(agent) == master \/ agent \in muted
Queued(m) == \E i \in 1..Len(air.queue) : air.queue[i].msg = m

\* Mutant: only the remembered ids are looked at.
IsDuplicate_SeenOnly(m) == \E i \in 1..Len(seen) : seen[i] = m
\* _is_duplicate: what is on air or waits is known even when its id is forgotten.
IsDuplicate(m) == (\E i \in 1..Len(seen) : seen[i] = m) \/ air.current = m \/ Queued(m)

\* _remember: the newest SeenLimit ids.
Remembered(m) ==
  IF \E i \in 1..Len(seen) : seen[i] = m THEN seen
  ELSE IF Len(seen) < SeenLimit THEN Append(seen, m) ELSE Append(Tail(seen), m)

\* _expire_stale: the k-th entry that is left is the one with k - 1 of them ahead of it.
Fresh(queue) ==
  LET kept == {i \in 1..Len(queue) :
                 PriorityOf[queue[i].msg] = "info" => queue[i].age <= StaleAfter}
  IN  [k \in 1..Cardinality(kept) |->
         queue[CHOOSE i \in kept : Cardinality({j \in kept : j < i}) = k - 1]]

\* _supersede: a critical call neither replaces nor is replaced.
Replaces(m, old) ==
  /\ ~Critical(m) /\ ~Critical(old)
  /\ SubjectOf[m] # NoSubject
  /\ AgentOf[m] = AgentOf[old] /\ SubjectOf[m] = SubjectOf[old]
Superseded(queue, m) ==
  LET hits == {i \in 1..Len(queue) : Replaces(m, queue[i].msg)}
  IN  IF hits = {} THEN queue
      ELSE LET first == CHOOSE i \in hits : \A j \in hits : i <= j
           IN  SubSeq(queue, 1, first - 1) \o SubSeq(queue, first + 1, Len(queue))

\* _sort_queue, of a queue in order with one newer entry.
Inserted(queue, e) ==
  LET before == {i \in 1..Len(queue) : Rank(queue[i].msg) <= Rank(e.msg)}
      at == Cardinality(before)
  IN  SubSeq(queue, 1, at) \o <<e>> \o SubSeq(queue, at + 1, Len(queue))

\* _start: without an engine the end is posted for the next turn of the event loop.
Started(ch, m) ==
  [ch EXCEPT !.current = m, !.saying = m, !.posted = IF engine THEN @ ELSE @ \cup {m}]
Advanced(ch) ==
  IF ch.current # NoMessage \/ ch.queue = <<>> THEN ch
  ELSE Started([ch EXCEPT !.queue = Tail(@)], Head(ch.queue).msg)
Cut(ch) == [ch EXCEPT !.current = NoMessage, !.saying = NoMessage]

\* Mutant: the report of any call ends the one on air.
Finish_Anyone(ch, m) ==
  IF ch.current = NoMessage THEN ch ELSE Advanced([ch EXCEPT !.current = NoMessage])
\* finished: a report of another call is late, and ignored.
Finish(ch, m) ==
  IF ch.current # m THEN ch ELSE Advanced([ch EXCEPT !.current = NoMessage])

\* stop, and whom it silences.
Stopped(ch) == Advanced(IF ch.current # NoMessage THEN Cut(ch) ELSE ch)
OnAir == {air.current} \ {NoMessage}

--------------------------------------------------------------------------
(* What happens to it *)

\* push at the door: a message of a muted agent is remembered and dropped.
PushMuted(m) ==
  /\ open /\ ~IsDuplicate(m) /\ Muted(AgentOf[m])
  /\ seen' = Remembered(m)
  /\ UNCHANGED <<air, muted, master, engine, open, settled>>

Push(m) ==
  /\ open /\ ~IsDuplicate(m) /\ ~Muted(AgentOf[m])
  /\ seen' = Remembered(m)
  /\ settled' = settled \ {m}
  /\ LET waiting == Superseded(Fresh(air.queue), m)
         ch == [air EXCEPT !.queue = waiting]
     IN  air' =
           IF Critical(m) /\ air.current # NoMessage /\ ~Critical(air.current)
           THEN Started(Cut(ch), m)
           ELSE IF air.current = NoMessage /\ waiting = <<>> THEN Started(ch, m)
           ELSE [ch EXCEPT !.queue = Inserted(waiting, Entry(m))]
  /\ UNCHANGED <<muted, master, engine, open>>

\* load_radio's answer: history is not spoken.
MarkHeard(m) ==
  /\ open /\ seen' = Remembered(m)
  /\ UNCHANGED <<air, muted, master, engine, open, settled>>

\* A posted end comes: QTimer.singleShot of a speaker without an engine.
PostedEnd(m) ==
  /\ m \in air.posted
  /\ air' = Finish([air EXCEPT !.posted = @ \ {m}], m)
  /\ settled' = IF air.current = m THEN settled \cup {m} ELSE settled
  /\ UNCHANGED <<seen, muted, master, engine, open>>

\* QtSpeaker._state, Ready or Error: its _current is cleared before the manager hears of it.
EngineEnd ==
  /\ engine /\ air.saying # NoMessage
  /\ air' = Finish([air EXCEPT !.saying = NoMessage], air.saying)
  /\ settled' = IF air.current = air.saying THEN settled \cup {air.saying} ELSE settled
  /\ UNCHANGED <<seen, muted, master, engine, open>>

\* The hub's timer, once a second.
Tick ==
  /\ open
  /\ air' = Advanced([air EXCEPT !.queue = Fresh(@)])
  /\ UNCHANGED <<seen, muted, master, engine, open, settled>>

\* Time passes; a wait is counted until it is too long.
Older(e) == [e EXCEPT !.age = IF @ > StaleAfter THEN @ ELSE @ + 1]
Wait ==
  /\ air' = [air EXCEPT !.queue = [i \in 1..Len(@) |-> Older(@[i])]]
  /\ UNCHANGED <<seen, muted, master, engine, open, settled>>

SetMasterMuted(on) ==
  /\ open /\ master' = on
  /\ IF on THEN air' = Stopped(air) /\ settled' = settled \cup OnAir
     ELSE UNCHANGED <<air, settled>>
  /\ UNCHANGED <<seen, muted, engine, open>>

SetAgentMuted(agent, on) ==
  /\ open /\ muted' = IF on THEN muted \cup {agent} ELSE muted \ {agent}
  /\ IF on /\ \E m \in OnAir : AgentOf[m] = agent
     THEN air' = Stopped(air) /\ settled' = settled \cup OnAir
     ELSE UNCHANGED <<air, settled>>
  /\ UNCHANGED <<seen, master, engine, open>>

\* clear: Hub.stop.
Clear ==
  /\ open /\ open' = FALSE
  /\ air' = [Cut(air) EXCEPT !.queue = <<>>]
  /\ settled' = settled \cup OnAir \cup {m \in Messages : Queued(m)}
  /\ UNCHANGED <<seen, muted, master, engine>>

Ends == EngineEnd \/ \E m \in Messages : PostedEnd(m)

AudioNext == \/ \E m \in Messages : PushMuted(m) \/ Push(m) \/ MarkHeard(m)
        \/ Ends \/ Tick \/ Wait \/ Clear
        \/ \E on \in BOOLEAN : SetMasterMuted(on) \/ \E a \in Agents : SetAgentMuted(a, on)

AudioSpec == AudioInit /\ [][AudioNext]_audioVars
\* A speech engine comes to the end of a call, and the event loop runs what was posted to it.
FairAudioSpec == AudioSpec /\ WF_audioVars(EngineEnd) /\ \A m \in Messages : WF_audioVars(PostedEnd(m))

--------------------------------------------------------------------------
(* Properties *)

Entries == [msg : Messages, age : 0..(StaleAfter + 1)]
AudioTypeOK ==
  /\ air \in [queue : Seq(Entries), current : Messages \cup {NoMessage},
              saying : Messages \cup {NoMessage}, posted : SUBSET Messages]
  /\ seen \in Seq(Messages) /\ muted \subseteq Agents
  /\ master \in BOOLEAN /\ engine \in BOOLEAN /\ open \in BOOLEAN
  /\ settled \subseteq Messages

\* The channel is in order: no call is on it twice, though ids are forgotten and the
\* socket repeats itself; of one agent's subject one non-critical call waits; what waits is
\* sorted; and nobody waits for a channel that is idle, which only a call's end or the
\* next second would help (RadioAudioManager.push, stop, _sort_queue).
ChannelInOrder ==
  LET queue == air.queue
  IN  /\ \A i, j \in 1..Len(queue) : i < j =>
           /\ queue[i].msg # queue[j].msg
           /\ ~Replaces(queue[j].msg, queue[i].msg)
           /\ Rank(queue[i].msg) <= Rank(queue[j].msg)
      /\ \A i \in 1..Len(queue) : queue[i].msg # air.current
      /\ air.current = NoMessage => queue = <<>>

\* A critical call that was taken is said to its end, whatever is pushed behind it and
\* whatever reports of other calls come late, unless the driver silences it (push,
\* finished and QtSpeaker._state).
CriticalIsSaid ==
  \A m \in Messages : Critical(m) =>
    ((Queued(m) \/ air.current = m) ~> m \in settled)

\* With the master mute on nothing is on air, which the test "master mute silences the
\* channel and stops what is being said" says of the channel.  set_master_muted calls
\* stop(), and stop() lets the queue carry on.
MasterMuteIsSilence == master => air.current = NoMessage
=============================================================================
