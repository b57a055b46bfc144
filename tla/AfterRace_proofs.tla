-------------------------- MODULE AfterRace_proofs --------------------------
(***************************************************************************)
(* What holds of the debriefs for every set of runs, of sections, of       *)
(* answers and of requests.                                                *)
(***************************************************************************)
EXTENDS AfterRace, TLAPS

Parts == [status : {"ok", "repaired", "refused"}, what : Contents]
Priorities == [basis : Sections, corner : BOOLEAN, sound : BOOLEAN]
Steps == {"none", "asking", "repairing", "writing", "appending"}
Gens == [run : Runs \cup {NoRun}, first : Answers \cup {NoAnswer}, doc : Docs, step : Steps]
Files == [summary : BOOLEAN, notice : Seq({"result", "blank", "debrief"}),
          doc : Docs, record : Docs, torn : BOOLEAN]

\* A debrief under way: it is a run's, its repair has an answer to repair, and what it is
\* about to write is sound.
Good(gen) ==
  /\ gen.step # "none" => gen.run \in Runs
  /\ gen.step = "repairing" => gen.first \in Answers
  /\ gen.step \in {"writing", "appending"} => Sound(gen.doc)

\* The lock: one at a time.
Alone == \A a, b \in Askers : gens[a].step # "none" /\ gens[b].step # "none" => a = b

\* Between the file and its record the file is the one to be recorded.
Half == \A a \in Askers : gens[a].step = "appending" => files[gens[a].run].doc = gens[a].doc

Placed == /\ worker.at # "idle" => worker.run \in Runs
          /\ gens[Hook].step # "none" => worker.at = "debrief"
          /\ \A a \in waits : asks[a] \in Runs

\* The strengthening of both properties.
IInv == /\ TypeOK /\ Placed
        /\ \A a \in Askers : Good(gens[a])
        /\ Alone /\ Half
        /\ DocumentIsSound /\ LastRecordIsTheDocument

---------------------------------------------------------------------------
(* What is assembled is sound *)

LEMMA AnswerParts ==
  ASSUME NEW x \in Answers
  PROVE  /\ \A s \in Sections : x.of[s] \in Contents
         /\ x.priority \in Priorities
BY AnswersAssumption DEF AllAnswers, Priorities

\* A section is of the first answer that passes, and never one the checks refused.
LEMMA SectionKept ==
  ASSUME NEW s \in Sections, NEW x \in Answers, NEW y \in Answers \cup {NoAnswer}
  PROVE  /\ Section(s, x, y) \in Parts
         /\ Section(s, x, y).what # "refusable"
         /\ Passes(x, s) => Section(s, x, y) = [status |-> "ok", what |-> x.of[s]]
         /\ Section(s, x, y).what # "nothing" => Kept(Section(s, x, y))
<1>1. CASE Passes(x, s)
  BY <1>1, AnswerParts DEF Section, Passes, Kept, Parts, Contents
<1>2. CASE ~Passes(x, s) /\ y # NoAnswer /\ Passes(y, s)
  BY <1>2, AnswerParts DEF Section, Passes, Kept, Parts, Contents
<1>3. CASE ~Passes(x, s) /\ ~(y # NoAnswer /\ Passes(y, s))
  BY <1>3 DEF Section, Refused, Parts, Contents
<1> QED
  BY <1>1, <1>2, <1>3

\* The priorities are refused or supported by what is kept.
LEMMA PriorityKept ==
  ASSUME NEW kept, NEW x \in Answers, NEW y \in Answers \cup {NoAnswer}
  PROVE  LET p == Priority(kept, x, y)
         IN  \/ p = Refused
             \/ /\ p \in [status : {"ok", "repaired"}, what : Priorities]
                /\ Supported(p.what, kept)
<1>1. CASE Supported(x.priority, kept)
  BY <1>1, AnswerParts DEF Priority
<1>2. CASE ~Supported(x.priority, kept) /\ y # NoAnswer /\ Supported(y.priority, kept)
  BY <1>2, AnswerParts DEF Priority
<1>3. CASE ~Supported(x.priority, kept) /\ ~(y # NoAnswer /\ Supported(y.priority, kept))
  BY <1>3 DEF Priority
<1> QED
  BY <1>1, <1>2, <1>3

\* Whatever the first answer and the repair are, what is assembled of them is sound.
THEOREM AssembledIsSound ==
  ASSUME NEW x \in Answers, NEW y \in Answers \cup {NoAnswer}
  PROVE  Assembled(x, y) \in Docs /\ Sound(Assembled(x, y))
<1> DEFINE section == [s \in Sections |-> Section(s, x, y)]
           kept == [s \in Sections |-> section[s].what]
           p == Priority(kept, x, y)
           doc == [available |-> TRUE, first |-> x, sections |-> section, priority |-> p]
<1>1. Assembled(x, y) = doc
  BY DEF Assembled
<1>2. /\ section \in [Sections -> Parts]
      /\ \A s \in Sections : /\ section[s] = Section(s, x, y)
                             /\ kept[s] = section[s].what
  BY SectionKept
<1>3. \/ p = Refused
      \/ p \in [status : {"ok", "repaired"}, what : Priorities] /\ Supported(p.what, kept)
  BY PriorityKept
<1> HIDE DEF section, kept, p
<1>4. doc \in Docs
  BY <1>2, <1>3 DEF Docs, Parts, Priorities
<1>5. \A s \in Sections : section[s].what # "refusable"
  BY <1>2, SectionKept
<1>6. \A s \in Sections : Passes(x, s) => section[s] = [status |-> "ok", what |-> x.of[s]]
  BY <1>2, SectionKept
<1>7. ASSUME Kept(p)
      PROVE  LET basis == section[p.what.basis]
             IN  /\ Kept(basis) /\ basis.what # "nothing"
                 /\ p.what.corner => basis.what = "corner"
  <2>1. p # Refused
    BY <1>7 DEF Kept, Refused
  <2>2. p.what \in Priorities /\ Supported(p.what, kept)
    BY <2>1, <1>3
  <2>3. p.what.basis \in Sections
    BY <2>2 DEF Priorities
  <2>4. kept[p.what.basis] \in IF p.what.corner THEN {"corner"} ELSE {"plain", "corner"}
    BY <2>2 DEF Supported
  <2>5. Kept(section[p.what.basis])
    BY <2>3, <2>4, <1>2, SectionKept
  <2> QED
    BY <2>3, <2>4, <2>5, <1>2
<1>8. Sound(doc)
  BY <1>5, <1>6, <1>7 DEF Sound
<1> QED
  BY <1>1, <1>4, <1>8

LEMMA UnavailableIsSound ==
  ASSUME NEW x \in Answers \cup {NoAnswer}
  PROVE  Unavailable(x) \in Docs /\ Sound(Unavailable(x))
BY DEF Unavailable, Sound, Kept, Refused, Docs, Contents

---------------------------------------------------------------------------
(* generate() keeps the invariant *)

LEMMA InitInv == Init => IInv
<1> SUFFICES ASSUME Init PROVE IInv
  OBVIOUS
<1>1. NoGen \in Gens /\ Good(NoGen) /\ NoGen.step = "none"
  BY DEF NoGen, Gens, Good, Docs, Steps
<1>2. NoFiles \in Files /\ NoFiles.doc = NoDoc /\ NoFiles.record = NoDoc
  BY DEF NoFiles, Files, Docs
<1>3. TypeOK
  <2>1. gens \in [Askers -> Gens] /\ files \in [Runs -> Files]
    BY <1>1, <1>2 DEF Init
  <2>2. queue \in Seq(Runs)
    BY DEF Init
  <2> QED
    BY <2>1, <2>2 DEF Init, TypeOK, Gens, Files, Steps, Rest
<1>4. Hook \in Askers
  BY DEF Askers
<1> QED
  BY <1>1, <1>2, <1>3, <1>4 DEF Init, IInv, Placed, Alone, Half, DocumentIsSound,
     LastRecordIsTheDocument, Rest

\* One asker's debrief moves on.
LEMMA Went ==
  ASSUME IInv, NEW a \in Askers, NEW gen \in Gens, Good(gen), Goes(a, gen),
         gen.step # "none" => \A b \in Askers \ {a} : gens[b].step = "none"
  PROVE  /\ gens' \in [Askers -> Gens] /\ gens'[a] = gen
         /\ \A b \in Askers \ {a} : gens'[b] = gens[b]
         /\ \A b \in Askers : Good(gens'[b])
         /\ Alone'
<1>1. gens \in [Askers -> Gens]
  BY DEF IInv, TypeOK, Gens, Steps
<1>2. gens' = [gens EXCEPT ![a] = gen]
  BY DEF Goes
<1>3. /\ gens' \in [Askers -> Gens] /\ gens'[a] = gen
      /\ \A b \in Askers \ {a} : gens'[b] = gens[b]
  BY <1>1, <1>2
<1>4. \A b \in Askers : Good(gens'[b])
  BY <1>3 DEF IInv
<1>5. Alone'
  <2> SUFFICES ASSUME NEW b \in Askers, NEW c \in Askers,
                      gens'[b].step # "none", gens'[c].step # "none"
               PROVE  b = c
    BY DEF Alone
  <2>1. b # a /\ c # a => b = c
    BY <1>3 DEF IInv, Alone
  <2> QED
    BY <2>1, <1>3
<1> QED
  BY <1>3, <1>4, <1>5

\* A debrief that moves on without touching the disk.
LEMMA Thought ==
  ASSUME IInv, NEW a \in Askers, NEW gen \in Gens, Good(gen), Goes(a, gen),
         gen.step # "none" => \A b \in Askers \ {a} : gens[b].step = "none",
         gens[a].step # "appending", gen.step # "appending",
         UNCHANGED files
  PROVE  /\ gens' \in [Askers -> Gens] /\ gens'[a] = gen
         /\ \A b \in Askers \ {a} : gens'[b] = gens[b]
         /\ \A b \in Askers : Good(gens'[b])
         /\ Alone' /\ Half' /\ DocumentIsSound' /\ LastRecordIsTheDocument'
<1>1. /\ gens' \in [Askers -> Gens] /\ gens'[a] = gen
      /\ \A b \in Askers \ {a} : gens'[b] = gens[b]
      /\ \A b \in Askers : Good(gens'[b])
      /\ Alone'
  BY Went
<1>2. Half'
  <2> SUFFICES ASSUME NEW b \in Askers, gens'[b].step = "appending"
               PROVE  files[gens'[b].run].doc = gens'[b].doc
    BY DEF Half
  <2> QED
    BY <1>1 DEF IInv, Half
<1>3. DocumentIsSound'
  BY DEF IInv, DocumentIsSound
<1>4. LastRecordIsTheDocument'
  <2> SUFFICES ASSUME NEW r \in Runs, ~files[r].torn,
                      \A b \in Askers : gens'[b].run # r \/ gens'[b].step # "appending"
               PROVE  files[r].record = files[r].doc
    BY DEF LastRecordIsTheDocument
  <2>1. \A b \in Askers : gens[b].run # r \/ gens[b].step # "appending"
    BY <1>1
  <2> QED
    BY <2>1 DEF IInv, LastRecordIsTheDocument
<1> QED
  BY <1>1, <1>2, <1>3, <1>4

LEMMA Others ==
  ASSUME IInv, NEW a \in Askers, gens[a].step # "none"
  PROVE  \A b \in Askers \ {a} : gens[b].step = "none"
BY DEF IInv, Alone

LEMMA GenFields ==
  ASSUME IInv, NEW a \in Askers
  PROVE  gens[a] \in Gens /\ Good(gens[a])
BY DEF IInv, TypeOK, Gens, Steps

\* generate() turns to writing a sound debrief.
LEMMA Written ==
  ASSUME IInv, NEW a \in Askers, gens[a].step \in {"asking", "repairing"},
         NEW d \in Docs, Sound(d), Writes(a, d), UNCHANGED files,
         UNCHANGED <<closed, queue, worker, asks, waits, failed, killed>>
  PROVE  IInv'
<1> DEFINE gen == [gens[a] EXCEPT !.step = "writing", !.doc = d]
<1>1. gen \in Gens /\ gen.step = "writing" /\ Good(gen)
  BY GenFields DEF Gens, Steps, Good
<1>2. Goes(a, gen)
  BY DEF Writes
<1> HIDE DEF gen
<1>3. /\ gens' \in [Askers -> Gens] /\ gens'[a] = gen
      /\ \A b \in Askers \ {a} : gens'[b] = gens[b]
      /\ \A b \in Askers : Good(gens'[b])
      /\ Alone' /\ Half' /\ DocumentIsSound' /\ LastRecordIsTheDocument'
  BY <1>1, <1>2, Others, Thought
<1>4. gens'[Hook].step # "none" => worker.at = "debrief"
  BY <1>3 DEF IInv, Placed, Askers
<1> QED
  BY <1>3, <1>4 DEF IInv, TypeOK, Placed, Gens, Steps

LEMMA AnalysisKeeps ==
  ASSUME IInv, NEW a \in Askers, NoAnalysis(a) \/ FirstAnswer(a) \/ SecondAnswer(a) \/ RepairRaises(a)
  PROVE  IInv'
<1>0. gens[a] \in Gens /\ Good(gens[a])
  BY GenFields
<1>1. CASE NoAnalysis(a)
  BY <1>1, UnavailableIsSound, Written DEF NoAnalysis
<1>2. CASE RepairRaises(a)
  <2>1. gens[a].first \in Answers
    BY <1>0, <1>2 DEF Good, RepairRaises
  <2> QED
    BY <1>2, <2>1, UnavailableIsSound, Written DEF RepairRaises
<1>3. CASE SecondAnswer(a)
  <2>1. gens[a].first \in Answers
    BY <1>0, <1>3 DEF Good, SecondAnswer
  <2>2. PICK y \in Answers \cup {NoAnswer} : Writes(a, Assembled(gens[a].first, y))
    BY <1>3 DEF SecondAnswer
  <2> QED
    BY <1>3, <2>1, <2>2, AssembledIsSound, Written DEF SecondAnswer
<1>4. CASE FirstAnswer(a)
  <2>1. PICK x \in Answers :
          IF AllOk(x) THEN Writes(a, Assembled(x, NoAnswer))
          ELSE Goes(a, [gens[a] EXCEPT !.step = "repairing", !.first = x])
    BY <1>4 DEF FirstAnswer
  <2>2. CASE AllOk(x)
    BY <1>4, <2>1, <2>2, AssembledIsSound, Written DEF FirstAnswer
  <2>3. CASE ~AllOk(x)
    <3> DEFINE gen == [gens[a] EXCEPT !.step = "repairing", !.first = x]
    <3>1. gen \in Gens /\ gen.step = "repairing" /\ Good(gen)
      BY <1>0, <1>4 DEF Gens, Steps, Good, FirstAnswer
    <3>2. Goes(a, gen)
      BY <2>1, <2>3
    <3> HIDE DEF gen
    <3>3. /\ gens' \in [Askers -> Gens] /\ gens'[a] = gen
          /\ \A b \in Askers \ {a} : gens'[b] = gens[b]
          /\ \A b \in Askers : Good(gens'[b])
          /\ Alone' /\ Half' /\ DocumentIsSound' /\ LastRecordIsTheDocument'
      BY <3>1, <3>2, <1>4, Others, Thought DEF FirstAnswer
    <3>4. gens'[Hook].step # "none" => worker.at = "debrief"
      BY <3>3, <1>4 DEF IInv, Placed, Askers, FirstAnswer
    <3> QED
      BY <3>3, <3>4, <1>4 DEF IInv, TypeOK, Placed, Gens, Steps, FirstAnswer
  <2> QED
    BY <2>2, <2>3
<1> QED
  BY <1>1, <1>2, <1>3, <1>4

\* The hook's worker after generate(), and no other asker's.
LEMMA WorkerAfter ==
  ASSUME IInv, NEW a \in Askers, NEW raised \in BOOLEAN, Over(a, raised), gens[a].step # "none"
  PROVE  /\ worker' \in [run : Runs \cup {NoRun}, at : {"idle", "summary", "notify", "debrief", "announce"}]
         /\ worker'.at # "idle" => worker'.run \in Runs
         /\ gens'[Hook].step # "none" => worker'.at = "debrief"
<1>0. worker \in [run : Runs \cup {NoRun}, at : {"idle", "summary", "notify", "debrief", "announce"}]
  BY DEF IInv, TypeOK
<1>1. NoGen \in Gens /\ Good(NoGen) /\ NoGen.step = "none"
  BY DEF NoGen, Gens, Good, Docs, Steps
<1>2. gens'[a] = NoGen /\ \A b \in Askers \ {a} : gens'[b] = gens[b]
  BY <1>1, Went DEF Over
<1>3. Hook \in Askers
  BY DEF Askers
<1>4. CASE a = Hook
  BY <1>0, <1>1, <1>2, <1>4 DEF IInv, Placed, Over, Rest
<1>5. CASE a # Hook
  BY <1>0, <1>2, <1>3, <1>5 DEF IInv, Placed, Over
<1> QED
  BY <1>4, <1>5

\* generate() is over without a trace.
LEMMA RaisesKeeps ==
  ASSUME IInv, NEW a \in Askers, Raises(a)
  PROVE  IInv'
<1>1. NoGen \in Gens /\ Good(NoGen) /\ NoGen.step = "none"
  BY DEF NoGen, Gens, Good, Docs, Steps
<1>2. Goes(a, NoGen) /\ gens[a].step # "none" /\ gens[a].step # "appending" /\ UNCHANGED files
  BY DEF Raises, Over
<1>3. /\ gens' \in [Askers -> Gens]
      /\ \A b \in Askers : Good(gens'[b])
      /\ Alone' /\ Half' /\ DocumentIsSound' /\ LastRecordIsTheDocument'
  BY <1>1, <1>2, Thought
<1>4. /\ worker' \in [run : Runs \cup {NoRun}, at : {"idle", "summary", "notify", "debrief", "announce"}]
      /\ worker'.at # "idle" => worker'.run \in Runs
      /\ gens'[Hook].step # "none" => worker'.at = "debrief"
  BY <1>2, WorkerAfter DEF Raises
<1>5. gens[a].run \in Runs
  BY <1>2, GenFields DEF Good
<1> QED
  BY <1>3, <1>4, <1>5 DEF IInv, TypeOK, Placed, Gens, Steps, Raises

---------------------------------------------------------------------------
(* The disk *)

LEMMA FileFields ==
  ASSUME IInv, NEW r \in Runs PROVE files \in [Runs -> Files] /\ files[r] \in Files
BY DEF IInv, TypeOK, Files

\* One file of one run changes.
LEMMA FileChanges ==
  ASSUME IInv, NEW r \in Runs, NEW file \in Files, files' = [files EXCEPT ![r] = file]
  PROVE  /\ files' \in [Runs -> Files] /\ files'[r] = file
         /\ \A q \in Runs \ {r} : files'[q] = files[q]
BY FileFields

LEMMA ReplaceKeeps ==
  ASSUME IInv, NEW a \in Askers, Replace(a)
  PROVE  IInv'
<1> DEFINE r == gens[a].run
           gen == [gens[a] EXCEPT !.step = "appending"]
           file == [files[r] EXCEPT !.doc = gens[a].doc, !.torn = FALSE]
<1>0. gens[a] \in Gens /\ Good(gens[a]) /\ gens[a].step = "writing"
  BY GenFields DEF Replace
<1>1. r \in Runs /\ Sound(gens[a].doc)
  BY <1>0 DEF Good
<1>2. /\ gen \in Gens /\ gen.step = "appending" /\ Good(gen)
      /\ gen.run = r /\ gen.doc = gens[a].doc
  BY <1>0 DEF Gens, Steps, Good
<1>3. file \in Files /\ file.doc = gens[a].doc /\ file.torn = FALSE
  BY <1>0, <1>1, FileFields DEF Files, Gens
<1>4. files' = [files EXCEPT ![r] = file]
  BY <1>1, FileFields DEF Replace
<1>5. Goes(a, gen)
  BY DEF Replace
<1>9. \A b \in Askers \ {a} : gens[b].step = "none"
  BY <1>0, Others
<1> HIDE DEF gen, file, r
<1>6. /\ gens' \in [Askers -> Gens] /\ gens'[a] = gen
      /\ \A b \in Askers \ {a} : gens'[b] = gens[b]
      /\ \A b \in Askers : Good(gens'[b])
      /\ Alone'
  BY <1>2, <1>5, <1>9, Went
<1>7. /\ files' \in [Runs -> Files] /\ files'[r] = file
      /\ \A q \in Runs \ {r} : files'[q] = files[q]
  BY <1>1, <1>3, <1>4, FileChanges
<1>8. DocumentIsSound'
  BY <1>1, <1>3, <1>7 DEF DocumentIsSound, IInv
<1>10. Half'
  BY <1>2, <1>3, <1>6, <1>7, <1>9 DEF Half
<1>11. LastRecordIsTheDocument'
  <2> SUFFICES ASSUME NEW q \in Runs, ~files'[q].torn,
                      \A b \in Askers : gens'[b].run # q \/ gens'[b].step # "appending"
               PROVE  files'[q].record = files'[q].doc
    BY DEF LastRecordIsTheDocument
  <2>1. q # r
    BY <1>2, <1>6
  <2>2. \A b \in Askers : gens[b].run # q \/ gens[b].step # "appending"
    BY <1>0, <1>6
  <2> QED
    BY <2>1, <2>2, <1>7 DEF IInv, LastRecordIsTheDocument
<1>12. gens'[Hook].step # "none" => worker.at = "debrief"
  BY <1>0, <1>6 DEF IInv, Placed, Askers
<1> QED
  BY <1>6, <1>7, <1>8, <1>10, <1>11, <1>12 DEF IInv, TypeOK, Placed, Gens, Files, Steps, Replace

\* The append, and what it leaves when it fails: both end generate().
LEMMA AppendKeeps ==
  ASSUME IInv, NEW a \in Askers, AppendRecord(a) \/ AppendFails(a)
  PROVE  IInv'
<1> DEFINE r == gens[a].run
           file == IF AppendRecord(a) THEN [files[r] EXCEPT !.record = gens[a].doc]
                   ELSE [files[r] EXCEPT !.torn = TRUE]
<1>0. gens[a] \in Gens /\ Good(gens[a]) /\ gens[a].step = "appending"
  BY GenFields DEF AppendRecord, AppendFails
<1>1. r \in Runs /\ files[r].doc = gens[a].doc
  BY <1>0 DEF Good, IInv, Half
<1>2. /\ file \in Files /\ file.doc = files[r].doc
      /\ file.torn \/ file.record = file.doc
  BY <1>0, <1>1, FileFields DEF Files, Gens
<1>3. files' = [files EXCEPT ![r] = file]
  <2>1. CASE AppendRecord(a)
    BY <1>1, <2>1, FileFields DEF AppendRecord
  <2>2. CASE ~AppendRecord(a)
    BY <1>1, <2>2, FileFields DEF AppendFails
  <2> QED
    BY <2>1, <2>2
<1>4. NoGen \in Gens /\ Good(NoGen) /\ NoGen.step = "none"
  BY DEF NoGen, Gens, Good, Docs, Steps
<1>5. \E raised \in BOOLEAN : Over(a, raised)
  BY DEF AppendRecord, AppendFails
<1>6. Goes(a, NoGen)
  BY <1>5 DEF Over
<1>7. \A b \in Askers \ {a} : gens[b].step = "none"
  BY <1>0, Others
<1> HIDE DEF file, r
<1>8. /\ gens' \in [Askers -> Gens] /\ gens'[a] = NoGen
      /\ \A b \in Askers \ {a} : gens'[b] = gens[b]
      /\ \A b \in Askers : Good(gens'[b])
      /\ Alone'
  BY <1>4, <1>6, Went
<1>9. /\ files' \in [Runs -> Files] /\ files'[r] = file
      /\ \A q \in Runs \ {r} : files'[q] = files[q]
  BY <1>1, <1>2, <1>3, FileChanges
<1>10. DocumentIsSound'
  BY <1>1, <1>2, <1>9 DEF DocumentIsSound, IInv
<1>11. Half'
  BY <1>4, <1>7, <1>8 DEF Half
<1>12. LastRecordIsTheDocument'
  <2> SUFFICES ASSUME NEW q \in Runs, ~files'[q].torn
               PROVE  files'[q].record = files'[q].doc
    BY DEF LastRecordIsTheDocument
  <2>1. CASE q = r
    BY <2>1, <1>2, <1>9
  <2>2. CASE q # r
    <3>1. \A b \in Askers : gens[b].run # q \/ gens[b].step # "appending"
      BY <2>2, <1>7 DEF r
    <3> QED
      BY <3>1, <2>2, <1>9 DEF IInv, LastRecordIsTheDocument
  <2> QED
    BY <2>1, <2>2
<1>13. /\ worker' \in [run : Runs \cup {NoRun}, at : {"idle", "summary", "notify", "debrief", "announce"}]
       /\ worker'.at # "idle" => worker'.run \in Runs
       /\ gens'[Hook].step # "none" => worker'.at = "debrief"
  BY <1>0, <1>5, WorkerAfter
<1> QED
  BY <1>8, <1>9, <1>10, <1>11, <1>12, <1>13
     DEF IInv, TypeOK, Placed, Gens, Files, Steps, AppendRecord, AppendFails

LEMMA GenerateKeeps ==
  ASSUME IInv, NEW a \in Askers, Generate(a) PROVE IInv'
BY AnalysisKeeps, RaisesKeeps, ReplaceKeeps, AppendKeeps DEF Generate

---------------------------------------------------------------------------
(* The worker, the API and the process *)

\* A debrief starts when no other is under way.
LEMMA StartsAlone ==
  ASSUME IInv, NEW a \in Askers, NEW r \in Runs, Starts(a, r), UNCHANGED files,
         a = Hook => worker.at = "debrief", UNCHANGED worker
  PROVE  /\ gens' \in [Askers -> Gens]
         /\ \A b \in Askers : Good(gens'[b])
         /\ Alone' /\ Half' /\ DocumentIsSound' /\ LastRecordIsTheDocument'
         /\ gens'[Hook].step # "none" => worker'.at = "debrief"
<1> DEFINE gen == [NoGen EXCEPT !.run = r, !.step = "asking"]
<1>1. gen \in Gens /\ Good(gen) /\ gen.step = "asking"
  BY DEF NoGen, Gens, Good, Docs, Steps
<1>2. Goes(a, gen) /\ \A b \in Askers : gens[b].step = "none"
  BY DEF Starts, LockFree
<1> HIDE DEF gen
<1>3. /\ gens' \in [Askers -> Gens] /\ gens'[a] = gen
      /\ \A b \in Askers \ {a} : gens'[b] = gens[b]
      /\ \A b \in Askers : Good(gens'[b])
      /\ Alone' /\ Half' /\ DocumentIsSound' /\ LastRecordIsTheDocument'
  BY <1>1, <1>2, Thought
<1>4. gens'[Hook].step # "none" => worker'.at = "debrief"
  BY <1>2, <1>3 DEF Askers
<1> QED
  BY <1>3, <1>4

\* A notice or a summary says nothing of the debrief.
LEMMA NoticeKeeps ==
  ASSUME IInv, NEW r \in Runs, NEW file \in Files, files' = [files EXCEPT ![r] = file],
         file.doc = files[r].doc, file.record = files[r].record, file.torn = files[r].torn,
         UNCHANGED gens
  PROVE  /\ files' \in [Runs -> Files]
         /\ Half' /\ DocumentIsSound' /\ LastRecordIsTheDocument'
<1>1. /\ files' \in [Runs -> Files] /\ files'[r] = file
      /\ \A q \in Runs \ {r} : files'[q] = files[q]
  BY FileChanges
<1>2. \A q \in Runs : /\ files'[q].doc = files[q].doc
                      /\ files'[q].record = files[q].record
                      /\ files'[q].torn = files[q].torn
  BY <1>1
<1>3. \A a \in Askers : gens[a].step = "appending" => gens[a].run \in Runs
  BY GenFields DEF Good
<1>4. Half'
  BY <1>2, <1>3 DEF IInv, Half
<1>5. DocumentIsSound'
  BY <1>2 DEF IInv, DocumentIsSound
<1>6. LastRecordIsTheDocument'
  BY <1>2 DEF IInv, LastRecordIsTheDocument
<1> QED
  BY <1>1, <1>4, <1>5, <1>6

LEMMA CallbackKeeps == ASSUME IInv, Callback PROVE IInv'
<1>0. /\ worker \in [run : Runs \cup {NoRun}, at : {"idle", "summary", "notify", "debrief", "announce"}]
      /\ queue \in Seq(Runs) /\ gens \in [Askers -> Gens] /\ Hook \in Askers
      /\ worker.at # "idle" => worker.run \in Runs
      /\ gens[Hook].step # "none" => worker.at = "debrief"
  BY DEF IInv, TypeOK, Placed, Gens, Steps, Askers
<1>1. CASE TakeRun
  <2>1. Head(queue) \in Runs /\ Tail(queue) \in Seq(Runs)
    BY <1>0, <1>1 DEF TakeRun
  <2> QED
    BY <1>0, <1>1, <2>1 DEF TakeRun, Rest, IInv, TypeOK, Placed, Alone, Half, DocumentIsSound,
       LastRecordIsTheDocument, Good
<1>2. CASE StoreSummary
  <2> DEFINE r == worker.run
  <2>1. PICK raised \in BOOLEAN :
          /\ files' = [files EXCEPT ![r].summary = @ \/ ~raised]
          /\ worker' = NextCallback("notify", raised)
    BY <1>2 DEF StoreSummary
  <2> DEFINE file == [files[r] EXCEPT !.summary = @ \/ ~raised]
  <2>2. r \in Runs
    BY <1>0, <1>2 DEF StoreSummary
  <2>3. /\ file \in Files /\ files' = [files EXCEPT ![r] = file]
        /\ file.doc = files[r].doc /\ file.record = files[r].record /\ file.torn = files[r].torn
    BY <2>1, <2>2, FileFields DEF Files
  <2> HIDE DEF file
  <2>4. files' \in [Runs -> Files] /\ Half' /\ DocumentIsSound' /\ LastRecordIsTheDocument'
    BY <1>2, <2>2, <2>3, NoticeKeeps DEF StoreSummary
  <2> QED
    BY <1>0, <1>2, <2>1, <2>2, <2>4 DEF StoreSummary, NextCallback, IInv, TypeOK, Placed, Alone,
       Good, Files
<1>3. CASE Notify
  <2> DEFINE r == worker.run
  <2>1. PICK raised \in BOOLEAN :
          /\ files' = [files EXCEPT ![r].notice =
               IF raised THEN @ ELSE <<IF files[r].summary THEN "result" ELSE "blank">>]
          /\ worker' = NextCallback("debrief", raised)
    BY <1>3 DEF Notify
  <2> DEFINE notice == IF raised THEN files[r].notice
                       ELSE <<IF files[r].summary THEN "result" ELSE "blank">>
             file == [files[r] EXCEPT !.notice = notice]
  <2>2. r \in Runs
    BY <1>0, <1>3 DEF Notify
  <2>3. notice \in Seq({"result", "blank", "debrief"})
    <3> DEFINE Lines == {"result", "blank", "debrief"}
               line == IF files[r].summary THEN "result" ELSE "blank"
    <3>1. files[r].notice \in Seq(Lines) /\ line \in Lines
      BY <2>2, FileFields DEF Files
    <3> HIDE DEF Lines, line
    <3>2. <<line>> \in Seq(Lines)
      BY <3>1
    <3> QED
      BY <3>1, <3>2 DEF Lines, line
  <2>4. files' = [files EXCEPT ![r] = file]
    BY <2>1, <2>2, FileFields DEF Files
  <2> HIDE DEF notice
  <2>5. /\ file \in Files
        /\ file.doc = files[r].doc /\ file.record = files[r].record /\ file.torn = files[r].torn
    BY <2>2, <2>3, FileFields DEF Files
  <2> HIDE DEF file
  <2>6. files' \in [Runs -> Files] /\ Half' /\ DocumentIsSound' /\ LastRecordIsTheDocument'
    BY <1>3, <2>2, <2>4, <2>5, NoticeKeeps DEF Notify
  <2> QED
    BY <1>0, <1>3, <2>1, <2>2, <2>6 DEF Notify, NextCallback, IInv, TypeOK, Placed, Alone,
       Good, Files
<1>4. CASE OnSessionEnd
  <2>1. CASE worker.run \in Debriefed
    <3>1. worker.run \in Runs /\ worker.at = "debrief"
      BY <1>0, <1>4 DEF OnSessionEnd
    <3>2. Starts(Hook, worker.run) /\ UNCHANGED <<worker, files>>
      BY <1>4, <2>1 DEF OnSessionEnd
    <3>3. /\ gens' \in [Askers -> Gens]
          /\ \A b \in Askers : Good(gens'[b])
          /\ Alone' /\ Half' /\ DocumentIsSound' /\ LastRecordIsTheDocument'
          /\ gens'[Hook].step # "none" => worker'.at = "debrief"
      BY <1>0, <3>1, <3>2, StartsAlone
    <3> QED
      BY <1>4, <3>2, <3>3 DEF OnSessionEnd, IInv, TypeOK, Placed, Gens, Steps
  <2>2. CASE worker.run \notin Debriefed
    BY <1>0, <1>4, <2>2 DEF OnSessionEnd, Rest, IInv, TypeOK, Placed, Alone, Half,
       DocumentIsSound, LastRecordIsTheDocument, Good
  <2> QED
    BY <2>1, <2>2
<1>5. CASE Announce
  <2> DEFINE r == worker.run
  <2>1. PICK raised \in BOOLEAN :
          files' = [files EXCEPT ![r].notice = IF raised THEN @ ELSE Append(@, "debrief")]
    BY <1>5 DEF Announce
  <2> DEFINE notice == IF raised THEN files[r].notice ELSE Append(files[r].notice, "debrief")
             file == [files[r] EXCEPT !.notice = notice]
  <2>2. r \in Runs
    BY <1>0, <1>5 DEF Announce
  <2>3. notice \in Seq({"result", "blank", "debrief"})
    <3> DEFINE Lines == {"result", "blank", "debrief"}
    <3>1. files[r].notice \in Seq(Lines) /\ "debrief" \in Lines
      BY <2>2, FileFields DEF Files
    <3> HIDE DEF Lines
    <3>2. Append(files[r].notice, "debrief") \in Seq(Lines)
      BY <3>1
    <3> QED
      BY <3>1, <3>2 DEF Lines
  <2>4. files' = [files EXCEPT ![r] = file]
    BY <2>1, <2>2, FileFields DEF Files
  <2> HIDE DEF notice
  <2>5. /\ file \in Files
        /\ file.doc = files[r].doc /\ file.record = files[r].record /\ file.torn = files[r].torn
    BY <2>2, <2>3, FileFields DEF Files
  <2> HIDE DEF file
  <2>6. files' \in [Runs -> Files] /\ Half' /\ DocumentIsSound' /\ LastRecordIsTheDocument'
    BY <1>5, <2>2, <2>4, <2>5, NoticeKeeps DEF Announce
  <2> QED
    BY <1>0, <1>5, <2>6 DEF Announce, Rest, IInv, TypeOK, Placed, Alone, Good, Files
<1> QED
  BY <1>1, <1>2, <1>3, <1>4, <1>5 DEF Callback

LEMMA FireKeeps == ASSUME IInv, NEW r \in Runs, Fire(r) PROVE IInv'
<1>1. queue' \in Seq(Runs)
  BY DEF IInv, TypeOK, Fire
<1> QED
  BY <1>1 DEF Fire, IInv, TypeOK, Placed, Alone, Half, DocumentIsSound,
     LastRecordIsTheDocument, Good

LEMMA ApiKeeps == ASSUME IInv, NEW a \in Requests, Ask(a) \/ Serve(a) PROVE IInv'
<1>1. CASE Ask(a)
  <2>1. PICK r \in closed : asks' = [asks EXCEPT ![a] = r]
    BY <1>1 DEF Ask
  <2>2. r \in Runs /\ asks \in [Requests -> Runs \cup {NoRun}] /\ waits \subseteq Requests
    BY DEF IInv, TypeOK
  <2>3. asks' \in [Requests -> Runs \cup {NoRun}] /\ asks'[a] = r
        /\ \A b \in Requests \ {a} : asks'[b] = asks[b]
    BY <2>1, <2>2
  <2>4. \A b \in waits' : asks'[b] \in Runs
    BY <1>1, <2>2, <2>3 DEF Ask, IInv, Placed
  <2> QED
    BY <1>1, <2>2, <2>3, <2>4 DEF Ask, IInv, TypeOK, Placed, Alone, Half, DocumentIsSound,
       LastRecordIsTheDocument, Good
<1>2. CASE Serve(a)
  <2>1. asks[a] \in Runs /\ a \in Askers /\ a # Hook
    BY <1>2, AskersAssumption DEF Serve, IInv, Placed, Askers
  <2>2. /\ gens' \in [Askers -> Gens]
        /\ \A b \in Askers : Good(gens'[b])
        /\ Alone' /\ Half' /\ DocumentIsSound' /\ LastRecordIsTheDocument'
        /\ gens'[Hook].step # "none" => worker'.at = "debrief"
    BY <1>2, <2>1, StartsAlone DEF Serve
  <2> QED
    BY <1>2, <2>2 DEF Serve, IInv, TypeOK, Placed, Gens, Steps
<1> QED
  BY <1>1, <1>2

\* A process that is killed leaves its files, and nothing under way.
LEMMA KillKeeps == ASSUME IInv, Kill PROVE IInv'
<1> DEFINE torn(r) == files[r].torn \/ \E a \in Askers : gens[a].run = r /\ gens[a].step = "appending"
<1>1. files \in [Runs -> Files]
  BY DEF IInv, TypeOK, Files
<1>2. \A r \in Runs : /\ files'[r] = [files[r] EXCEPT !.torn = torn(r)]
                      /\ torn(r) \in BOOLEAN
  BY <1>1 DEF Kill, Files
<1>3. /\ files' \in [Runs -> Files]
      /\ \A r \in Runs : /\ files'[r].doc = files[r].doc
                         /\ files'[r].record = files[r].record
                         /\ files'[r].torn = torn(r)
  <2>1. files' = [r \in Runs |-> files'[r]]
    BY DEF Kill
  <2>2. ASSUME NEW r \in Runs
        PROVE  /\ files'[r] \in Files
               /\ files'[r].doc = files[r].doc
               /\ files'[r].record = files[r].record
               /\ files'[r].torn = torn(r)
    <3> DEFINE t == torn(r)
    <3>1. t \in BOOLEAN /\ files'[r] = [files[r] EXCEPT !.torn = t] /\ files[r] \in Files
      BY <1>1, <1>2
    <3> HIDE DEF t
    <3>2. /\ files'[r] \in Files
          /\ files'[r].doc = files[r].doc
          /\ files'[r].record = files[r].record
          /\ files'[r].torn = t
      BY <3>1 DEF Files
    <3> QED
      BY <3>2 DEF t
  <2> QED
    BY <2>1, <2>2
<1>4. NoGen \in Gens /\ Good(NoGen) /\ NoGen.step = "none"
  BY DEF NoGen, Gens, Good, Docs, Steps
<1>5. gens' \in [Askers -> Gens] /\ \A a \in Askers : gens'[a] = NoGen
  BY <1>4 DEF Kill
<1>6. DocumentIsSound'
  BY <1>3 DEF IInv, DocumentIsSound
<1>7. LastRecordIsTheDocument'
  BY <1>3 DEF IInv, LastRecordIsTheDocument
<1>8. Alone' /\ Half' /\ \A a \in Askers : Good(gens'[a])
  BY <1>4, <1>5 DEF Alone, Half
<1>9. Placed'
  BY <1>4, <1>5 DEF Kill, Placed, Rest, Askers
<1> QED
  BY <1>3, <1>5, <1>6, <1>7, <1>8, <1>9 DEF Kill, Rest, IInv, TypeOK, Gens, Files, Steps

LEMMA NextKeeps == IInv /\ [Next]_vars => IInv'
<1> SUFFICES ASSUME IInv, [Next]_vars PROVE IInv'
  OBVIOUS
<1>1. CASE UNCHANGED vars
  BY <1>1 DEF vars, IInv, TypeOK, Placed, Alone, Half, DocumentIsSound,
     LastRecordIsTheDocument, Good
<1>2. CASE Next
  BY <1>2, FireKeeps, CallbackKeeps, GenerateKeeps, ApiKeeps, KillKeeps DEF Next
<1> QED
  BY <1>1, <1>2

\* The invariant of what happens after a run.
THEOREM AfterRaceInv == Spec => []IInv
BY InitInv, NextKeeps, PTL DEF Spec

\* Every state of the worker, the debriefs and the disk has its type.
THEOREM TypesOK == Spec => []TypeOK
<1>1. IInv => TypeOK
  BY DEF IInv
<1> QED
  BY <1>1, AfterRaceInv, PTL

\* Whatever the answers and whoever asked, what is on disk is sound.
THEOREM DocumentsAreSound == Spec => []DocumentIsSound
<1>1. IInv => DocumentIsSound
  BY DEF IInv
<1> QED
  BY <1>1, AfterRaceInv, PTL

\* With any number of requests, a run's last record is of its debrief on disk.
THEOREM RecordsAreOfTheDocument == Spec => []LastRecordIsTheDocument
<1>1. IInv => LastRecordIsTheDocument
  BY DEF IInv
<1> QED
  BY <1>1, AfterRaceInv, PTL

=============================================================================
