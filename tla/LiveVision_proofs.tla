-------------------------- MODULE LiveVision_proofs --------------------------
(***************************************************************************)
(* What holds of the live vision worker for any sessions, cap and budget,  *)
(* any number of runs and however the threads interleave.                  *)
(***************************************************************************)
EXTENDS LiveVision, FiniteSetTheorems, TLAPS

One(test) == IF test THEN 1 ELSE 0

\* Where a sequence has a member of a set, and how often.
Positions(q, members) == {n \in DOMAIN q : q[n] \in members}
Count(q, members) == Cardinality(Positions(q, members))

Moments == Nat \ {0}
Records == {"start", "skip", "frames error", "note", "end"}

\* The count the cap is held against is of the moments queued and the one in hand.
Placed == pending = Count(queue, Moments) + One(worker \in Busy)

\* A call in hand was asked for while the budget had one left.
Paid == worker = "calling" => spent <= Budget

\* A run's journal starts once and ends with it; while it is open its calls are its notes.
GoodRun(run) ==
  /\ Len(run.journal) >= 1
  /\ \A n \in DOMAIN run.journal : (run.journal[n] = "start") <=> (n = 1)
  /\ \A n \in DOMAIN run.journal :
       (run.journal[n] = "end") <=> (n = Len(run.journal) /\ ~run.open)
  /\ run.endNotes = IF run.open THEN 0 ELSE Notes(run)
  /\ run.open => run.calls = Notes(run)

\* The open run of a session is one of its own, and open.
OpenRuns == \A s \in Sessions : open[s] # 0 => runs[open[s]].open /\ runs[open[s]].session = s

IInv == /\ TypeOK /\ Placed /\ Paid /\ SpendBounded /\ OpenRuns
        /\ \A i \in DOMAIN runs : GoodRun(runs[i])

---------------------------------------------------------------------------
(* Counting in a sequence *)

LEMMA CountType ==
  ASSUME NEW S, NEW q \in Seq(S), NEW T
  PROVE  IsFiniteSet(Positions(q, T)) /\ Count(q, T) \in Nat
<1>1. IsFiniteSet(1..Len(q))
  BY FS_Interval
<1>2. Positions(q, T) \in SUBSET (1..Len(q))
  BY DEF Positions
<1>3. IsFiniteSet(Positions(q, T))
  BY <1>1, <1>2, FS_Subset
<1> QED
  BY <1>3, FS_CardinalityType DEF Count

LEMMA CountMonotone ==
  ASSUME NEW S, NEW q \in Seq(S), NEW U, NEW T \in SUBSET U
  PROVE  Count(q, T) <= Count(q, U)
<1>1. Positions(q, T) \in SUBSET Positions(q, U)
  BY DEF Positions
<1> QED
  BY <1>1, CountType, FS_Subset DEF Count

LEMMA CountAppend ==
  ASSUME NEW S, NEW q \in Seq(S), NEW x \in S, NEW T
  PROVE  Count(Append(q, x), T) = Count(q, T) + One(x \in T)
<1> DEFINE r == Append(q, x)
           l == Len(q) + 1
<1>1. l \in Nat /\ DOMAIN r = 1..l /\ r[l] = x /\ DOMAIN q = 1..(l - 1)
  OBVIOUS
<1>2. \A n \in DOMAIN q : r[n] = q[n] /\ n # l
  OBVIOUS
<1>3. IsFiniteSet(Positions(q, T)) /\ l \notin Positions(q, T)
  BY <1>2, CountType DEF Positions
<1>4. DOMAIN r = DOMAIN q \cup {l}
  BY <1>1
<1> HIDE DEF r, l
<1>5. CASE x \in T
  <2>1. Positions(r, T) = Positions(q, T) \cup {l}
    BY <1>1, <1>2, <1>4, <1>5 DEF Positions
  <2> QED
    BY <2>1, <1>3, <1>5, FS_AddElement DEF Count, One, r
<1>6. CASE x \notin T
  <2>1. Positions(r, T) = Positions(q, T)
    BY <1>1, <1>2, <1>4, <1>6 DEF Positions
  <2> QED
    BY <2>1, <1>6, CountType DEF Count, One, r
<1> QED
  BY <1>5, <1>6

LEMMA CountTail ==
  ASSUME NEW S, NEW q \in Seq(S), q # <<>>, NEW T
  PROVE  Count(q, T) = Count(Tail(q), T) + One(Head(q) \in T)
<1> DEFINE t == Tail(q)
           P == Positions(q, T) \ {1}
           f == [n \in P |-> n - 1]
<1>1. /\ t \in Seq(S) /\ Len(q) \in Nat \ {0} /\ DOMAIN q = 1..Len(q)
      /\ DOMAIN t = 1..(Len(q) - 1) /\ q[1] = Head(q)
      /\ \A n \in DOMAIN t : t[n] = q[n + 1]
  OBVIOUS
<1> HIDE DEF t
<1>2. IsFiniteSet(P) /\ IsFiniteSet(Positions(q, T)) /\ IsFiniteSet(Positions(t, T))
  BY <1>1, CountType, FS_RemoveElement
<1>3. f \in Bijection(P, Positions(t, T))
  <2>1. P \subseteq 2..Len(q)
    BY <1>1 DEF Positions
  <2>2. \A n \in P : n - 1 \in Positions(t, T)
    BY <1>1, <2>1 DEF Positions
  <2>3. \A n \in Positions(t, T) : n + 1 \in P /\ (n + 1) - 1 = n
    BY <1>1 DEF Positions
  <2>4. \A m, n \in P : m - 1 = n - 1 => m = n
    BY <2>1
  <2> HIDE DEF P
  <2>5. f \in [P -> Positions(t, T)] /\ \A n \in P : f[n] = n - 1
    BY <2>2
  <2>6. f \in Injection(P, Positions(t, T))
    BY <2>4, <2>5 DEF Injection, IsInjective
  <2>7. \A n \in Positions(t, T) : \E m \in P : f[m] = n
    BY <2>3, <2>5
  <2> QED
    BY <2>5, <2>6, <2>7 DEF Bijection, Surjection
<1>4. Cardinality(Positions(t, T)) = Cardinality(P)
  BY <1>2, <1>3, FS_Bijection DEF ExistsBijection
<1>5. 1 \in Positions(q, T) <=> Head(q) \in T
  BY <1>1 DEF Positions
<1>6. Cardinality(P) = IF 1 \in Positions(q, T) THEN Cardinality(Positions(q, T)) - 1
                                               ELSE Cardinality(Positions(q, T))
  BY <1>2, FS_RemoveElement
<1>7. Cardinality(Positions(q, T)) \in Nat
  BY <1>2, FS_CardinalityType
<1> QED
  BY <1>4, <1>5, <1>6, <1>7 DEF Count, One, t

LEMMA CountsOfNow ==
  ASSUME NEW i
  PROVE  Waiting(i) = Count(queue, {i}) + One(moment = i /\ worker \in Busy \ {"settling"})
<1>1. {n \in DOMAIN queue : queue[n] = i} = Positions(queue, {i})
  BY DEF Positions
<1> QED
  BY <1>1 DEF Waiting, Count, One

LEMMA CountsOfNext ==
  ASSUME NEW i
  PROVE  Waiting(i)' = Count(queue', {i}) + One(moment' = i /\ worker' \in Busy \ {"settling"})
<1>1. {n \in DOMAIN queue' : queue'[n] = i} = Positions(queue', {i})
  BY DEF Positions
<1> QED
  BY <1>1 DEF Waiting, Count, One

LEMMA NotesCounted == ASSUME NEW run PROVE Notes(run) = Count(run.journal, {"note"})
<1>1. {n \in DOMAIN run.journal : run.journal[n] = "note"} = Positions(run.journal, {"note"})
  BY DEF Positions
<1> QED
  BY <1>1 DEF Notes, Count

LEMMA NotesAppend ==
  ASSUME NEW run, NEW next, NEW record \in Records, run.journal \in Seq(Records),
         next.journal = Append(run.journal, record)
  PROVE  /\ Notes(run) \in Nat
         /\ Notes(next) = Notes(run) + One(record = "note")
<1>1. Count(Append(run.journal, record), {"note"})
        = Count(run.journal, {"note"}) + One(record \in {"note"})
  BY CountAppend
<1>2. Count(run.journal, {"note"}) \in Nat
  BY CountType
<1> QED
  BY <1>1, <1>2, NotesCounted DEF One

---------------------------------------------------------------------------
(* What may become of a run *)

\* A run changed but not closed: its own, as good, and its calls grown by k.
Keeps(run, next, k) ==
  /\ next \in RunType /\ GoodRun(next)
  /\ next.open = run.open /\ next.session = run.session /\ next.calls = run.calls + k

LEMMA Bounds == /\ MaxCalls \in Nat \ {0} /\ Budget \in Nat \ {0}
                /\ MinGap \in Nat /\ MaxTime \in Nat /\ MaxRuns \in Nat /\ MaxRecords \in Nat
BY BoundsAssumption

LEMMA FreshRun ==
  ASSUME NEW s \in Sessions
  PROVE  /\ NewRun(s) \in RunType /\ GoodRun(NewRun(s))
         /\ NewRun(s).open /\ NewRun(s).session = s /\ NewRun(s).calls = 0
<1> DEFINE run == NewRun(s)
<1>1. /\ run.open = TRUE /\ run.session = s /\ run.calls = 0 /\ run.endNotes = 0
      /\ run.journal = <<"start">>
  BY DEF NewRun
<1>2. "start" \in Records
  BY DEF Records
<1> HIDE DEF Records
<1>3. <<"start">> \in Seq(Records)
  BY <1>2
<1>4. run \in RunType
  BY <1>3 DEF NewRun, RunType, Records, Never
<1>5. Positions(run.journal, {"note"}) = {}
  BY <1>1 DEF Positions
<1>6. Notes(run) = 0
  BY <1>5, NotesCounted, FS_EmptySet DEF Count
<1> QED
  BY <1>1, <1>4, <1>6 DEF GoodRun

LEMMA Written ==
  ASSUME NEW run \in RunType, GoodRun(run), NEW record \in Records,
         record \notin {"start", "end", "note"}
  PROVE  Keeps(run, Write(run, record), 0)
<1>1. CASE ~run.open
  <2>1. Write(run, record) = run /\ run.calls \in Nat
    BY <1>1 DEF Write, RunType
  <2> QED
    BY <2>1 DEF Keeps
<1>2. CASE run.open
  <2> DEFINE next == [run EXCEPT !.journal = Append(run.journal, record)]
  <2>1. run.journal \in Seq(Records) /\ run.calls \in Nat
    BY DEF RunType, Records
  <2> HIDE DEF Records
  <2>2. Append(run.journal, record) \in Seq(Records)
    BY <2>1
  <2>3. next \in RunType
    BY <2>2 DEF RunType, Records
  <2>4. /\ next.journal = Append(run.journal, record)
        /\ next.open = run.open /\ next.session = run.session /\ next.calls = run.calls
        /\ next.endNotes = run.endNotes
    BY DEF RunType
  <2>5. Notes(next) = Notes(run)
    <3>1. Notes(next) = Notes(run) + One(record = "note") /\ Notes(run) \in Nat
      BY <2>1, <2>4, NotesAppend
    <3> QED
      BY <3>1 DEF One
  <2> HIDE DEF next
  <2>6. GoodRun(next)
    BY <1>2, <2>1, <2>4, <2>5 DEF GoodRun
  <2>7. Write(run, record) = next
    BY <1>2 DEF Write, next
  <2> QED
    BY <2>1, <2>3, <2>4, <2>6, <2>7 DEF Keeps
<1> QED
  BY <1>1, <1>2

LEMMA Filed ==
  ASSUME NEW run \in RunType, GoodRun(run)
  PROVE  Keeps(run, Write(Counted(run), "note"), 1)
<1> DEFINE more == run.calls + 1
           counted == Counted(run)
           next == [counted EXCEPT !.journal = Append(run.journal, "note")]
<1>1. run.journal \in Seq(Records) /\ run.calls \in Nat /\ "note" \in Records
  BY DEF RunType, Records
<1> HIDE DEF Records
<1>2. /\ Append(run.journal, "note") \in Seq(Records) /\ more \in Nat
      /\ counted = [run EXCEPT !.calls = more]
  BY <1>1 DEF Counted
<1> HIDE DEF more
<1>3. /\ counted.journal = run.journal /\ counted.open = run.open
      /\ counted.session = run.session /\ counted.calls = more
      /\ counted.endNotes = run.endNotes
      /\ counted \in RunType
  BY <1>2 DEF RunType
<1>4. CASE ~run.open
  <2>1. Notes(counted) = Notes(run)
    BY <1>3 DEF Notes
  <2> HIDE DEF counted
  <2>2. GoodRun(counted)
    BY <1>3, <1>4, <2>1 DEF GoodRun
  <2>3. Write(counted, "note") = counted
    BY <1>3, <1>4 DEF Write
  <2> QED
    BY <1>3, <2>2, <2>3 DEF Keeps, more, counted
<1>5. CASE run.open
  <2>1. /\ next.journal = Append(run.journal, "note") /\ next.open = run.open
        /\ next.session = run.session /\ next.calls = more
        /\ next.endNotes = run.endNotes
    BY <1>3 DEF RunType
  <2>2. next \in RunType
    BY <1>2, <1>3 DEF RunType, Records
  <2>3. Write(counted, "note") = next
    BY <1>3, <1>5 DEF Write
  <2> HIDE DEF next, counted
  <2>4. Notes(next) = Notes(run) + 1
    <3>1. Notes(next) = Notes(run) + One("note" = "note") /\ Notes(run) \in Nat
      BY <1>1, <2>1, NotesAppend
    <3> QED
      BY <3>1 DEF One
  <2>5. GoodRun(next)
    BY <1>1, <1>5, <2>1, <2>4 DEF GoodRun, more
  <2> QED
    BY <2>1, <2>2, <2>3, <2>5 DEF Keeps, more, counted
<1> QED
  BY <1>4, <1>5

LEMMA Noticed ==
  ASSUME NEW run \in RunType, GoodRun(run), NEW t \in Nat
  PROVE  /\ Keeps(run, [run EXCEPT !.shown = @ + 1], 0)
         /\ Keeps(run, [run EXCEPT !.lastT = t], 0)
<1> DEFINE more == run.shown + 1
<1>1. run.calls \in Nat /\ run.shown \in Nat
  BY DEF RunType
<1>2. more \in Nat
  BY <1>1
<1> HIDE DEF more
<1>3. ASSUME NEW next, next = [run EXCEPT !.shown = more] \/ next = [run EXCEPT !.lastT = t]
      PROVE  Keeps(run, next, 0)
  <2>1. /\ next \in RunType /\ next.journal = run.journal /\ next.open = run.open
        /\ next.session = run.session /\ next.calls = run.calls /\ next.endNotes = run.endNotes
    <3>1. CASE next = [run EXCEPT !.shown = more]
      BY <1>2, <3>1 DEF RunType
    <3>2. CASE next = [run EXCEPT !.lastT = t]
      <4>1. t \in Int
        OBVIOUS
      <4> QED
        BY <3>2, <4>1 DEF RunType
    <3> QED
      BY <1>3, <3>1, <3>2
  <2>2. Notes(next) = Notes(run)
    BY <2>1 DEF Notes
  <2> QED
    BY <1>1, <2>1, <2>2 DEF GoodRun, Keeps
<1> QED
  BY <1>3 DEF more

LEMMA ClosedRun ==
  ASSUME NEW run \in RunType, GoodRun(run), run.open
  PROVE  /\ Closed(run) \in RunType /\ GoodRun(Closed(run))
         /\ Closed(run).calls = run.calls /\ ~Closed(run).open
         /\ Closed(run).session = run.session
<1> DEFINE next == Closed(run)
<1>1. run.journal \in Seq(Records) /\ run.calls \in Nat /\ "end" \in Records
  BY DEF RunType, Records
<1> HIDE DEF Records
<1>2. Append(run.journal, "end") \in Seq(Records)
  BY <1>1
<1>3. /\ next.journal = Append(run.journal, "end") /\ next.open = FALSE
      /\ next.session = run.session /\ next.calls = run.calls /\ next.endNotes = run.calls
  BY DEF Closed, EndNotes, RunType
<1>4. next \in RunType
  BY <1>1, <1>2 DEF Closed, EndNotes, RunType, Records
<1> HIDE DEF next
<1>5. Notes(next) = Notes(run)
  <2>1. Notes(next) = Notes(run) + One("end" = "note") /\ Notes(run) \in Nat
    BY <1>1, <1>3, NotesAppend
  <2> QED
    BY <2>1 DEF One
<1>6. GoodRun(next)
  BY <1>1, <1>3, <1>5 DEF GoodRun
<1> QED
  BY <1>3, <1>4, <1>6 DEF next

---------------------------------------------------------------------------
(* What a step does to the counts *)

\* The worker's part in the counts, and a moment's in a run's.
LEMMA InHand == One(TRUE) = 1 /\ One(FALSE) = 0
BY DEF One

LEMMA QueueTyped ==
  ASSUME TypeOK
  PROVE  /\ queue \in Seq(Nat) /\ Len(runs) \in Nat /\ DOMAIN runs = 1..Len(runs)
         /\ \A i \in DOMAIN runs : runs[i] \in RunType /\ runs[i].calls \in Nat
<1>1. runs \in Seq(RunType) /\ queue \in Seq(0..Len(runs))
  BY DEF TypeOK
<1>2. Len(runs) \in Nat /\ 0..Len(runs) \subseteq Nat
  BY <1>1
<1>3. queue \in [1..Len(queue) -> 0..Len(runs)] /\ Len(queue) \in Nat
  BY <1>1
<1>4. queue \in [1..Len(queue) -> Nat]
  BY <1>2, <1>3
<1>5. queue \in Seq(Nat)
  BY <1>3, <1>4
<1>6. \A i \in DOMAIN runs : runs[i] \in RunType
  BY <1>1
<1>7. \A r \in RunType : r.calls \in Nat
  BY DEF RunType
<1> QED
  BY <1>1, <1>2, <1>5, <1>6, <1>7

\* One run is changed, not closed, and neither queue nor the open runs are.
LEMMA OneRunChanged ==
  ASSUME TypeOK, OpenRuns, \A i \in DOMAIN runs : GoodRun(runs[i]),
         NEW m \in DOMAIN runs, NEW k \in Nat, NEW next, Keeps(runs[m], next, k),
         runs' = [runs EXCEPT ![m] = next], open' = open
  PROVE  /\ runs' \in Seq(RunType) /\ Len(runs') = Len(runs)
         /\ \A i \in DOMAIN runs' : GoodRun(runs'[i])
         /\ OpenRuns'
         /\ \A i \in DOMAIN runs : i # m => runs'[i] = runs[i]
         /\ runs'[m].calls = runs[m].calls + k
<1>1. runs \in Seq(RunType) /\ next \in RunType /\ GoodRun(next)
  BY DEF TypeOK, Keeps
<1>2. /\ runs' \in Seq(RunType) /\ Len(runs') = Len(runs) /\ DOMAIN runs' = DOMAIN runs
      /\ runs'[m] = next /\ \A i \in DOMAIN runs : i # m => runs'[i] = runs[i]
  BY <1>1
<1>3. next.open = runs[m].open /\ next.session = runs[m].session
      /\ next.calls = runs[m].calls + k
  BY DEF Keeps
<1>4. \A i \in DOMAIN runs' : GoodRun(runs'[i])
  BY <1>1, <1>2
<1>5. \A s \in Sessions : open[s] # 0 => open[s] \in DOMAIN runs
  BY <1>1 DEF TypeOK
<1>6. OpenRuns'
  BY <1>2, <1>3, <1>5 DEF OpenRuns
<1> QED
  BY <1>2, <1>3, <1>4, <1>6

---------------------------------------------------------------------------
(* Steps *)

LEMMA InitInv == Init => IInv
<1> SUFFICES ASSUME Init PROVE IInv
  OBVIOUS
<1>1. runs = <<>> /\ queue = <<>> /\ DOMAIN runs = {} /\ Len(runs) = 0
  BY DEF Init
<1>2. runs \in Seq(RunType) /\ queue \in Seq(0..Len(runs)) /\ 0 \in 0..Len(runs)
  BY <1>1
<1>3. Positions(queue, Moments) = {}
  BY <1>1 DEF Positions
<1>4. Count(queue, Moments) = 0
  BY <1>3, FS_EmptySet DEF Count
<1>5. TypeOK
  BY <1>2 DEF Init, TypeOK, Stages, Busy
<1>6. Placed /\ Paid /\ OpenRuns
  BY <1>4 DEF Init, Placed, Paid, OpenRuns, One, Busy
<1>7. SpendBounded
  BY <1>1, Bounds DEF Init, SpendBounded
<1> QED
  BY <1>1, <1>5, <1>6, <1>7 DEF IInv

\* Steps of the worker that change at most the run in hand, and count none of its calls.
LEMMA MomentKept ==
  ASSUME IInv, NEW next, moment \in DOMAIN runs, Keeps(runs[moment], next, 0),
         runs' = [runs EXCEPT ![moment] = next] \/ runs' = runs,
         worker \in Busy, worker' \in Busy \ {"settling"} => worker \in Busy \ {"settling"},
         worker' \in Busy, UNCHANGED <<session, source, time, open, queue, moment, pending, phase>>,
         spent' \in Nat, spent' <= Budget + 1, Paid'
  PROVE  IInv'
<1> USE DEF IInv
<1>1. TypeOK /\ OpenRuns /\ \A i \in DOMAIN runs : GoodRun(runs[i])
  OBVIOUS
<1>2. /\ runs' \in Seq(RunType) /\ Len(runs') = Len(runs) /\ DOMAIN runs' = DOMAIN runs
      /\ \A i \in DOMAIN runs' : GoodRun(runs'[i])
      /\ OpenRuns'
      /\ \A i \in DOMAIN runs : runs'[i].calls = runs[i].calls
  <2>1. CASE runs' = runs
    BY <1>1, <2>1 DEF OpenRuns, TypeOK
  <2>2. CASE runs' = [runs EXCEPT ![moment] = next]
    <3>1. runs[moment].calls + 0 = runs[moment].calls
      BY <1>1, QueueTyped
    <3> QED
      BY <1>1, <2>2, <3>1, OneRunChanged, QueueTyped
  <2> QED
    BY <2>1, <2>2
<1>3. TypeOK'
  BY <1>1, <1>2 DEF TypeOK, Stages
<1>4. Placed'
  BY DEF Placed
<1>5. SpendBounded'
  <2>1. ASSUME NEW i \in DOMAIN runs PROVE runs'[i].calls + Waiting(i)' <= MaxCalls
    <3>1. runs[i].calls + Waiting(i) <= MaxCalls
      BY DEF SpendBounded
    <3>2. Waiting(i)' <= Waiting(i) /\ Waiting(i) \in Nat /\ Waiting(i)' \in Nat
      <4>1. Count(queue, {i}) \in Nat /\ queue' = queue
        BY <1>1, QueueTyped, CountType
      <4> QED
        BY <4>1, CountsOfNow, CountsOfNext DEF One
    <3>3. runs[i].calls \in Nat /\ MaxCalls \in Nat
      BY <1>1, QueueTyped, Bounds
    <3> QED
      BY <3>1, <3>2, <3>3, <1>2
  <2> QED
    BY <1>2, <2>1 DEF SpendBounded
<1> QED
  BY <1>2, <1>3, <1>4, <1>5

\* Steps that leave the runs, what waits for them and the worker alone.
LEMMA Aside ==
  ASSUME IInv, UNCHANGED <<runs, open, worker, moment, pending>>,
         session' \in Sessions, source' \in Sessions \cup {Nobody}, time' \in Nat,
         spent' \in Nat, spent' <= Budget + 1, worker = "calling" => spent' <= Budget,
         phase' \in {"running", "stopping", "stopped"},
         queue' = queue \/ queue' = Append(queue, 0)
  PROVE  IInv'
<1> USE DEF IInv
<1>1. TypeOK /\ queue \in Seq(0..Len(runs)) /\ 0 \in 0..Len(runs)
  BY QueueTyped DEF TypeOK
<1>2. queue' \in Seq(0..Len(runs))
  BY <1>1
<1>3. TypeOK'
  BY <1>1, <1>2 DEF TypeOK
<1>4. ASSUME NEW T \in SUBSET Moments PROVE Count(queue', T) = Count(queue, T)
  <2>1. CASE queue' = Append(queue, 0)
    <3>1. 0 \notin T /\ Count(queue, T) \in Nat
      BY <1>1, CountType DEF Moments
    <3>2. Count(queue', T) = Count(queue, T) + One(0 \in T)
      BY <1>1, <2>1, CountAppend
    <3> QED
      BY <3>1, <3>2 DEF One
  <2> QED
    BY <2>1
<1>5. Placed'
  BY <1>4 DEF Placed
<1>6. ASSUME NEW i \in DOMAIN runs PROVE Waiting(i)' = Waiting(i)
  <2>1. {i} \in SUBSET Moments
    BY <1>1, QueueTyped DEF Moments
  <2> QED
    BY <1>4, <2>1, CountsOfNow, CountsOfNext
<1>7. SpendBounded' /\ Paid' /\ OpenRuns'
  BY <1>6 DEF SpendBounded, Paid, OpenRuns
<1> QED
  BY <1>3, <1>5, <1>7

LEMMA AroundKeeps ==
  IInv /\ (StartSource \/ Stop \/ Tick \/ Switch \/ AgentCall) => IInv'
<1> SUFFICES ASSUME IInv, StartSource \/ Stop \/ Tick \/ Switch \/ AgentCall PROVE IInv'
  OBVIOUS
<1> DEFINE Stays ==
             /\ runs' = runs /\ open' = open /\ worker' = worker /\ moment' = moment
             /\ pending' = pending
             /\ session' \in Sessions /\ source' \in Sessions \cup {Nobody} /\ time' \in Nat
             /\ spent' \in Nat /\ spent' <= Budget + 1
             /\ worker = "calling" => spent' <= Budget
             /\ phase' \in {"running", "stopping", "stopped"}
             /\ queue' = queue \/ queue' = Append(queue, 0)
<1>1. /\ TypeOK /\ spent \in Nat /\ spent <= Budget + 1
      /\ worker = "calling" => spent <= Budget
      /\ session \in Sessions /\ source \in Sessions \cup {Nobody} /\ time \in Nat
      /\ phase \in {"running", "stopping", "stopped"} /\ Budget \in Nat
  BY Bounds DEF IInv, TypeOK, SpendBounded, Paid
<1>2. CASE StartSource
  <2>1. Stays
    BY <1>1, <1>2 DEF StartSource
  <2> QED
    BY <2>1, Aside
<1>3. CASE Stop
  <2>1. Stays
    BY <1>1, <1>3 DEF Stop
  <2> QED
    BY <2>1, Aside
<1>4. CASE Tick
  <2>1. Stays
    BY <1>1, <1>4 DEF Tick
  <2> QED
    BY <2>1, Aside
<1>5. CASE Switch
  <2>1. Stays
    BY <1>1, <1>5 DEF Switch
  <2> QED
    BY <2>1, Aside
<1>6. CASE AgentCall
  <2>1. Stays
    BY <1>1, <1>6 DEF AgentCall
  <2> QED
    BY <2>1, Aside
<1> QED
  BY <1>2, <1>3, <1>4, <1>5, <1>6

LEMMA Closing ==
  ASSUME IInv, NEW which \in SUBSET Sessions, CloseRuns(which), source' \in Sessions \cup {Nobody},
         phase' \in {"running", "stopping", "stopped"},
         UNCHANGED <<session, time, queue, worker, moment, pending, spent>>
  PROVE  IInv'
<1> USE DEF IInv
<1> DEFINE ends(i) == \E s \in which : open[s] = i
           next(i) == IF ends(i) THEN Closed(runs[i]) ELSE runs[i]
<1>1. /\ TypeOK /\ runs \in Seq(RunType) /\ DOMAIN runs = 1..Len(runs) /\ Len(runs) \in Nat
      /\ open \in [Sessions -> 0..Len(runs)]
      /\ \A i \in DOMAIN runs : runs[i] \in RunType /\ GoodRun(runs[i])
  BY QueueTyped DEF TypeOK
<1>2. ASSUME NEW i \in DOMAIN runs, ends(i)
      PROVE  runs[i].open /\ \A s \in Sessions : open[s] = i => s = runs[i].session
  BY <1>1, <1>2 DEF OpenRuns
<1>3. ASSUME NEW i \in DOMAIN runs
      PROVE  /\ next(i) \in RunType /\ GoodRun(next(i)) /\ next(i).calls = runs[i].calls
             /\ next(i).session = runs[i].session
             /\ ~ends(i) => next(i) = runs[i]
  <2>1. CASE ends(i)
    BY <1>1, <1>2, <2>1, ClosedRun
  <2>2. CASE ~ends(i)
    BY <1>1, <2>2
  <2> QED
    BY <2>1, <2>2
<1>4. runs' = [i \in DOMAIN runs |-> next(i)]
  BY DEF CloseRuns
<1>5. open' = [s \in Sessions |-> IF s \in which THEN 0 ELSE open[s]]
  BY DEF CloseRuns
<1> HIDE DEF next
<1>6. /\ runs' \in Seq(RunType) /\ Len(runs') = Len(runs) /\ DOMAIN runs' = DOMAIN runs
      /\ \A i \in DOMAIN runs : runs'[i] = next(i)
  BY <1>1, <1>3, <1>4
<1>7. 0 \in 0..Len(runs)
  BY <1>1
<1>8. open' \in [Sessions -> 0..Len(runs')]
  BY <1>1, <1>5, <1>6, <1>7
<1>9. TypeOK'
  BY <1>1, <1>6, <1>8 DEF TypeOK
<1>10. OpenRuns'
  <2> SUFFICES ASSUME NEW s \in Sessions, open'[s] # 0
               PROVE  runs'[open'[s]].open /\ runs'[open'[s]].session = s
    BY DEF OpenRuns
  <2>1. s \notin which /\ open'[s] = open[s] /\ open[s] \in DOMAIN runs
    BY <1>1, <1>5
  <2>2. runs[open[s]].session = s /\ runs[open[s]].open
    BY <2>1 DEF OpenRuns
  <2>3. ~ends(open[s])
    BY <1>2, <2>1, <2>2
  <2>4. next(open[s]) = runs[open[s]]
    BY <1>3, <2>1, <2>3
  <2> QED
    BY <1>6, <2>1, <2>2, <2>4
<1>11. ASSUME NEW i \in DOMAIN runs PROVE Waiting(i)' = Waiting(i)
  BY CountsOfNow, CountsOfNext
<1>12. SpendBounded' /\ Paid' /\ Placed'
  BY <1>3, <1>6, <1>11 DEF SpendBounded, Paid, Placed
<1>13. \A i \in DOMAIN runs' : GoodRun(runs'[i])
  BY <1>3, <1>6
<1> QED
  BY <1>9, <1>10, <1>12, <1>13

LEMMA ClosingKeeps == IInv /\ (EndSession \/ StopJoined) => IInv'
<1> SUFFICES ASSUME IInv, EndSession \/ StopJoined PROVE IInv'
  OBVIOUS
<1>1. /\ source \in Sessions \cup {Nobody} /\ phase \in {"running", "stopping", "stopped"}
  BY DEF IInv, TypeOK
<1>2. CASE EndSession
  <2>1. {source} \in SUBSET Sessions
    BY <1>1, <1>2 DEF EndSession
  <2> QED
    BY <1>1, <1>2, <2>1, Closing DEF EndSession
<1>3. CASE StopJoined
  <2>1. Sessions \in SUBSET Sessions
    OBVIOUS
  <2> QED
    BY <1>1, <1>3, <2>1, Closing DEF StopJoined
<1> QED
  BY <1>2, <1>3

\* A moment's way through the worker, up to its filing.
LEMMA LookingKeeps ==
  IInv /\ (NoFramesInTime \/ FramesReady \/ GrabFails \/ AnalysisRaises \/ Answer \/ Publish)
    => IInv'
<1> SUFFICES ASSUME IInv,
                    \/ NoFramesInTime \/ FramesReady \/ GrabFails
                    \/ AnalysisRaises \/ Answer \/ Publish
             PROVE  IInv'
  OBVIOUS
<1>1. worker \in {"waiting", "calling", "answered"}
  BY DEF NoFramesInTime, FramesReady, GrabFails, AnalysisRaises, Answer, Publish
<1>2. /\ TypeOK /\ worker \in Busy /\ worker # "settling"
      /\ spent \in Nat /\ spent <= Budget + 1 /\ Budget \in Nat
      /\ worker = "calling" => spent <= Budget
  BY <1>1, Bounds DEF IInv, TypeOK, SpendBounded, Paid, Busy
<1>3. moment \in DOMAIN runs
  BY <1>2, QueueTyped DEF TypeOK
<1>4. runs[moment] \in RunType /\ GoodRun(runs[moment]) /\ runs[moment].calls \in Nat
  BY <1>2, <1>3, QueueTyped DEF IInv
<1>5. Keeps(runs[moment], runs[moment], 0)
  BY <1>4 DEF Keeps
<1> DEFINE Changes(r) ==
             /\ Keeps(runs[moment], r, 0)
             /\ runs' = [runs EXCEPT ![moment] = r] \/ runs' = runs
           Moves ==
             /\ worker' \in Busy /\ session' = session /\ source' = source /\ time' = time
             /\ open' = open /\ queue' = queue /\ moment' = moment /\ pending' = pending
             /\ phase' = phase /\ spent' \in Nat /\ spent' <= Budget + 1
             /\ worker' = "calling" => spent' <= Budget
<1>6. Moves
  <2>1. CASE NoFramesInTime \/ GrabFails \/ AnalysisRaises
    BY <1>2, <2>1 DEF NoFramesInTime, GrabFails, AnalysisRaises, Busy
  <2>2. CASE FramesReady
    <3>1. MaySpend => spent <= Budget
      BY <1>2 DEF MaySpend, OverBudget
    <3> QED
      BY <1>2, <2>2, <3>1 DEF FramesReady, Busy
  <2>3. CASE Answer
    BY <1>2, <2>3 DEF Answer, Busy
  <2>4. CASE Publish
    BY <1>2, <2>4 DEF Publish, Busy
  <2> QED
    BY <2>1, <2>2, <2>3, <2>4
<1>7. \E r : Changes(r)
  <2>1. CASE NoFramesInTime \/ AnalysisRaises \/ Answer
    BY <1>5, <2>1 DEF NoFramesInTime, AnalysisRaises, Answer
  <2>2. CASE FramesReady \/ GrabFails
    <3>1. /\ "skip" \in Records /\ "skip" \notin {"start", "end", "note"}
          /\ "frames error" \in Records /\ "frames error" \notin {"start", "end", "note"}
      BY DEF Records
    <3>2. /\ Keeps(runs[moment], Write(runs[moment], "skip"), 0)
          /\ Keeps(runs[moment], Write(runs[moment], "frames error"), 0)
      BY <1>4, <3>1, Written
    <3>3. \/ runs' = runs
          \/ runs' = [runs EXCEPT ![moment] = Write(runs[moment], "skip")]
          \/ runs' = [runs EXCEPT ![moment] = Write(runs[moment], "frames error")]
      BY <2>2 DEF FramesReady, GrabFails
    <3> QED
      BY <1>5, <3>2, <3>3
  <2>3. CASE Publish
    <3>1. Keeps(runs[moment], [runs[moment] EXCEPT !.shown = @ + 1], 0)
      BY <1>4, Noticed
    <3>2. \/ runs' = runs
          \/ runs' = [runs EXCEPT ![moment] = [runs[moment] EXCEPT !.shown = @ + 1]]
      BY <2>3 DEF Publish
    <3> QED
      BY <1>5, <3>1, <3>2
  <2> QED
    BY <2>1, <2>2, <2>3
<1>8. PICK r : Changes(r)
  BY <1>7
<1>9. Paid'
  BY <1>6 DEF Paid
<1> QED
  BY <1>2, <1>3, <1>6, <1>8, <1>9, MomentKept

LEMMA TakeKeeps == IInv /\ Take => IInv'
<1> SUFFICES ASSUME IInv, Take PROVE IInv'
  OBVIOUS
<1> USE DEF IInv
<1>1. /\ TypeOK /\ queue \in Seq(Nat) /\ queue \in Seq(0..Len(runs)) /\ queue # <<>>
      /\ queue' = Tail(queue) /\ worker = "idle" /\ moment' = Head(queue)
      /\ worker' = IF Head(queue) = 0 THEN "over" ELSE "waiting"
      /\ runs' = runs /\ open' = open /\ pending' = pending /\ spent' = spent
  BY QueueTyped DEF Take, TypeOK
<1>2. queue' \in Seq(0..Len(runs)) /\ moment' \in 0..Len(runs) /\ queue' \in Seq(Nat)
  BY <1>1
<1>3. TypeOK'
  BY <1>1, <1>2 DEF TypeOK, Take, Stages, Busy
<1>4. ASSUME NEW T
      PROVE  /\ Count(queue, T) = Count(queue', T) + One(Head(queue) \in T)
             /\ Count(queue', T) \in Nat
  BY <1>1, <1>2, CountTail, CountType
<1>5. Placed'
  <2>1. Head(queue) \in Moments <=> worker' \in Busy
    BY <1>1, <1>2 DEF Moments, Busy
  <2>2. worker \notin Busy
    BY <1>1 DEF Busy
  <2> QED
    BY <1>1, <1>4, <2>1, <2>2 DEF Placed, One
<1>6. ASSUME NEW i \in DOMAIN runs PROVE Waiting(i)' = Waiting(i)
  <2>1. i # 0
    BY <1>1, QueueTyped
  <2>2. Head(queue) \in {i} <=> moment' = i /\ worker' \in Busy \ {"settling"}
    BY <1>1, <2>1 DEF Busy
  <2>3. worker \notin Busy
    BY <1>1 DEF Busy
  <2>4. Waiting(i) = Count(queue, {i}) + 0
    BY <2>3, CountsOfNow DEF One
  <2>5. Waiting(i)' = Count(queue', {i}) + One(Head(queue) \in {i})
    BY <2>2, CountsOfNext DEF One
  <2>6. One(Head(queue) \in {i}) \in Nat
    BY DEF One
  <2> QED
    BY <1>4, <2>4, <2>5, <2>6
<1>7. SpendBounded' /\ Paid' /\ OpenRuns'
  BY <1>1, <1>6 DEF SpendBounded, Paid, OpenRuns
<1> QED
  BY <1>1, <1>3, <1>5, <1>7

LEMMA SettleKeeps == IInv /\ Settle => IInv'
<1> SUFFICES ASSUME IInv, Settle PROVE IInv'
  OBVIOUS
<1> USE DEF IInv
<1>1. /\ TypeOK /\ queue \in Seq(Nat) /\ worker = "settling" /\ worker' = "idle"
      /\ moment' = 0 /\ queue' = queue /\ pending' = pending - 1
      /\ runs' = runs /\ open' = open /\ spent' = spent
  BY QueueTyped DEF Settle
<1>2. pending = Count(queue, Moments) + 1 /\ Count(queue, Moments) \in Nat
  BY <1>1, CountType DEF Placed, One, Busy
<1>3. Placed'
  BY <1>1, <1>2 DEF Placed, One, Busy
<1>4. 0 \in 0..Len(runs)
  BY <1>1, QueueTyped
<1>5. TypeOK'
  BY <1>1, <1>2, <1>4 DEF TypeOK, Settle, Stages, Busy
<1>6. ASSUME NEW i \in DOMAIN runs PROVE Waiting(i)' = Waiting(i)
  BY <1>1, CountsOfNow, CountsOfNext DEF One, Busy
<1>7. SpendBounded' /\ Paid' /\ OpenRuns'
  BY <1>1, <1>6 DEF SpendBounded, Paid, OpenRuns
<1> QED
  BY <1>1, <1>3, <1>5, <1>7

LEMMA FileKeeps == IInv /\ File => IInv'
<1> SUFFICES ASSUME IInv, File PROVE IInv'
  OBVIOUS
<1> USE DEF IInv
<1> DEFINE next == Write(Counted(runs[moment]), "note")
<1>1. /\ TypeOK /\ OpenRuns /\ queue \in Seq(Nat) /\ worker = "filing" /\ worker' = "settling"
      /\ moment' = moment /\ queue' = queue /\ pending' = pending
      /\ open' = open /\ spent' = spent
      /\ \A i \in DOMAIN runs : GoodRun(runs[i])
  BY QueueTyped DEF File, AfterFiling
<1>2. moment \in DOMAIN runs
  BY <1>1, QueueTyped DEF TypeOK, Busy
<1>3. Keeps(runs[moment], next, 1)
  BY <1>1, <1>2, QueueTyped, Filed
<1>4. runs' = [runs EXCEPT ![moment] = next]
  BY DEF File
<1> HIDE DEF next
<1>5. /\ runs' \in Seq(RunType) /\ Len(runs') = Len(runs)
      /\ \A i \in DOMAIN runs' : GoodRun(runs'[i])
      /\ OpenRuns'
      /\ \A i \in DOMAIN runs : i # moment => runs'[i] = runs[i]
      /\ runs'[moment].calls = runs[moment].calls + 1
  <2>1. 1 \in Nat
    OBVIOUS
  <2> QED
    BY <1>1, <1>2, <1>3, <1>4, <2>1, OneRunChanged
<1>6. DOMAIN runs' = DOMAIN runs
  BY <1>4
<1>7. TypeOK'
  BY <1>1, <1>5 DEF TypeOK, File, Stages, Busy
<1>8. Placed' /\ Paid'
  BY <1>1 DEF Placed, Paid, Busy
<1>9. ASSUME NEW i \in DOMAIN runs PROVE runs'[i].calls + Waiting(i)' <= MaxCalls
  <2>1. runs[i].calls + Waiting(i) <= MaxCalls /\ runs[i].calls \in Nat /\ MaxCalls \in Nat
    BY <1>1, QueueTyped, Bounds DEF SpendBounded
  <2>2. Count(queue, {i}) \in Nat
    BY <1>1, CountType
  <2>3. CASE i = moment
    <3>1. Waiting(i) = Count(queue, {i}) + 1 /\ Waiting(i)' = Count(queue, {i}) + 0
      BY <1>1, <2>3, CountsOfNow, CountsOfNext DEF One, Busy
    <3> QED
      BY <1>5, <2>1, <2>2, <2>3, <3>1
  <2>4. CASE i # moment
    <3>1. Waiting(i) = Waiting(i)'
      BY <1>1, <2>4, CountsOfNow, CountsOfNext DEF One, Busy
    <3> QED
      BY <1>5, <2>1, <2>4, <3>1
  <2> QED
    BY <2>3, <2>4
<1>10. SpendBounded'
  BY <1>1, <1>6, <1>9 DEF SpendBounded
<1> QED
  BY <1>5, <1>7, <1>8, <1>10

\* _run: the open run of the session, or a fresh one, that nothing waits for yet.
LEMMA OpenedRuns ==
  ASSUME IInv
  PROVE  /\ Opened \in Seq(RunType) /\ RunOf \in DOMAIN Opened
         /\ Len(runs) <= Len(Opened) /\ RunOf \in Nat \ {0}
         /\ \A i \in DOMAIN runs : i \in DOMAIN Opened /\ Opened[i] = runs[i]
         /\ \A i \in DOMAIN Opened :
              GoodRun(Opened[i]) /\ Opened[i].calls + Waiting(i) <= MaxCalls
         /\ Opened[RunOf].open /\ Opened[RunOf].session = session
<1> USE DEF IInv
<1>1. /\ TypeOK /\ session \in Sessions /\ runs \in Seq(RunType) /\ Len(runs) \in Nat
      /\ DOMAIN runs = 1..Len(runs) /\ open \in [Sessions -> 0..Len(runs)]
      /\ queue \in Seq(0..Len(runs)) /\ queue \in Seq(Nat) /\ moment \in 0..Len(runs)
  BY QueueTyped DEF TypeOK
<1>2. CASE open[session] # 0
  BY <1>1, <1>2 DEF Opened, RunOf, OpenRuns, SpendBounded
<1>3. CASE open[session] = 0
  <2> DEFINE new == Len(runs) + 1
  <2>1. NewRun(session) \in RunType /\ GoodRun(NewRun(session)) /\ NewRun(session).open
        /\ NewRun(session).session = session /\ NewRun(session).calls = 0
    BY <1>1, FreshRun
  <2>2. Opened = Append(runs, NewRun(session)) /\ RunOf = new
    BY <1>3 DEF Opened, RunOf
  <2>3. /\ Opened \in Seq(RunType) /\ DOMAIN Opened = 1..new /\ Len(Opened) = new
        /\ new \in Nat \ {0} /\ Opened[new] = NewRun(session)
        /\ \A i \in DOMAIN runs : i \in DOMAIN Opened /\ Opened[i] = runs[i]
    BY <1>1, <2>1, <2>2
  <2>4. Waiting(new) = 0
    <3>1. Positions(queue, {new}) = {}
      BY <1>1 DEF Positions
    <3>2. Count(queue, {new}) = 0
      BY <3>1, FS_EmptySet DEF Count
    <3>3. moment # new
      BY <1>1
    <3> QED
      BY <3>2, <3>3, CountsOfNow DEF One
  <2> HIDE DEF new
  <2>5. \A i \in DOMAIN Opened : i = new \/ i \in DOMAIN runs
    BY <1>1, <2>3 DEF new
  <2>6. Opened[new].calls + Waiting(new) <= MaxCalls
    BY <2>1, <2>3, <2>4, Bounds
  <2>7. \A i \in DOMAIN Opened : GoodRun(Opened[i]) /\ Opened[i].calls + Waiting(i) <= MaxCalls
    BY <2>1, <2>3, <2>5, <2>6 DEF SpendBounded
  <2> QED
    BY <1>1, <2>1, <2>2, <2>3, <2>7 DEF new
<1> QED
  BY <1>1, <1>2, <1>3

LEMMA FlagKeeps == IInv /\ Flag => IInv'
<1> SUFFICES ASSUME IInv, Flag PROVE IInv'
  OBVIOUS
<1> USE DEF IInv
<1> DEFINE m == RunOf
           run == Opened[m]
<1>1. /\ TypeOK /\ session \in Sessions /\ queue \in Seq(Nat) /\ queue \in Seq(0..Len(runs))
      /\ DOMAIN runs = 1..Len(runs) /\ Len(runs) \in Nat /\ time \in Nat /\ pending \in Nat
      /\ open \in [Sessions -> 0..Len(runs)] /\ moment \in 0..Len(runs)
  BY QueueTyped DEF TypeOK
<1>2. /\ Opened \in Seq(RunType) /\ m \in DOMAIN Opened /\ m \in Nat \ {0}
      /\ Len(runs) <= Len(Opened)
      /\ \A i \in DOMAIN runs : i \in DOMAIN Opened /\ Opened[i] = runs[i]
      /\ \A i \in DOMAIN Opened :
           GoodRun(Opened[i]) /\ Opened[i].calls + Waiting(i) <= MaxCalls
      /\ run.open /\ run.session = session
  BY OpenedRuns
<1>3. /\ open' = [open EXCEPT ![session] = m] /\ session' = session /\ source' = source
      /\ time' = time /\ worker' = worker /\ moment' = moment /\ spent' = spent /\ phase' = phase
  BY DEF Flag
<1>4. run \in RunType /\ GoodRun(run) /\ run.calls \in Nat /\ Len(Opened) \in Nat
      /\ DOMAIN Opened = 1..Len(Opened)
  <2>1. run \in RunType /\ GoodRun(run)
    BY <1>2
  <2>2. \A r \in RunType : r.calls \in Nat
    BY DEF RunType
  <2>3. Len(Opened) \in Nat /\ DOMAIN Opened = 1..Len(Opened)
    BY <1>2
  <2> QED
    BY <2>1, <2>2, <2>3
<1> DEFINE Admits(r) ==
             /\ Keeps(run, r, 0)
             /\ runs' = [Opened EXCEPT ![m] = r]
           Queued == pending' = pending + 1 /\ queue' = Append(queue, m) /\ ~AtCap(run)
           Passed == pending' = pending /\ queue' = queue
<1>5. (\E r : Admits(r)) /\ (Queued \/ Passed)
  <2>1. CASE Merged(run) \/ AtCap(run)
    <3>1. Keeps(run, run, 0) /\ [Opened EXCEPT ![m] = run] = Opened
      BY <1>2, <1>4 DEF Keeps
    <3>2. \/ runs' = Opened /\ Passed
          \/ ~Merged(run) /\ ~AtCap(run)
      BY DEF Flag
    <3> QED
      BY <2>1, <3>1, <3>2
  <2>2. CASE ~Merged(run) /\ ~AtCap(run) /\ OverBudget(pending)
    <3>1. "skip" \in Records /\ "skip" \notin {"start", "end", "note"}
      BY DEF Records
    <3>2. Keeps(run, Write(run, "skip"), 0)
      BY <1>4, <3>1, Written
    <3>3. runs' = [Opened EXCEPT ![m] = Write(run, "skip")] /\ Passed
      BY <2>2 DEF Flag
    <3> QED
      BY <3>2, <3>3
  <2>3. CASE ~Merged(run) /\ ~AtCap(run) /\ ~OverBudget(pending)
    <3>1. Keeps(run, [run EXCEPT !.lastT = time], 0)
      BY <1>1, <1>4, Noticed
    <3>2. runs' = [Opened EXCEPT ![m] = [run EXCEPT !.lastT = time]] /\ Queued
      BY <2>3 DEF Flag
    <3> QED
      BY <3>1, <3>2
  <2> QED
    BY <2>1, <2>2, <2>3
<1>6. PICK r : Admits(r)
  BY <1>5
<1>7. /\ r \in RunType /\ GoodRun(r) /\ r.open /\ r.session = session
      /\ r.calls = run.calls
  BY <1>2, <1>4, <1>6 DEF Keeps
<1>8. /\ runs' \in Seq(RunType) /\ Len(runs') = Len(Opened) /\ DOMAIN runs' = DOMAIN Opened
      /\ runs'[m] = r /\ \A i \in DOMAIN Opened : i # m => runs'[i] = Opened[i]
  BY <1>2, <1>6, <1>7
<1> HIDE DEF m, run, Admits
<1>9. \A i \in DOMAIN runs' : GoodRun(runs'[i])
  BY <1>2, <1>7, <1>8
<1>10. m \in 0..Len(runs') /\ 0..Len(runs) \subseteq 0..Len(runs') /\ Len(runs') \in Nat
  BY <1>1, <1>2, <1>4, <1>8
<1>11. open' \in [Sessions -> 0..Len(runs')] /\ moment' \in 0..Len(runs')
  BY <1>1, <1>3, <1>10
<1>12. queue' \in Seq(0..Len(runs')) /\ pending' \in Nat
  <2>1. queue \in Seq(0..Len(runs'))
    <3>1. queue \in [1..Len(queue) -> 0..Len(runs)] /\ Len(queue) \in Nat
      BY <1>1
    <3>2. queue \in [1..Len(queue) -> 0..Len(runs')]
      BY <1>10, <3>1
    <3> QED
      BY <3>1, <3>2
  <2>2. m \in 0..Len(runs') /\ pending \in Nat
    BY <1>1, <1>10
  <2>3. CASE Queued
    <3>1. Append(queue, m) \in Seq(0..Len(runs'))
      BY <2>1, <2>2
    <3> QED
      BY <2>2, <2>3, <3>1
  <2>4. CASE Passed
    BY <2>1, <2>2, <2>4
  <2> QED
    BY <1>5, <2>3, <2>4
<1>13. TypeOK'
  BY <1>1, <1>3, <1>8, <1>11, <1>12 DEF TypeOK
<1>14. OpenRuns'
  <2> SUFFICES ASSUME NEW s \in Sessions, open'[s] # 0
               PROVE  runs'[open'[s]].open /\ runs'[open'[s]].session = s
    BY DEF OpenRuns
  <2>1. CASE s = session
    BY <1>1, <1>3, <1>7, <1>8, <2>1
  <2>2. CASE s # session
    <3>1. open'[s] = open[s] /\ open[s] \in DOMAIN runs
      BY <1>1, <1>3, <2>2
    <3>2. runs[open[s]].open /\ runs[open[s]].session = s
      BY <3>1 DEF OpenRuns
    <3>3. open[s] # m
      BY <1>2, <2>2, <3>1, <3>2 DEF run
    <3> QED
      BY <1>2, <1>8, <3>1, <3>2, <3>3
  <2> QED
    BY <2>1, <2>2
<1>15. ASSUME NEW T \in SUBSET Nat
       PROVE  /\ Count(queue, T) \in Nat
              /\ Queued => Count(queue', T) = Count(queue, T) + One(m \in T)
              /\ Passed => Count(queue', T) = Count(queue, T)
  <2>1. m \in Nat
    BY <1>2
  <2> QED
    BY <1>1, <2>1, CountAppend, CountType
<1>16. Placed' /\ Paid'
  <2>1. Moments \in SUBSET Nat /\ m \in Moments
    BY <1>2 DEF Moments
  <2>2. /\ Count(queue, Moments) \in Nat
        /\ Queued => Count(queue', Moments) = Count(queue, Moments) + 1
        /\ Passed => Count(queue', Moments) = Count(queue, Moments)
    BY <1>15, <2>1 DEF One
  <2> QED
    BY <1>3, <1>5, <2>2 DEF Placed, Paid, One
<1>17. ASSUME NEW i \in DOMAIN runs' PROVE runs'[i].calls + Waiting(i)' <= MaxCalls
  <2>1. /\ runs'[i].calls = Opened[i].calls /\ Opened[i].calls \in Nat
        /\ Opened[i].calls + Waiting(i) <= MaxCalls /\ i \in Nat \ {0}
    <3>1. Opened[i] \in RunType /\ i \in Nat \ {0}
      BY <1>2, <1>4, <1>8
    <3> QED
      BY <1>2, <1>7, <1>8, <3>1 DEF RunType, run
  <2>2. /\ Count(queue, {i}) \in Nat
        /\ Queued => Count(queue', {i}) = Count(queue, {i}) + One(m = i)
        /\ Passed => Count(queue', {i}) = Count(queue, {i})
    <3>1. {i} \in SUBSET Nat
      BY <2>1
    <3> QED
      BY <1>15, <3>1 DEF One
  <2> DEFINE hand == One(moment = i /\ worker \in Busy \ {"settling"})
  <2>3. Waiting(i) = Count(queue, {i}) + hand /\ Waiting(i)' = Count(queue', {i}) + hand
        /\ hand \in Nat
    BY <1>3, CountsOfNow, CountsOfNext DEF One
  <2>4. CASE Passed \/ m # i
    <3>1. Count(queue', {i}) = Count(queue, {i})
      BY <1>5, <2>2, <2>4 DEF One
    <3> QED
      BY <2>1, <2>3, <3>1
  <2>5. CASE Queued /\ m = i
    <3>1. Count(queue', {i}) = Count(queue, {i}) + 1
      BY <2>2, <2>5 DEF One
    <3>2. Waiting(i) <= pending
      <4>1. {i} \in SUBSET Moments
        BY <2>1 DEF Moments
      <4>2. Count(queue, {i}) <= Count(queue, Moments)
        BY <1>1, <4>1, CountMonotone
      <4>3. Count(queue, Moments) \in Nat
        BY <1>1, CountType
      <4>4. hand <= One(worker \in Busy) /\ One(worker \in Busy) \in Nat
        BY DEF One
      <4> HIDE DEF hand
      <4> QED
        BY <2>2, <2>3, <4>2, <4>3, <4>4 DEF Placed
    <3>3. run.calls + pending < MaxCalls
      BY <1>1, <1>4, <2>5, Bounds DEF AtCap
    <3>4. Opened[i].calls = run.calls
      BY <2>5 DEF run
    <3> HIDE DEF hand
    <3> QED
      BY <1>1, <1>4, <2>1, <2>2, <2>3, <3>1, <3>2, <3>3, <3>4, Bounds
  <2> QED
    BY <1>5, <2>4, <2>5
<1>18. SpendBounded'
  BY <1>3, <1>17 DEF SpendBounded
<1> QED
  BY <1>9, <1>13, <1>14, <1>16, <1>18

---------------------------------------------------------------------------
(* The theorems *)

LEMMA NextKeeps == IInv /\ [Next]_vars => IInv'
<1> SUFFICES ASSUME IInv, [Next]_vars PROVE IInv'
  OBVIOUS
<1>1. CASE UNCHANGED vars
  <2>1. ASSUME NEW i PROVE Waiting(i)' = Waiting(i)
    BY <1>1, CountsOfNow, CountsOfNext DEF vars
  <2> QED
    BY <1>1, <2>1 DEF vars, IInv, TypeOK, Placed, Paid, SpendBounded, OpenRuns
<1>2. CASE Next
  BY <1>2, FlagKeeps, TakeKeeps, LookingKeeps, FileKeeps, SettleKeeps, AroundKeeps, ClosingKeeps
     DEF Next, WorkerStep
<1> QED
  BY <1>1, <1>2

\* The invariant of the live vision worker.
THEOREM LiveVisionInv == Spec => []IInv
BY InitInv, NextKeeps, PTL DEF Spec

\* Every state of the worker has its type; the count of its moments never goes below zero.
THEOREM TypesOK == Spec => []TypeOK
<1>1. IInv => TypeOK
  BY DEF IInv
<1> QED
  BY <1>1, LiveVisionInv, PTL

\* Whatever the cap, the budget and the runs, no run costs more than its cap, and the
\* shared budget is overspent by the one call in hand at most.
THEOREM SpendIsBounded == Spec => []SpendBounded
<1>1. IInv => SpendBounded
  BY DEF IInv
<1> QED
  BY <1>1, LiveVisionInv, PTL

\* Whenever a run is closed, and whatever the worker is doing, its journal ends once and
\* counts the notes it has.
THEOREM EndsCountTheirNotes == Spec => []EndCountsItsNotes
<1>1. IInv => EndCountsItsNotes
  BY DEF IInv, GoodRun, EndCountsItsNotes
<1> QED
  BY <1>1, LiveVisionInv, PTL
=============================================================================
