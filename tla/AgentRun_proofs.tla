--------------------------- MODULE AgentRun_proofs ---------------------------
(***************************************************************************)
(* What holds of a wake-up for every agent: any tools, any answers, any    *)
(* number of tool iterations and of retries.                               *)
(***************************************************************************)
EXTENDS AgentRun, TLAPS

Base(k) == k * CallsPerConversation
One(test) == IF test THEN 1 ELSE 0

\* Calls the conversation under way can have made by now.
Made == CASE phase = "turn" -> run.iteration + One(~run.reask)
          [] phase = "again" -> run.iteration + 1
          [] OTHER -> run.iteration + 1 + One(~run.reask)

\* Conversations before the one under way.
Before == run.attempt + One(Repairing)

CallsBounded ==
  /\ phase \in Asking => calls <= Base(Before) + Made
  /\ phase = "backoff" => calls <= Base(run.attempt + 1)

\* A message that is said without refusal rests on what is known.
Rests(m, known) == m.speak /\ ~m.refused => m.cites \subseteq known /\ ~m.long

IInv ==
  /\ TypeOK /\ CallsBounded
  /\ phase = "idle" => run = NoRun
  /\ phase = "again" => ~run.reask
  /\ phase = "backoff" => ~Repairing /\ run.attempt < RetryAttempts
  /\ Repairing => RepairAttempts > 0
  /\ Rests(run.fallback, facts)

---------------------------------------------------------------------------
(* Arithmetic *)

LEMMA Counts ==
  /\ MaxToolIterations \in Nat /\ RetryAttempts \in Nat /\ RepairAttempts \in Nat
  /\ MaxRuns \in Nat
  /\ CallsPerConversation \in Nat /\ CallsPerConversation = MaxToolIterations + 3
BY CountsAssumption DEF CallsPerConversation

LEMMA BaseNext == ASSUME NEW k \in Nat
                  PROVE  Base(k) \in Nat /\ Base(k + 1) = Base(k) + CallsPerConversation
BY Counts DEF Base

LEMMA BaseGrows == ASSUME NEW k \in Nat, NEW n \in Nat, k <= n PROVE Base(k) <= Base(n)
<1> DEFINE c == CallsPerConversation
           d == n - k
<1>1. c \in Nat /\ d \in Nat /\ n = k + d
  BY Counts
<1> HIDE DEF c, d
<1>2. n * c = k * c + d * c /\ d * c >= 0 /\ k * c \in Nat /\ d * c \in Nat
  BY <1>1
<1>3. n * c >= k * c
  BY <1>2
<1> QED
  BY <1>3 DEF Base, c

---------------------------------------------------------------------------
(* What a returned call comes to *)

\* A turn is asked again, its answer is asked for, its tools were run, its answer is sent
\* to repair, or the run is over.
Continues(answer) ==
  \/ phase = "turn" /\ run.reask /\ Ask("again", FALSE)
  \/ phase \in {"turn", "again"} /\ (Ask("respond", run.reask) \/ Ask("structure", run.reask))
  \/ /\ phase \in {"turn", "again"} /\ OffersTools
     /\ \E ok \in SUBSET Tools, invalid \in BOOLEAN :
          run' = [run EXCEPT !.iteration = @ + 1, !.reask = run.reask, !.shown = @ \cup ok,
                             !.dangling = @ \/ invalid]
     /\ phase' = "turn" /\ UNCHANGED message
  \/ answer \in Answers /\ RepairAttempts > 0 /\ ~Repairing /\ Repair(answer)
Ends(answer) ==
  \/ Over(run.fallback)
  \/ /\ answer \in Answers /\ Over(ToMessage(answer, facts))

LEMMA ParsedTurn ==
  ASSUME NEW raw \in RawTurns
  PROVE  LET reply == Parsed(raw)
         IN  /\ reply.output = NoAnswer \/ reply.output \in Answers
             /\ reply.invalid \in BOOLEAN /\ reply.calls \subseteq Tools \cup {Unknown}
BY DEF Parsed, RawTurns

LEMMA Shapes ==
  ASSUME phase \in Asking, NEW raw \in RawTurns, NEW ok \in SUBSET Runnable(Parsed(raw)),
         Returns(Parsed(raw), ok)
  PROVE  \E answer : Continues(answer) \/ Ends(answer)
<1> DEFINE reply == Parsed(raw)
<1>1. /\ reply.output = NoAnswer \/ reply.output \in Answers
      /\ reply.invalid \in BOOLEAN
      /\ ok \in SUBSET Tools
  BY ParsedTurn DEF Runnable
<1>2. Returns(reply, ok)
  OBVIOUS
<1> HIDE DEF reply
<1>3. CASE phase = "turn" /\ reply.malformed /\ run.reask
  BY <1>2, <1>3 DEF Returns, Continues
<1>4. CASE reply.output \in Answers /\ Answered(reply.output)
  BY <1>4 DEF Answered, Continues, Ends
<1>5. CASE GiveUp
  BY <1>5 DEF GiveUp, Ends
<1>6. CASE phase \in {"turn", "again"} /\ TakeTurn(reply, ok, run.reask)
  <2>1. CASE RunTools(reply, ok, run.reask) /\ OffersTools
    BY <1>1, <1>6, <2>1 DEF RunTools, Continues
  <2>2. CASE Ask("respond", run.reask) \/ Ask("structure", run.reask)
    BY <1>6, <2>2 DEF Continues
  <2>3. \/ RunTools(reply, ok, run.reask) /\ OffersTools
        \/ GiveUp
        \/ reply.output \in Answers /\ Answered(reply.output)
        \/ Ask("respond", run.reask) \/ Ask("structure", run.reask)
    BY <1>1, <1>6 DEF TakeTurn, RunTools
  <2> QED
    BY <2>1, <2>2, <2>3, <1>4, <1>5
<1>7. \/ phase = "turn" /\ reply.malformed /\ run.reask
      \/ phase \in {"turn", "again"} /\ TakeTurn(reply, ok, run.reask)
      \/ reply.output \in Answers /\ Answered(reply.output)
      \/ GiveUp
  BY <1>1, <1>2 DEF Returns
<1> QED
  BY <1>3, <1>4, <1>5, <1>6, <1>7

---------------------------------------------------------------------------
(* Calls of a conversation *)

LEMMA MadeFits ==
  ASSUME IInv, phase \in Asking
  PROVE  Made \in Nat /\ Made + 1 <= CallsPerConversation
<1>1. run.iteration \in 0..MaxToolIterations /\ run.reask \in BOOLEAN
  BY DEF IInv, TypeOK, Runs
<1> QED
  BY <1>1, Counts DEF Made, One

LEMMA BeforeFits ==
  ASSUME IInv
  PROVE  /\ Before \in Nat /\ run.attempt \in Nat
         /\ Before + 1 <= RetryAttempts + 1 + One(RepairAttempts > 0)
<1>1. run.attempt \in 0..RetryAttempts
  BY DEF IInv, TypeOK, Runs
<1> QED
  BY <1>1, Counts DEF IInv, Before, One

\* There is always a call left for the conversation under way.
LEMMA CallsLeft == ASSUME IInv, phase \in Asking PROVE calls < MaxCallsOfRun
<1> DEFINE n == RetryAttempts + 1 + One(RepairAttempts > 0)
<1>1. calls \in Nat /\ calls <= Base(Before) + Made
  BY DEF IInv, TypeOK, CallsBounded
<1>2. n \in Nat /\ MaxCallsOfRun = Base(n)
  BY Counts DEF One, MaxCallsOfRun, Base
<1>3. Base(Before) \in Nat /\ Base(Before + 1) = Base(Before) + CallsPerConversation
  BY BeforeFits, BaseNext
<1>4. Base(Before + 1) <= Base(n) /\ Base(n) \in Nat
  <2>1. Before + 1 \in Nat /\ Before + 1 <= n
    BY BeforeFits
  <2> HIDE DEF n
  <2> QED
    BY <1>2, <2>1, BaseGrows, BaseNext
<1> HIDE DEF n
<1> QED
  BY <1>1, <1>2, <1>3, <1>4, MadeFits, Counts

LEMMA MessageTypes ==
  ASSUME NEW answer \in Answers, NEW known
  PROVE  /\ ToMessage(answer, known) \in Messages
         /\ ToMessage(answer, known) # NoMessage
         /\ Rests(ToMessage(answer, known), known)
<1>1. answer \in AllAnswers
  BY AnswersAssumption
<1> QED
  BY <1>1 DEF AllAnswers, ToMessage, Messages, NoMessage, Rests, Grounded

LEMMA RestsOnMore ==
  ASSUME NEW m, NEW known, NEW more, Rests(m, known), known \subseteq more PROVE Rests(m, more)
BY DEF Rests

\* A conversation that goes on keeps its bound.
LEMMA ContinuesKeeps ==
  ASSUME IInv, phase \in Asking, NEW answer, Continues(answer),
         NEW ok \in SUBSET Tools, facts' = facts \cup ok, calls' = calls + 1, UNCHANGED runs
  PROVE  IInv' /\ phase' \in Asking /\ message' = message
<1>0. /\ run \in Runs /\ calls \in Nat /\ facts \in SUBSET (Tools \cup {Input})
      /\ message \in Messages
      /\ calls <= Base(Before) + Made
  BY DEF IInv, TypeOK, CallsBounded
<1>1. facts' \in SUBSET (Tools \cup {Input}) /\ calls' \in Nat
  BY <1>0
<1>2. Base(Before) \in Nat /\ Base(Before + 1) = Base(Before) + CallsPerConversation
  BY BeforeFits, BaseNext
<1>3. ASSUME run' \in Runs, run'.attempt = run.attempt, run'.fallback = run.fallback
      PROVE  Before' = Before /\ Repairing' = Repairing /\ Rests(run'.fallback, facts')
  <2>1. Repairing' = Repairing
    BY <1>3 DEF Repairing
  <2>2. Rests(run'.fallback, facts')
    BY <1>3, RestsOnMore DEF IInv
  <2> QED
    BY <1>3, <2>1, <2>2 DEF Before
<1>4. CASE phase = "turn" /\ run.reask /\ Ask("again", FALSE)
  <2>1. /\ run' \in Runs /\ run'.attempt = run.attempt /\ run'.fallback = run.fallback
        /\ run'.iteration = run.iteration /\ run'.reask = FALSE
        /\ phase' = "again" /\ message' = message
    BY <1>0, <1>4 DEF Ask, Runs
  <2>2. calls' <= Base(Before)' + Made'
    <3>1. Made = run.iteration /\ Made' = run.iteration + 1 /\ run.iteration \in Nat
      BY <1>0, <1>4, <2>1, Counts DEF Made, One, Runs
    <3> QED
      BY <1>0, <1>2, <1>3, <2>1, <3>1 DEF Base
  <2> QED
    BY <1>0, <1>1, <1>3, <2>1, <2>2 DEF IInv, TypeOK, CallsBounded, Asking, Phases
<1>5. CASE phase \in {"turn", "again"} /\ (Ask("respond", run.reask) \/ Ask("structure", run.reask))
  <2>1. /\ run' \in Runs /\ run'.attempt = run.attempt /\ run'.fallback = run.fallback
        /\ run'.iteration = run.iteration /\ run'.reask = run.reask
        /\ phase' \in {"respond", "structure"} /\ message' = message
    BY <1>0, <1>5 DEF Ask, Runs
  <2>2. calls' <= Base(Before)' + Made'
    <3>1. Made + 1 <= Made' /\ Made \in Nat /\ Made' \in Nat
      BY <1>0, <1>5, <2>1, Counts DEF Made, One, Runs, IInv
    <3> QED
      BY <1>0, <1>2, <1>3, <2>1, <3>1 DEF Base
  <2> QED
    BY <1>0, <1>1, <1>3, <2>1, <2>2 DEF IInv, TypeOK, CallsBounded, Asking, Phases
<1>6. ASSUME phase \in {"turn", "again"}, OffersTools, phase' = "turn", UNCHANGED message,
             NEW got \in SUBSET Tools, NEW invalid \in BOOLEAN,
             run' = [run EXCEPT !.iteration = @ + 1, !.reask = run.reask, !.shown = @ \cup got,
                                !.dangling = @ \/ invalid]
      PROVE  IInv' /\ phase' \in Asking /\ message' = message
  <2> DEFINE i == run.iteration + 1
             s == run.shown \cup got
             d == run.dangling \/ invalid
  <2>1. i \in 0..MaxToolIterations /\ s \in SUBSET (Tools \cup {Input}) /\ d \in BOOLEAN
    BY <1>0, <1>6, Counts DEF OffersTools, Runs
  <2>2. run' = [run EXCEPT !.iteration = i, !.reask = run.reask, !.shown = s, !.dangling = d]
    BY <1>6
  <2> HIDE DEF i, s, d
  <2>3. /\ run' \in Runs /\ run'.attempt = run.attempt /\ run'.fallback = run.fallback
        /\ run'.iteration = i /\ run'.reask = run.reask
    BY <1>0, <2>1, <2>2 DEF Runs
  <2>4. calls' <= Base(Before)' + Made'
    <3>1. Made + 1 <= Made' /\ Made \in Nat /\ Made' \in Nat
      BY <1>0, <1>6, <2>1, <2>3, Counts DEF Made, One, Runs, IInv, i
    <3> QED
      BY <1>0, <1>2, <1>3, <2>3, <3>1 DEF Base
  <2> QED
    BY <1>0, <1>1, <1>3, <1>6, <2>3, <2>4 DEF IInv, TypeOK, CallsBounded, Asking, Phases
<1>7. CASE answer \in Answers /\ RepairAttempts > 0 /\ ~Repairing /\ Repair(answer)
  <2> DEFINE m == ToMessage(answer, facts)
  <2>1. m \in Messages /\ m # NoMessage /\ Rests(m, facts)
    BY <1>7, MessageTypes
  <2>2. run' = [run EXCEPT !.fallback = m, !.iteration = 0, !.reask = TRUE]
    BY <1>7 DEF Repair
  <2> HIDE DEF m
  <2>3. /\ run' \in Runs /\ run'.attempt = run.attempt /\ run'.fallback = m
        /\ run'.iteration = 0 /\ run'.reask = TRUE
    <3>1. 0 \in 0..MaxToolIterations
      BY Counts
    <3> QED
      BY <1>0, <2>1, <2>2, <3>1 DEF Runs
  <2>7. phase' = "turn" /\ message' = message
    BY <1>7 DEF Repair
  <2>4. Before' = Before + 1 /\ Made' = 0
    BY <1>0, <1>7, <2>1, <2>3, <2>7, Counts DEF Before, Repairing, Made, One, Runs
  <2>5. calls' <= Base(Before)' + Made'
    <3>1. Base(Before)' = Base(Before) + CallsPerConversation
      BY <1>2, <2>4 DEF Base, CallsPerConversation
    <3> QED
      BY <1>0, <1>2, <2>4, <3>1, MadeFits, Counts
  <2>6. Rests(m, facts')
    BY <2>1, RestsOnMore
  <2> QED
    BY <1>0, <1>1, <1>7, <2>1, <2>3, <2>5, <2>6, <2>7
       DEF IInv, TypeOK, CallsBounded, Asking, Phases, Repairing
<1> QED
  BY <1>4, <1>5, <1>6, <1>7 DEF Continues

\* A run that ends has a message of the right kind.
LEMMA EndsKeeps ==
  ASSUME IInv, phase \in Asking, NEW answer, Ends(answer),
         NEW ok \in SUBSET Tools, facts' = facts \cup ok, calls' = calls + 1, UNCHANGED runs
  PROVE  /\ IInv' /\ phase' = "idle" /\ message' \in Messages
         /\ Rests(message', facts')
         /\ Repairing => message' # NoMessage
<1>0. run \in Runs /\ calls \in Nat /\ facts \in SUBSET (Tools \cup {Input})
  BY DEF IInv, TypeOK
<1>1. phase' = "idle" /\ run' = NoRun
  BY DEF Ends, Over
<1>2. message' \in Messages /\ Rests(message', facts') /\ (Repairing => message' # NoMessage)
  <2>1. CASE Over(run.fallback)
    BY <1>0, <2>1, RestsOnMore DEF Over, Runs, IInv, Repairing
  <2>2. CASE answer \in Answers /\ Over(ToMessage(answer, facts))
    BY <2>2, MessageTypes, RestsOnMore DEF Over
  <2> QED
    BY <2>1, <2>2 DEF Ends
<1>3. NoRun \in Runs /\ NoRun.fallback = NoMessage /\ NoMessage \in Messages
  BY Counts DEF NoRun, Runs, NoMessage, Messages
<1>4. Rests(NoMessage, facts')
  BY DEF Rests, NoMessage
<1> QED
  BY <1>0, <1>1, <1>2, <1>3, <1>4 DEF IInv, TypeOK, CallsBounded, Asking, Phases, Repairing

---------------------------------------------------------------------------
(* Every step *)

LEMMA NoRunRests ==
  /\ NoRun \in Runs /\ NoRun.fallback = NoMessage /\ NoMessage \in Messages
  /\ NoRun.attempt = 0 /\ NoRun.iteration = 0
  /\ \A known : Rests(NoMessage, known)
BY Counts DEF NoRun, Runs, NoMessage, Messages, Rests

LEMMA InitInv == Init => IInv
BY NoRunRests, Counts DEF Init, IInv, TypeOK, CallsBounded, Asking, Phases, Repairing

LEMMA BeginKeeps ==
  ASSUME IInv, Begin PROVE IInv' /\ phase' = "turn" /\ message' = NoMessage
<1>1. PICK question \in BOOLEAN, got \in SUBSET Prefetch :
        /\ run' = [NoRun EXCEPT !.iterations = ToolIterations(question), !.reask = TRUE,
                                !.first = got \cup {Input}, !.shown = got \cup {Input}]
        /\ facts' = got \cup {Input}
  BY DEF Begin
<1> DEFINE n == ToolIterations(question)
           known == got \cup {Input}
<1>2. n \in 0..MaxToolIterations /\ known \in SUBSET (Tools \cup {Input})
  BY Counts, ToolsAssumption DEF ToolIterations, Least, QuestionToolIterations
<1>3. run' = [NoRun EXCEPT !.iterations = n, !.reask = TRUE, !.first = known, !.shown = known]
  BY <1>1
<1>4. facts' = known
  BY <1>1
<1> HIDE DEF n, known
<1>5. /\ run' \in Runs /\ run'.fallback = NoMessage /\ run'.attempt = 0
      /\ run'.iteration = 0 /\ run'.reask = TRUE
  BY <1>2, <1>3, NoRunRests DEF Runs
<1>6. Before' = 0 /\ Made' = 0
  BY <1>5 DEF Begin, Before, Made, One, Repairing
<1>7. calls' <= Base(Before)' + Made'
  BY <1>6, Counts DEF Begin, Base, CallsPerConversation
<1>8. runs' \in 0..MaxRuns
  BY Counts DEF Begin, IInv, TypeOK
<1> QED
  BY <1>2, <1>4, <1>5, <1>7, <1>8, NoRunRests
     DEF Begin, IInv, TypeOK, CallsBounded, Asking, Phases, Repairing

LEMMA BeginFailsKeeps == ASSUME IInv, BeginFails PROVE IInv'
<1>1. runs' \in 0..MaxRuns
  BY Counts DEF BeginFails, IInv, TypeOK
<1>2. Rests(run'.fallback, facts')
  BY NoRunRests DEF BeginFails, IInv
<1> QED
  BY <1>1, <1>2, NoRunRests DEF BeginFails, IInv, TypeOK, CallsBounded, Asking, Phases, Repairing

\* A call that returns continues the run or ends it.
LEMMA CompletesKeeps ==
  ASSUME IInv, Completes
  PROVE  /\ IInv' /\ calls < MaxCallsOfRun /\ phase \in Asking
         /\ \/ phase' \in Asking /\ message' = message
            \/ /\ phase' = "idle" /\ message' \in Messages
               /\ Rests(message', facts')
               /\ Repairing => message' # NoMessage
<1>0. PICK raw \in RawTurns :
        \E ok \in SUBSET Runnable(Parsed(raw)) :
          Returns(Parsed(raw), ok) /\ facts' = facts \cup ok
  BY DEF Completes
<1>1. PICK ok \in SUBSET Runnable(Parsed(raw)) :
        Returns(Parsed(raw), ok) /\ facts' = facts \cup ok
  BY <1>0
<1>2. phase \in Asking /\ calls' = calls + 1 /\ UNCHANGED runs
  BY DEF Completes
<1>3. ok \in SUBSET Tools
  BY DEF Runnable
<1>4. PICK answer : Continues(answer) \/ Ends(answer)
  BY <1>1, <1>2, Shapes
<1>5. CASE Continues(answer)
  BY <1>1, <1>2, <1>3, <1>5, ContinuesKeeps, CallsLeft
<1>6. CASE Ends(answer)
  BY <1>1, <1>2, <1>3, <1>6, EndsKeeps, CallsLeft
<1> QED
  BY <1>4, <1>5, <1>6

\* A call that raises is retried or ends the run.
LEMMA RaisesKeeps ==
  ASSUME IInv, Raises
  PROVE  /\ IInv' /\ calls < MaxCallsOfRun /\ phase \in Asking
         /\ \/ phase' = "backoff" /\ message' = message
            \/ /\ phase' = "idle" /\ message' \in Messages
               /\ Rests(message', facts')
               /\ Repairing => message' # NoMessage
<1>1. phase \in Asking /\ calls' = calls + 1 /\ UNCHANGED <<facts, runs>>
  BY DEF Raises
<1>2. CASE ~Repairing /\ run.attempt < RetryAttempts
  <2>1. phase' = "backoff" /\ UNCHANGED <<run, message>>
    BY <1>2 DEF Raises
  <2>2. Repairing' = Repairing
    BY <2>1 DEF Repairing
  <2>3. calls \in Nat /\ calls <= Base(run.attempt) + Made
    <3>1. Before = run.attempt
      BY <1>2, BeforeFits DEF Before, One
    <3> QED
      BY <1>1, <3>1 DEF IInv, TypeOK, CallsBounded
  <2>4. calls' <= Base(run.attempt + 1)
    BY <1>1, <2>3, BeforeFits, BaseNext, MadeFits, Counts
  <2>5. Base(run.attempt + 1)' = Base(run.attempt + 1)
    BY <2>1 DEF Base, CallsPerConversation
  <2> QED
    BY <1>1, <1>2, <2>1, <2>2, <2>3, <2>4, <2>5, CallsLeft
       DEF IInv, TypeOK, CallsBounded, Asking, Phases
<1>3. CASE ~(~Repairing /\ run.attempt < RetryAttempts)
  <2>1. Ends(NoAnswer)
    BY <1>3 DEF Raises, GiveUp, Ends
  <2>2. facts' = facts \cup {} /\ {} \in SUBSET Tools
    BY <1>1
  <2> QED
    BY <1>1, <2>1, <2>2, EndsKeeps, CallsLeft
<1> QED
  BY <1>2, <1>3

LEMMA RetryKeeps == ASSUME IInv, RetryConversation PROVE IInv'
<1> DEFINE k == run.attempt + 1
<1>1. /\ run \in Runs /\ k \in 0..RetryAttempts /\ ~Repairing /\ calls <= Base(k)
      /\ calls \in Nat
  BY Counts DEF IInv, TypeOK, CallsBounded, RetryConversation, Runs
<1>2. run' = [run EXCEPT !.attempt = k, !.iteration = 0, !.reask = TRUE,
                         !.shown = run.first, !.dangling = FALSE]
  BY DEF RetryConversation
<1> HIDE DEF k
<1>3. /\ run' \in Runs /\ run'.attempt = k /\ run'.fallback = run.fallback
      /\ run'.iteration = 0 /\ run'.reask = TRUE
  <2>1. 0 \in 0..MaxToolIterations
    BY Counts
  <2> QED
    BY <1>1, <1>2, <2>1 DEF Runs
<1>4. ~Repairing'
  BY <1>1, <1>3 DEF Repairing
<1>5. Before' = k /\ Made' = 0
  BY <1>1, <1>3, <1>4, Counts DEF RetryConversation, Before, Made, One
<1>6. calls' <= Base(Before)' + Made'
  <2>1. Base(Before)' = Base(k)
    BY <1>5 DEF Base, CallsPerConversation
  <2>2. Base(k) \in Nat
    BY <1>1, BaseNext
  <2> QED
    BY <1>1, <1>5, <2>1, <2>2 DEF RetryConversation
<1> QED
  BY <1>3, <1>4, <1>6 DEF RetryConversation, IInv, TypeOK, CallsBounded, Asking, Phases

LEMMA NextKeeps == IInv /\ [Next]_vars => IInv'
<1> SUFFICES ASSUME IInv, [Next]_vars PROVE IInv'
  OBVIOUS
<1>1. CASE UNCHANGED vars
  BY <1>1 DEF vars, IInv, TypeOK, CallsBounded, Repairing, Before, Made, Base,
     CallsPerConversation, Rests
<1>2. CASE Next
  BY <1>2, BeginKeeps, BeginFailsKeeps, CompletesKeeps, RaisesKeeps, RetryKeeps DEF Next
<1> QED
  BY <1>1, <1>2

---------------------------------------------------------------------------
(* Theorems *)

\* The invariant of a wake-up.
THEOREM AgentRunInv == Spec => []IInv
BY InitInv, NextKeeps, PTL DEF Spec

\* Every state of a wake-up has its type.
THEOREM TypesOK == Spec => []TypeOK
<1>1. IInv => TypeOK
  BY DEF IInv
<1> QED
  BY <1>1, AgentRunInv, PTL

\* A step of a wake-up is a step of OneRun, or none: whatever the turns look like, it makes
\* at most MaxCallsOfRun calls, and has one end.  (That it has one is OneRun's fairness,
\* which is model-checked.)
THEOREM ImplementsOneRunSafely == Spec => Abstract!Init /\ [][Abstract!Next]_(Abstract!vars)
<1>1. Init => Abstract!Init
  BY DEF Init, Abstract!Init, NoMessage
<1>2. IInv /\ [Next]_vars => [Abstract!Next]_(Abstract!vars)
  <2> SUFFICES ASSUME IInv, [Next]_vars PROVE [Abstract!Next]_(Abstract!vars)
    OBVIOUS
  <2>1. CASE Begin
    BY <2>1, BeginKeeps DEF Begin, NoMessage, Abstract!Next, Abstract!Start
  <2>2. CASE BeginFails
    BY <2>2 DEF BeginFails, NoMessage, Abstract!Next, Abstract!Fail
  <2>3. CASE Completes
    BY <2>3, CompletesKeeps DEF Completes, Asking, Abstract!Next, Abstract!Call, Abstract!End,
       Abstract!Outcomes
  <2>4. CASE Raises
    BY <2>4, RaisesKeeps DEF Raises, Asking, Abstract!Next, Abstract!Call, Abstract!End,
       Abstract!Outcomes
  <2>5. CASE RetryConversation
    BY <2>5 DEF RetryConversation, Abstract!vars
  <2>6. CASE UNCHANGED vars
    BY <2>6 DEF vars, Abstract!vars
  <2> QED
    BY <2>1, <2>2, <2>3, <2>4, <2>5, <2>6 DEF Next
<1> QED
  BY <1>1, <1>2, AgentRunInv, PTL DEF Spec

\* What is said of any answer, repaired or not, rests on the input and the results of this
\* run, and fits.
THEOREM SpeechIsGrounded == Spec => SpokenIsGrounded
<1> DEFINE Step == phase' = "idle" /\ message'.speak /\ ~message'.refused
                     => /\ message'.cites \subseteq facts' \cup facts
                        /\ Nowhere \notin message'.cites
                        /\ ~message'.long
<1>1. IInv /\ IInv' /\ [Next]_vars => [Step]_vars
  <2> SUFFICES ASSUME IInv, IInv', Next PROVE Step
    OBVIOUS
  <2>1. Nowhere \notin facts'
    BY ToolsAssumption DEF IInv, TypeOK, Input, Nowhere
  <2>2. phase' = "idle" => Rests(message', facts')
    <3>1. CASE BeginFails
      BY <3>1, NoRunRests DEF BeginFails
    <3> QED
      BY <3>1, BeginKeeps, CompletesKeeps, RaisesKeeps DEF Next, Asking, RetryConversation
  <2> QED
    BY <2>1, <2>2 DEF Rests
<1> QED
  BY <1>1, AgentRunInv, PTL DEF Spec, SpokenIsGrounded

\* A run that held an answer ends in a message.
THEOREM HeldAnswersAreUsed == Spec => HeldAnswerIsUsed
<1>1. IInv /\ [Next]_vars => [Repairing /\ phase' = "idle" => message' # NoMessage]_vars
  <2> SUFFICES ASSUME IInv, Next, Repairing, phase' = "idle" PROVE message' # NoMessage
    OBVIOUS
  <2>1. CASE BeginFails
    BY <2>1, NoRunRests DEF BeginFails, IInv, Repairing
  <2> QED
    BY <2>1, BeginKeeps, CompletesKeeps, RaisesKeeps DEF Next, Asking, RetryConversation
<1> QED
  BY <1>1, AgentRunInv, PTL DEF Spec, HeldAnswerIsUsed

===============================================================================
