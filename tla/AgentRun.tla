------------------------------- MODULE AgentRun -------------------------------
(***************************************************************************)
(* One wake-up of an agent: AgentRuntime.invoke of rtv.pitwall.framework,  *)
(* with KimiProvider.complete and the verdict of rtv.pitwall.validator.    *)
(*                                                                         *)
(* Everything between two model calls is synchronous, so a step is one     *)
(* call and all the code that its answer runs.  A figure is the source it  *)
(* stands in: the input (race state, event, earlier calls), a tool's       *)
(* result, or nowhere.  A contradicted cue, a wrong corner name and an     *)
(* unfounded weather word are figures from nowhere too: the code treats    *)
(* them alike.  What an answer costs, says and looks like is left out.     *)
(***************************************************************************)
EXTENDS Integers, FiniteSets

CONSTANTS
  Tools,              \* AgentSpec.tools
  Prefetch,           \* AgentSpec.prefetch
  MaxToolIterations,  \* AgentSpec.max_tool_iterations
  RetryAttempts,      \* transport retries of the first conversation
  RepairAttempts,
  Answers,            \* structured answers the model may give
  NoAnswer,           \* none, and one that fails its contract
  BadAnswer,
  MaxRuns             \* bounds the wake-ups of the model

Input == "input"
Nowhere == "nowhere"
Unknown == "unknown"  \* a tool name the agent does not have
QuestionToolIterations == 1

\* barred: the policy rules the answer out; long: more spoken words than its limit.
AllAnswers == [cites : SUBSET (Tools \cup {Input, Nowhere}), barred : BOOLEAN, long : BOOLEAN]

ASSUME ToolsAssumption ==
  /\ IsFiniteSet(Tools) /\ Prefetch \subseteq Tools
  /\ {Input, Nowhere, Unknown} \cap Tools = {}
ASSUME CountsAssumption ==
  {MaxToolIterations, RetryAttempts, RepairAttempts, MaxRuns} \subseteq Nat
ASSUME AnswersAssumption == Answers \subseteq AllAnswers /\ {NoAnswer, BadAnswer} \cap Answers = {}

VARIABLES
  phase,     \* what the next model call is for; "idle" between runs
  run,       \* the locals of the run under way
  facts,     \* the FactSet
  calls,     \* model calls of this run
  runs,      \* invocations
  message    \* what the last run returned

vars == <<phase, run, facts, calls, runs, message>>

(***************************************************************************)
(* turn: a pass of _converse's loop.  again: the malformed turn asked once *)
(* more.  structure: prose asked for in the contract.  respond: the answer *)
(* that could not be read.  backoff: before the transport retry.           *)
(***************************************************************************)
Asking == {"turn", "again", "structure", "respond"}
Phases == Asking \cup {"idle", "backoff"}

NoMessage == [refused |-> FALSE, speak |-> FALSE, cites |-> {}, long |-> FALSE]
Messages ==
  [refused : BOOLEAN, speak : BOOLEAN, cites : SUBSET (Tools \cup {Input, Nowhere}),
   long : BOOLEAN]

Runs ==
  [iterations : 0..MaxToolIterations,  \* spec.tool_iterations(event)
   iteration : 0..MaxToolIterations,
   reask : BOOLEAN,                    \* malformed_retry
   attempt : 0..RetryAttempts,
   first : SUBSET (Tools \cup {Input}),  \* what the first message shows
   shown : SUBSET (Tools \cup {Input}),  \* what messages shows by now
   dangling : BOOLEAN,                 \* a tool_use in messages has no tool_result
   fallback : Messages]                \* under repair: what the first answer comes to

NoRun ==
  [iterations |-> 0, iteration |-> 0, reask |-> FALSE, attempt |-> 0, first |-> {},
   shown |-> {}, dangling |-> FALSE, fallback |-> NoMessage]

TypeOK ==
  /\ phase \in Phases
  /\ run \in Runs
  /\ facts \in SUBSET (Tools \cup {Input})
  /\ calls \in Nat
  /\ runs \in 0..MaxRuns
  /\ message \in Messages

Repairing == run.fallback # NoMessage

Init ==
  /\ phase = "idle" /\ run = NoRun /\ facts = {} /\ calls = 0 /\ runs = 0
  /\ message = NoMessage
-------------------------------------------------------------------------------
(***************************************************************************)
(* The provider: a raw turn of the model, and what complete() makes of it. *)
(***************************************************************************)
RawTurns ==
  [markup : BOOLEAN,                           \* tool-call tokens in an argument or the text
   respond : Answers \cup {NoAnswer, BadAnswer},   \* the answer tool: absent, or off-contract
   tools : SUBSET (Tools \cup {Unknown}),
   text : BOOLEAN, cut : BOOLEAN]              \* prose; stopped at the token limit

\* One broken block spoils the turn; an answer makes its tool calls moot.
Parsed(raw) ==
  LET answered == ~raw.markup /\ raw.respond \in Answers
  IN [malformed |-> raw.markup,
      output |-> IF answered THEN raw.respond ELSE NoAnswer,
      calls |-> IF raw.markup \/ answered THEN {} ELSE raw.tools,
      invalid |-> ~raw.markup /\ raw.respond = BadAnswer,
      text |-> raw.text /\ ~raw.markup,
      cut |-> raw.cut]
-------------------------------------------------------------------------------
(***************************************************************************)
(* Verdict and message.                                                    *)
(***************************************************************************)
Grounded(answer, known) == answer.cites \subseteq known
Passes(answer, known) == Grounded(answer, known) /\ ~answer.long /\ ~answer.barred

\* _to_message: a barred call is kept and never said, an unfounded one is replaced by a
\* refusal, a long one is cut.
ToMessage(answer, known) ==
  [refused |-> answer.barred \/ ~Grounded(answer, known),
   speak |-> ~answer.barred,
   cites |-> IF answer.barred \/ ~Grounded(answer, known) THEN {} ELSE answer.cites,
   long |-> FALSE]

Over(result) ==
  /\ phase' = "idle" /\ run' = NoRun /\ message' = result

\* No answer came of this conversation: a repair falls back on the answer it was to mend,
\* with the verdict that answer had.
GiveUp_ForgetsAnswer == Over(NoMessage)
GiveUp == Over(run.fallback)

\* _repair: one more conversation, on the messages of the first.
Repair(answer) ==
  /\ phase' = "turn"
  /\ run' = [run EXCEPT !.fallback = ToMessage(answer, facts), !.iteration = 0, !.reask = TRUE]
  /\ UNCHANGED message

Answered_RepairOnTrust(answer) ==
  IF Repairing THEN Over([ToMessage(answer, Tools \cup {Nowhere}) EXCEPT !.cites = answer.cites])
  ELSE IF ~Passes(answer, facts) /\ RepairAttempts > 0 THEN Repair(answer)
  ELSE Over(ToMessage(answer, facts))
Answered(answer) ==
  IF ~Passes(answer, facts) /\ RepairAttempts > 0 /\ ~Repairing THEN Repair(answer)
  ELSE Over(ToMessage(answer, facts))
-------------------------------------------------------------------------------
(***************************************************************************)
(* The conversation.                                                       *)
(***************************************************************************)
OffersTools == run.iteration < run.iterations

\* _run_tool for each call of the turn: ok are those that return a result, which is shown
\* and becomes citable.  An invalid answer beside the calls goes into the history with them.
RunTools(reply, ok, reask) ==
  IF ~OffersTools THEN GiveUp
  ELSE /\ phase' = "turn"
       /\ run' = [run EXCEPT !.iteration = @ + 1, !.reask = reask, !.shown = @ \cup ok,
                             !.dangling = @ \/ reply.invalid]
       /\ UNCHANGED message

Ask(for, reask) ==
  /\ phase' = for /\ run' = [run EXCEPT !.reask = reask]
  /\ UNCHANGED message

\* What a pass of the loop does with its turn.
TakeTurn(reply, ok, reask) ==
  IF reply.calls # {} THEN RunTools(reply, ok, reask)
  ELSE IF reply.output # NoAnswer THEN Answered(reply.output)
  ELSE IF reply.invalid \/ reply.cut THEN Ask("respond", reask)
  ELSE IF OffersTools /\ reply.text THEN Ask("structure", reask)
  ELSE GiveUp

Returns_ReasksForever(reply, ok) ==
  IF reply.malformed /\ phase \in {"turn", "again"} THEN Ask("again", FALSE)
  ELSE IF phase \in {"turn", "again"} THEN TakeTurn(reply, ok, run.reask)
  ELSE IF reply.output # NoAnswer THEN Answered(reply.output) ELSE GiveUp
Returns(reply, ok) ==
  IF phase = "turn" /\ reply.malformed /\ run.reask THEN Ask("again", FALSE)
  ELSE IF phase \in {"turn", "again"} THEN TakeTurn(reply, ok, run.reask)
  ELSE IF reply.output # NoAnswer THEN Answered(reply.output)
  ELSE GiveUp

\* The tools of a turn run only where the loop is reached, and only those it has.
Runnable(reply) ==
  IF phase = "again" \/ (phase = "turn" /\ ~(reply.malformed /\ run.reask))
  THEN reply.calls \cap Tools ELSE {}

\* A model call that returns.  A request with an unanswered tool_use is rejected.
Completes ==
  /\ phase \in Asking /\ ~run.dangling
  /\ \E raw \in RawTurns :
       \E ok \in SUBSET Runnable(Parsed(raw)) :
         /\ Returns(Parsed(raw), ok)
         /\ facts' = facts \cup ok
  /\ calls' = calls + 1
  /\ UNCHANGED runs

\* A model call that raises: one retry on the original messages, the facts kept.  A repair
\* has none.
Raises ==
  /\ phase \in Asking
  /\ IF ~Repairing /\ run.attempt < RetryAttempts
     THEN phase' = "backoff" /\ UNCHANGED <<run, message>>
     ELSE GiveUp
  /\ calls' = calls + 1
  /\ UNCHANGED <<facts, runs>>

RetryConversation ==
  /\ phase = "backoff"
  /\ phase' = "turn"
  /\ run' = [run EXCEPT !.attempt = @ + 1, !.iteration = 0, !.reask = TRUE,
                        !.shown = run.first, !.dangling = FALSE]
  /\ UNCHANGED <<facts, calls, runs, message>>
-------------------------------------------------------------------------------
(***************************************************************************)
(* invoke.                                                                 *)
(***************************************************************************)
Least(a, b) == IF a < b THEN a ELSE b

\* AgentSpec.tool_iterations
ToolIterations_OneForQuestions(question) ==
  IF question THEN QuestionToolIterations ELSE MaxToolIterations + 1
ToolIterations(question) ==
  IF question THEN Least(MaxToolIterations, QuestionToolIterations) ELSE MaxToolIterations

\* Input and prefetched results (those that did not fail) are facts and the first message.
Begin ==
  /\ phase = "idle" /\ runs < MaxRuns
  /\ \E question \in BOOLEAN, ok \in SUBSET Prefetch :
       /\ run' = [NoRun EXCEPT !.iterations = ToolIterations(question), !.reask = TRUE,
                               !.first = ok \cup {Input}, !.shown = ok \cup {Input}]
       /\ facts' = ok \cup {Input}
  /\ phase' = "turn" /\ calls' = 0 /\ runs' = runs + 1 /\ message' = NoMessage

\* The input could not be built: the exception leaves invoke().
BeginFails ==
  /\ phase = "idle" /\ runs < MaxRuns
  /\ runs' = runs + 1 /\ calls' = 0 /\ facts' = {} /\ message' = NoMessage
  /\ UNCHANGED <<phase, run>>

Next == Begin \/ BeginFails \/ Completes \/ Raises \/ RetryConversation

Spec == Init /\ [][Next]_vars

\* The client has a timeout, so a call returns or raises.
FairSpec == Spec /\ WF_vars(Completes \/ Raises) /\ WF_vars(RetryConversation)
-------------------------------------------------------------------------------
(***************************************************************************)
(* Properties.                                                             *)
(***************************************************************************)
\* A conversation makes at most a call per pass of the loop, one for a malformed turn and
\* one for an answer that could not be used as it was.
CallsPerConversation == MaxToolIterations + 3
MaxCallsOfRun == (RetryAttempts + 1 + (IF RepairAttempts > 0 THEN 1 ELSE 0)) * CallsPerConversation

Abstract == INSTANCE OneRun WITH
  running <- phase # "idle",
  calls <- calls,
  runs <- runs,
  outcome <- IF message.refused THEN "withheld" ELSE IF message.speak THEN "said" ELSE "nothing",
  MaxCalls <- MaxCallsOfRun

\* Retries of retries end: however turns break, the run is a bounded number of calls with
\* one end, and it ends if the provider's calls do (invoke, _converse_with_retry, _repair).
ImplementsOneRun == Abstract!Spec

\* What the driver can hear was checked in the form it is heard: every figure of it stands
\* in the input or in a tool result of this run, no policy forbids it, it fits, whether it
\* is the first answer, a repaired one or one whose repair failed (_invoke, _to_message).
SpokenIsGrounded ==
  [][phase' = "idle" /\ message'.speak /\ ~message'.refused
       => /\ message'.cites \subseteq facts' \cup facts
          /\ Nowhere \notin message'.cites
          /\ ~message'.long]_vars

\* A run that had an answer ends in a message: a repair that fails, breaks or raises costs
\* the driver nothing (_repair returns None, the first answer is refused or cut).
HeldAnswerIsUsed ==
  [][Repairing /\ phase' = "idle" => message' # NoMessage]_vars

\* "a tool_use with no tool_result is a request every Messages implementation rejects"
EveryToolUseAnswered == ~run.dangling
===============================================================================
