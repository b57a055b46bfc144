-------------------------------- MODULE OneRun --------------------------------
(***************************************************************************)
(* What an agent promises the orchestrator of one wake-up: a bounded       *)
(* number of model calls, then one end, and no message that was not        *)
(* checked.  Pitwall relies on nothing else.  AgentRun implements it.      *)
(***************************************************************************)
EXTENDS Naturals

CONSTANTS
  MaxCalls,  \* model calls of one run, at most
  MaxRuns    \* bounds the wake-ups of the model

VARIABLES
  running,
  calls,    \* of the run under way, or of the last one
  runs,
  outcome   \* of the last run: said, withheld, or nothing

vars == <<running, calls, runs, outcome>>

Outcomes == {"said", "withheld", "nothing"}

TypeOK ==
  /\ running \in BOOLEAN
  /\ calls \in 0..MaxCalls
  /\ runs \in 0..MaxRuns
  /\ outcome \in Outcomes

Init == ~running /\ calls = 0 /\ runs = 0 /\ outcome = "nothing"

Start ==
  /\ ~running /\ runs < MaxRuns
  /\ running' = TRUE /\ calls' = 0 /\ runs' = runs + 1 /\ outcome' = "nothing"

\* A run can also end before it asks: its input could not be built.
Fail ==
  /\ ~running /\ runs < MaxRuns
  /\ runs' = runs + 1 /\ calls' = 0 /\ outcome' = "nothing"
  /\ UNCHANGED running

Call ==
  /\ running /\ calls < MaxCalls
  /\ calls' = calls + 1
  /\ UNCHANGED <<running, runs, outcome>>

\* The last call's answer ends the run.
End ==
  /\ running /\ calls < MaxCalls
  /\ calls' = calls + 1
  /\ running' = FALSE
  /\ outcome' \in Outcomes
  /\ UNCHANGED runs

Next == Start \/ Fail \/ Call \/ End

Spec == Init /\ [][Next]_vars /\ WF_vars(Call \/ End)
===============================================================================
