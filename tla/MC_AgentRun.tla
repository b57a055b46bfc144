------------------------------ MODULE MC_AgentRun ------------------------------
(***************************************************************************)
(* One agent with a prefetched tool and one it has to ask for.             *)
(***************************************************************************)
EXTENDS AgentRun

CONSTANTS fuel, pit

Says(cites) == [cites |-> cites, barred |-> FALSE, long |-> FALSE]

MCAnswers ==
  {Says({Input, fuel}), Says({pit}), Says({Nowhere}),
   [Says({Input}) EXCEPT !.long = TRUE], [Says({fuel}) EXCEPT !.barred = TRUE]}
===============================================================================
