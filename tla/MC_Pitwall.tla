------------------------------ MODULE MC_Pitwall ------------------------------
(***************************************************************************)
(* Pitwall on small instances: a strategist and a spotter, a lap event and *)
(* a crash, a question for judgement and a lookup, practice (nobody is on  *)
(* its roster), qualifying (the strategist is) and the race.               *)
(***************************************************************************)
EXTENDS Pitwall

CONSTANTS strategist, spotter, judgement, second, lookup

MCListens ==
  [a \in Agents |-> Detections \cap (IF a = strategist THEN {"lap", "crash"} ELSE {"crash"})]
MCOwner == [q \in Questions |-> strategist]
MCRosters == [t \in SessionTypes |-> IF t = "qualify" THEN {strategist} ELSE {}]
===============================================================================
