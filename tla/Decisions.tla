------------------------------ MODULE Decisions ------------------------------
(***************************************************************************)
(* rtv.pitwall.decisions: which radio calls of different agents answer one *)
(* decision, and which answers cannot both stand.                          *)
(*                                                                         *)
(* A call is a record with at least the fields                             *)
(*   agent, subject, priority, refused, recommendation.                    *)
(***************************************************************************)
EXTENDS Integers

None == "none"

Priorities == {"critical", "advisory", "info"}

\* PRIORITY_RANK: the lower the rank, the sooner a call airs.
Rank(priority) == CASE priority = "critical" -> 0
                    [] priority = "advisory" -> 1
                    [] priority = "info"     -> 2

\* DECISION_GROUPS: the (agent, subject) pairs of the one group there is.
PitStopPairs == { <<"strategist", "pit_stop">>,
                  <<"vehicle_engineer", "damage_stop">>,
                  <<"vehicle_engineer", "tyre_stop">>,
                  <<"race_control", "penalty_stop">> }

GroupOf(call) ==
  IF <<call.agent, call.subject>> \in PitStopPairs THEN "pit_stop" ELSE None

\* _STRATEGIST_ACTIONS; "hold" and anything unknown take no side.
StrategistAction(recommendation) ==
  CASE recommendation \in {"box_now", "box_next_lap", "pit_under_yellow"} -> "box_now"
    [] recommendation = "plan_stop"                                      -> "stop_later"
    [] recommendation \in {"extend", "stay_out"}                         -> "stay_out"
    [] OTHER                                                             -> None

ActionOf(call) ==
  CASE GroupOf(call) = None \/ call.refused                    -> None
    [] call.agent = "strategist"                               -> StrategistAction(call.recommendation)
    [] call.agent \in {"vehicle_engineer", "race_control"}     -> "box_now"
    [] OTHER                                                   -> None

\* _OPPOSED holds unordered pairs.
Opposed(a, b) == {a, b} \in { {"box_now", "stay_out"}, {"box_now", "stop_later"} }
==============================================================================
