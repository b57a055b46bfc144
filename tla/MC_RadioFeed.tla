----------------------------- MODULE MC_RadioFeed -----------------------------
(***************************************************************************)
(* RadioFeed on a small instance: the three agents of the pit_stop group,  *)
(* both sides of the decision at every priority that matters, an ungrouped *)
(* call, a connection notice, and a race that moves past the calls' rules. *)
(***************************************************************************)
EXTENDS RadioFeed, TLC

Call(agent, subject, priority, recommendation) ==
  [agent |-> agent, subject |-> subject, priority |-> priority, refused |-> FALSE,
   recommendation |-> recommendation, expires |-> NoRule, untilLap |-> NoRule,
   noPitRoad |-> FALSE, entryRule |-> FALSE, car |-> NoRule, maxAge |-> 1]

StayOut    == Call("strategist", "pit_stop", "advisory", "stay_out")
PlanStop   == Call("strategist", "pit_stop", "info", "plan_stop")
BoxLap     == [Call("strategist", "pit_stop", "critical", "box_now")
                 EXCEPT !.untilLap = 1, !.noPitRoad = TRUE]
DamageStop == [Call("vehicle_engineer", "damage_stop", "critical", None) EXCEPT !.expires = 1]
TyreStop   == Call("vehicle_engineer", "tyre_stop", "advisory", None)
Penalty    == Call("race_control", "penalty_stop", "info", None)
Grip       == Call("vehicle_engineer", "grip", "info", None)
Connection == Call("pitwall", "pitwall_connection", "info", None)

MCCalls   == {StayOut, PlanStop, BoxLap, DamageStop, TyreStop, Penalty, Grip}
MCNotices == {Connection}

Snapshot(time, lap, place) ==
  [time |-> time, stale |-> FALSE, lap |-> lap, place |-> place, gone |-> {}]

MCRaces == { Snapshot(0, 1, "before_entry"), Snapshot(2, 2, "before_entry") }
===============================================================================
