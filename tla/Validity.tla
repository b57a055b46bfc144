------------------------------- MODULE Validity -------------------------------
(***************************************************************************)
(* rtv.pitwall.validity.check: is a call still true when its turn comes?   *)
(*                                                                         *)
(* A call carries the rule its agent stamped on it; NoRule stands for a    *)
(* rule field left at Python's None.  A race snapshot has the fields       *)
(*   time   session time                                                   *)
(*   stale  the telemetry behind the snapshot has stopped                  *)
(*   lap    the player's lap                                               *)
(*   place  "before_entry" | "past_entry" | "pit_road": lap_dist_pct       *)
(*          against the call's pit entry, and on_pit_road                  *)
(*   gone   the cars that left the running order or are in the pit lane    *)
(***************************************************************************)
EXTENDS Integers

CONSTANT NoRule

ASSUME NoRuleAssumption == NoRule \notin Int

Age(computed, now) == IF now > computed THEN now - computed ELSE 0

\* _invalid_reason: the time rule first; the position rules only on live data.
StillTrue(call, race) ==
  /\ call.expires # NoRule => race.time <= call.expires
  /\ ~race.stale =>
       /\ call.untilLap # NoRule => race.lap <= call.untilLap
       /\ call.noPitRoad => race.place # "pit_road"
       /\ ~ (call.entryRule /\ race.lap = call.untilLap /\ race.place = "past_entry")
       /\ call.car \notin race.gone

\* check: a call with no computed time (a notice) has no age and no rule.
Verdict(call, computed, race) ==
  IF computed = NoRule THEN "fresh"
  ELSE IF ~StillTrue(call, race) THEN "expired"
  ELSE IF call.maxAge # NoRule /\ Age(computed, race.time) > call.maxAge THEN "late"
  ELSE "fresh"
===============================================================================
