----------------------------- MODULE MC_RacePlan -----------------------------
(* A six-lap race on a tank of two laps and a half: one stop or two, a mandatory window. *)
EXTENDS RacePlan

MCRegulations == {[from |-> 2, to |-> 4]}
MCProposals ==
  {[next_stop_lap |-> l] : l \in {3, 4}}
  \cup {[stop_count |-> 2, next_stop_lap |-> 3],
        [fuel_to_add |-> 4], [fuel_per_lap |-> 18, pace_target |-> 1]}
=============================================================================
