---------------------------- MODULE MC_LiveSession ----------------------------
(***************************************************************************)
(* LiveSession on small instances: subsessions of the same car, then one   *)
(* of another, which is the recording's too, and two session numbers.      *)
(***************************************************************************)
EXTENDS LiveSession

MCSchemaOf == [s \in Subsessions |-> IF s > 2 THEN "stored_car" ELSE "live_car"]
===============================================================================
