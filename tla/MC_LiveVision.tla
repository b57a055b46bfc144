---------------------------- MODULE MC_LiveVision ----------------------------
(* Two sessions, two captures, three moments and a cap of two. *)
EXTENDS LiveVision
=============================================================================
