----------------------------- MODULE MC_AfterRace -----------------------------
(* A race run and a practice run, the hook and one request, two sections. *)
EXTENDS AfterRace, TLC

CONSTANTS plan, lost

Says(p, l, basis, corner) ==
  [of |-> (plan :> p @@ lost :> l), priority |-> [basis |-> basis, corner |-> corner, sound |-> TRUE]]

MCAnswers ==
  {Says("plain", "corner", lost, TRUE),
   Says("plain", "plain", lost, TRUE),
   Says("refusable", "corner", lost, TRUE),
   Says("refusable", "nothing", plan, FALSE)}
===============================================================================
