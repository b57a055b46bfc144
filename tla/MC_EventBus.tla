----------------------------- MODULE MC_EventBus -----------------------------
(***************************************************************************)
(* EventBus with two producers and a queue smaller than what they publish. *)
(***************************************************************************)
EXTENDS EventBus

CONSTANTS poller, api
MCProducers == {poller, api}
===============================================================================
