----------------------------- MODULE MC_AudioQueue -----------------------------
(* Two critical calls of one agent; an advisory and an info of another, of one subject. *)
EXTENDS AudioQueue

CONSTANTS spotter, strategist, left, clear, box, gap, pit

MCAgentOf == [m \in Messages |-> IF m \in {left, clear} THEN spotter ELSE strategist]
MCPriorityOf == [m \in Messages |-> CASE m \in {left, clear} -> "critical"
                                      [] m = box -> "advisory" [] OTHER -> "info"]
MCSubjectOf == [m \in Messages |-> IF m \in {box, gap} THEN pit ELSE NoSubject]
================================================================================
