----------------------------- MODULE MCAgentLoop -----------------------------
(* Instances of AgentLoop for TLC: two calls that need the same permission, a *)
(* third that does not resolve and a fourth that is forbidden.                *)
EXTENDS AgentLoop

MCPolicy == [c \in Call |-> IF c = 4 THEN "never" ELSE "ask"]
MCNeeds == [c \in Call |-> {"p"}]
MCMalformed == {3}
=============================================================================
