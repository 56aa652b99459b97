---------------------------- MODULE MCAgentSession ----------------------------
(* Small instances of AgentSession. *)
EXTENDS AgentSession, TLC

Symmetry == Permutations(Conns) \cup Permutations(Pings)
=============================================================================
