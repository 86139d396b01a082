---------------------------- MODULE MCAgentPeers ----------------------------
(* Model-checking instances of AgentPeers.                                 *)
EXTENDS AgentPeers, TLC

CONSTANTS n1, n2, r1, r2, w1, w2

Perms == Permutations(Nodes) \cup Permutations(Runs) \cup Permutations(Requests)
=============================================================================
