-------------------------- MODULE MCControllerFleet --------------------------
(* Instances of ControllerFleet for TLC.                                   *)
EXTENDS ControllerFleet, TLC

CONSTANTS a1, a2, n1, n2

OneSlot == [a \in Agents |-> 1]

(* One Agent and one node with restarts and every report, or two of each   *)
(* without restarts and with few reports.                                  *)
UsedAgents == {a \in Agents : captured[a] > 0 \/ instance[a] > 1}
UsedNodes == {n \in Nodes : nodes[n] # NoNode \/ creates[n] # NoCreate}
Bounded ==
  \/ Cardinality(UsedAgents) <= 1 /\ Cardinality(UsedNodes) <= 1
  \/ /\ restarts = 0 /\ \A a \in Agents : instance[a] = 1
     /\ \A a \in Agents : captured[a] <= 2
     /\ MapThenSumSet(LAMBDA a : captured[a], Agents) <= 3

Perms == Permutations(Agents) \cup Permutations(Nodes)
=============================================================================
