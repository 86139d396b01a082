------------------------ MODULE ControllerFleetProofs ------------------------
(***************************************************************************)
(* Proofs about ControllerFleet: a node runs on one Agent, live records    *)
(* have a Peer, capacity is accounted, acknowledged exits are on record    *)
(* and stops are not undone, for any number of Agents and nodes, whatever  *)
(* reports are lost, late or reordered and whoever restarts.               *)
(***************************************************************************)
EXTENDS ControllerFleet, Integers, FiniteSetTheorems, TLAPS

(* The create that may have put node n on Agent a.                         *)
PlacedOn(n, a) == creates[n].agent = a /\ creates[n].pc \in {"created", "done"}

(* The create of n is in progress at the Controller.                       *)
Open(n) == creates[n].pc \in {"posted", "created", "full"}

(* A node is where its one create has put it: the Agent's Peer, the        *)
(* Controller's record and every report of it say the same Agent.          *)
PlaceInv ==
  /\ \A n \in Nodes : creates[n].pc # "idle" => creates[n].agent \in Agents
  /\ \A a \in Agents, n \in Nodes : peers[a][n] # "none" => PlacedOn(n, a)
  /\ \A n \in Nodes : nodes[n].state = "none" => nodes[n].agent = NoAgent
  /\ \A n \in Nodes : nodes[n].state # "none" =>
       /\ nodes[n].agent \in Agents
       /\ PlacedOn(n, nodes[n].agent)
       /\ Known(nodes[n].agent)
  /\ \A n \in Nodes : reservations[n] # NoAgent =>
       /\ creates[n].agent = reservations[n]
       /\ creates[n].pc \in {"posted", "created", "full", "done"}
       /\ Known(reservations[n])
  /\ \A m \in reports : \A n \in DOMAIN m.nodes : PlacedOn(n, m.agent)
  /\ \A a \in Agents : \A n \in DOMAIN call[a].nodes : peers[a][n] # "none"
  /\ \A a \in Agents : \A n \in acknowledged[a] : peers[a][n] # "none"
  /\ \A n \in deletes : nodes[n].state # "none"

(* Nothing speaks of an instance that has not started; what speaks of the  *)
(* running instance names nodes it has.                                    *)
InstanceInv ==
  /\ \A a \in Agents : agents[a].instance <= instance[a]
  /\ \A m \in reports : m.instance <= instance[m.agent]
  /\ \A m \in reports : m.instance = instance[m.agent] =>
       \A n \in DOMAIN m.nodes : peers[m.agent][n] # "none"
  /\ \A n \in Nodes : Open(n) =>
       /\ Known(creates[n].agent)
       /\ creates[n].instance <= agents[creates[n].agent].instance
  /\ \A n \in Nodes :
       creates[n].pc = "created" /\ creates[n].instance = instance[creates[n].agent] =>
         peers[creates[n].agent][n] # "none"
  /\ \A n \in Nodes :
       nodes[n].state \in Live /\ agents[nodes[n].agent].instance = instance[nodes[n].agent] =>
         peers[nodes[n].agent][n] # "none"

(* Capture times are not used twice: a report with the time of the call in *)
(* progress has the states the call was captured with.                     *)
CaptureInv ==
  /\ \A m \in reports : m.ts <= captured[m.agent]
  /\ \A a \in Agents : call[a].ts <= captured[a]
  /\ \A a \in Agents : call[a].batch \cup call[a].rest \subseteq DOMAIN call[a].nodes
  /\ \A m \in reports :
       m.kind = "partial" /\ call[m.agent].kind = "partial" /\ m.ts = call[m.agent].ts =>
         \A n \in DOMAIN m.nodes : n \in DOMAIN call[m.agent].nodes
                                   /\ m.nodes[n] = call[m.agent].nodes[n]

(* A create in progress holds its reservation until the node is on record  *)
(* or its Agent has registered again.                                      *)
ReservationInv ==
  /\ \A n \in Nodes : Open(n) /\ nodes[n].state # "none" => reservations[n] = NoAgent
  /\ \A n \in Nodes :
       /\ Open(n) /\ nodes[n].state = "none"
       /\ agents[creates[n].agent].instance = creates[n].instance
       => reservations[n] = creates[n].agent
  /\ KnownPeersAreCharged
  /\ ReservationsAreReleasable

(* The Agent's last registration was accepted.                             *)
Accepted(a) == registered[a] \/ (call[a].kind = "register" /\ call[a].phase = "ok")

(* The successful exits the call in progress reports.                      *)
Exits(a) == {n \in call[a].batch : call[a].nodes[n] = "stopped"}

(* A Controller that knows an Agent with an accepted registration knows    *)
(* its instance and its acknowledged exits; one that has restarted since   *)
(* does not learn of the Agent before it registers again.                  *)
AckInv ==
  /\ \A a \in Agents : call[a].kind = "partial" => registered[a]
  /\ \A a \in Agents : Accepted(a) /\ Known(a) => agents[a].instance = instance[a]
  /\ \A a \in Agents : Accepted(a) /\ ~Known(a) =>
       \A m \in reports : m.agent = a => m.kind # "register"
  /\ \A a \in Agents : \A n \in acknowledged[a] : reservations[n] = NoAgent
  /\ \A a \in Agents : \A n \in acknowledged[a] :
       registered[a] /\ Known(a) => nodes[n].state = "stopped"
  /\ \A a \in Agents : call[a].kind = "partial" /\ call[a].phase = "ok" =>
       \A n \in Exits(a) : /\ reservations[n] = NoAgent
                           /\ Known(a) => nodes[n].state = "stopped"

IInv ==
  TypeOK /\ PlaceInv /\ InstanceInv /\ CaptureInv /\ ReservationInv /\ AckInv

CallType ==
  [phase : {"none", "sent", "ok", "conflict"}, kind : {"none", "register", "partial"},
   ts : Nat, batch : SUBSET Nodes, rest : SUBSET Nodes, occupied : Nat, nodes : NodeMaps]

ReportType ==
  [kind : {"register", "partial", "full"}, agent : Agents, instance : Nat, ts : Nat,
   occupied : Nat, nodes : NodeMaps]

AgentType  == [known : BOOLEAN, instance : Nat, active : Nat, online : BOOLEAN]
NodeType   == [agent : Agents \cup {NoAgent}, state : Reported \cup {"none"}]
CreateType ==
  [pc : {"idle", "posted", "created", "full", "late", "done"},
   agent : Agents \cup {NoAgent}, instance : Nat]

-----------------------------------------------------------------------------
(* Lemmas about sets of nodes and about the maps reports hold.             *)

(* Sets of nodes are finite.                                               *)
LEMMA NodeSets ==
  ASSUME NEW S \in SUBSET Nodes
  PROVE  IsFiniteSet(S) /\ Cardinality(S) \in Nat
<1>1. IsFiniteSet(S)
  BY FiniteAssumption, FS_Subset
<1> QED
  BY <1>1, FS_CardinalityType

(* The occupied slots of an Agent and its reservations are numbers.        *)
LEMMA SlotsAreNumbers ==
  /\ \A a : occupied(a) \in Nat
  /\ \A a : reserved(a) \in Nat
  BY NodeSets DEF occupied, reserved

(* The map without nodes is one.                                           *)
LEMMA EmptyMap == <<>> \in NodeMaps /\ DOMAIN <<>> = {}
<1>1. <<>> = [n \in {} |-> "stopped"]
  OBVIOUS
<1>2. <<>> \in [{} -> Reported]
  BY <1>1
<1> QED
  BY <1>1, <1>2 DEF NodeMaps

(* What a map says of a set of nodes.                                      *)
LEMMA MapType ==
  ASSUME NEW f \in NodeMaps
  PROVE  DOMAIN f \subseteq Nodes /\ \A n \in DOMAIN f : f[n] \in Reported
  BY DEF NodeMaps

(* A part of a map is one.                                                 *)
LEMMA MapPart ==
  ASSUME NEW f \in NodeMaps, NEW S \in SUBSET (DOMAIN f)
  PROVE  /\ [n \in S |-> f[n]] \in NodeMaps
         /\ DOMAIN [n \in S |-> f[n]] = S
<1>1. S \in SUBSET Nodes /\ \A n \in S : f[n] \in Reported
  BY MapType
<1>2. [n \in S |-> f[n]] \in [S -> Reported]
  BY <1>1
<1> QED
  BY <1>1, <1>2 DEF NodeMaps

(* A snapshot names nodes the Agent has, by a state a report may hold.     *)
LEMMA SnapshotType ==
  ASSUME TypeOK, NEW a \in Agents, NEW all \in BOOLEAN
  PROVE  /\ snapshotNodes(a, all) \in NodeMaps
         /\ \A n \in DOMAIN snapshotNodes(a, all) : n \in Nodes /\ peers[a][n] # "none"
<1> DEFINE S == {m \in Nodes : /\ peers[a][m] # "none"
                               /\ all \/ ~(peers[a][m] = "stopped" /\ m \in acknowledged[a])}
<1>1. S \in SUBSET Nodes
  OBVIOUS
<1>2. \A n \in S : peers[a][n] \in PeerStates \ {"none"}
  BY DEF TypeOK
<1>3. \A s \in PeerStates \ {"none"} : Status(s) \in Reported
  BY DEF PeerStates, Status, Reported
<1>4. snapshotNodes(a, all) = [n \in S |-> Status(peers[a][n])]
  BY DEF snapshotNodes
<1>5. snapshotNodes(a, all) \in [S -> Reported] /\ DOMAIN snapshotNodes(a, all) = S
  BY <1>2, <1>3, <1>4
<1> QED
  BY <1>1, <1>2, <1>5 DEF NodeMaps

(* No call is one of the values of call.                                   *)
LEMMA NoCallType == NoCall \in CallType
  BY EmptyMap DEF NoCall, CallType

(* An Agent's record stays one when a field of it changes.                 *)
LEMMA AgentRecord ==
  ASSUME NEW x \in AgentType
  PROVE  /\ \A k \in Nat : [x EXCEPT !.active = k] \in AgentType
         /\ \A k \in Nat, o \in BOOLEAN : [x EXCEPT !.active = k, !.online = o] \in AgentType
         /\ \A o \in BOOLEAN : [x EXCEPT !.online = o] \in AgentType
  BY DEF AgentType

(* What a set of nodes gains or loses by one node.                         *)
LEMMA OneNodeMore ==
  ASSUME NEW S \in SUBSET Nodes, NEW T \in SUBSET Nodes, NEW n \in Nodes, T \subseteq S \cup {n}
  PROVE  Cardinality(T) <= Cardinality(S) + 1
<1>1. /\ IsFiniteSet(S) /\ Cardinality(S) \in Nat
      /\ IsFiniteSet(T) /\ Cardinality(T) \in Nat
  BY NodeSets
<1>2. /\ IsFiniteSet(S \cup {n})
      /\ Cardinality(S \cup {n}) = IF n \in S THEN Cardinality(S) ELSE Cardinality(S) + 1
  BY <1>1, FS_AddElement
<1>3. Cardinality(T) <= Cardinality(S \cup {n})
  BY <1>2, FS_Subset
<1> QED
  BY <1>1, <1>2, <1>3

(* What a set of nodes loses when some of them leave.                      *)
LEMMA FewerNodes ==
  ASSUME NEW S \in SUBSET Nodes, NEW T \in SUBSET Nodes, NEW R \in SUBSET S, T \subseteq S \ R
  PROVE  Cardinality(T) + Cardinality(R) <= Cardinality(S)
<1>1. /\ IsFiniteSet(S) /\ Cardinality(S) \in Nat /\ IsFiniteSet(R) /\ Cardinality(R) \in Nat
      /\ IsFiniteSet(T) /\ Cardinality(T) \in Nat
      /\ IsFiniteSet(S \ R) /\ Cardinality(S \ R) \in Nat
  BY NodeSets
<1>2. S \cap R = R
  OBVIOUS
<1>3. Cardinality(S \ R) = Cardinality(S) - Cardinality(R)
  BY <1>1, <1>2, FS_Difference
<1>4. Cardinality(T) <= Cardinality(S \ R)
  BY <1>1, FS_Subset
<1> QED
  BY <1>1, <1>3, <1>4

(* A set of nodes that two others cover is no larger than both.            *)
LEMMA NodesOfBoth ==
  ASSUME NEW S \in SUBSET Nodes, NEW T \in SUBSET Nodes, NEW U \in SUBSET (S \cup T)
  PROVE  Cardinality(U) <= Cardinality(S) + Cardinality(T)
<1>1. /\ IsFiniteSet(S) /\ Cardinality(S) \in Nat /\ IsFiniteSet(T) /\ Cardinality(T) \in Nat
      /\ IsFiniteSet(S \cup T) /\ Cardinality(S \cup T) \in Nat
      /\ Cardinality(S \cap T) \in Nat /\ Cardinality(U) \in Nat
  BY NodeSets
<1>2. Cardinality(S \cup T) = Cardinality(S) + Cardinality(T) - Cardinality(S \cap T)
  BY <1>1, FS_Union
<1>3. Cardinality(U) <= Cardinality(S \cup T)
  BY <1>1, FS_Subset
<1> QED
  BY <1>1, <1>2, <1>3

-----------------------------------------------------------------------------
(* The invariant holds at the start and every action preserves it.         *)

(* The system starts with unknown Agents that have no Peers.               *)
LEMMA InitHolds == Init => IInv
<1> SUFFICES ASSUME Init PROVE IInv
  OBVIOUS
<1>1. TypeOK
  <2>1. call \in [Agents -> CallType]
    BY NoCallType DEF Init
  <2>2. agents \in [Agents -> [known : BOOLEAN, instance : Nat, active : Nat, online : BOOLEAN]]
    BY DEF Init, UnknownAgent
  <2>3. nodes \in [Nodes -> [agent : Agents \cup {NoAgent}, state : Reported \cup {"none"}]]
    BY DEF Init, NoNode
  <2>4. creates \in [Nodes -> [pc : {"idle", "posted", "created", "full", "late", "done"},
                               agent : Agents \cup {NoAgent}, instance : Nat]]
    BY DEF Init, NoCreate
  <2> QED
    BY <2>1, <2>2, <2>3, <2>4 DEF Init, TypeOK, CallType, PeerStates
<1>2. \A a \in Agents : /\ call[a] = NoCall /\ agents[a] = UnknownAgent /\ acknowledged[a] = {}
                        /\ ~registered[a] /\ instance[a] = 1
  BY DEF Init
<1>3. \A n \in Nodes : creates[n].pc = "idle" /\ nodes[n] = NoNode /\ reservations[n] = NoAgent
  BY DEF Init, NoCreate
<1>4. PlaceInv
  BY <1>2, <1>3, EmptyMap DEF Init, PlaceInv, NoCall, NoNode
<1>5. InstanceInv
  BY <1>2, <1>3 DEF Init, InstanceInv, Open, NoNode, Live, UnknownAgent
<1>6. CaptureInv
  BY <1>2, EmptyMap DEF Init, CaptureInv, NoCall
<1>7. ReservationInv
  <2>1. \A a \in Agents : {n \in Nodes : \/ nodes[n].agent = a /\ nodes[n].state \in Live
                                         \/ reservations[n] = a} = {}
    BY <1>3, NoAgentAssumption DEF NoNode
  <2>2. KnownPeersAreCharged
    BY <1>2, <2>1, FS_EmptySet DEF KnownPeersAreCharged, UnknownAgent
  <2>3. ReservationsAreReleasable
    BY <1>3, NoAgentAssumption DEF ReservationsAreReleasable
  <2> QED
    BY <1>3, <2>2, <2>3 DEF ReservationInv, Open
<1>8. AckInv
  BY <1>2, <1>3 DEF Init, AckInv, Accepted, NoCall
<1> QED
  BY <1>1, <1>4, <1>5, <1>6, <1>7, <1>8 DEF IInv

(* A step of an Agent or of the network that leaves the Controller alone   *)
(* leaves the reservations charged, and releasable as long as its Peers    *)
(* stay and it acknowledges nothing that is reserved.                      *)
LEMMA AgentSide ==
  ASSUME IInv, UNCHANGED <<controllerVars, creates, deletes, instance>>,
         \A a \in Agents, n \in Nodes : peers[a][n] # "none" => peers'[a][n] # "none",
         \A a \in Agents : \A n \in acknowledged'[a] :
           n \in acknowledged[a] \/ reservations[n] = NoAgent
  PROVE  ReservationInv'
<1>1. KnownPeersAreCharged'
  BY DEF IInv, ReservationInv, KnownPeersAreCharged, controllerVars
<1>2. ReservationsAreReleasable'
  BY NoAgentAssumption
     DEF IInv, ReservationInv, ReservationsAreReleasable, controllerVars
<1> QED
  BY <1>1, <1>2 DEF IInv, ReservationInv, Open, controllerVars

(* A Peer changes its state and stays.                                     *)
LEMMA peerChangesPreserves ==
  ASSUME IInv, NEW a \in Agents, NEW n \in Nodes, NEW s \in PeerStates, peerChanges(a, n, s)
  PROVE  IInv'
<1>1. /\ peers' = [peers EXCEPT ![a][n] = s]
      /\ UNCHANGED <<instance, captured, acknowledged, registered, call, reports,
                     controllerVars, creates, deletes, restarts>>
  BY DEF peerChanges
<1>2. peers[a][n] # "none" /\ s # "none"
  BY DEF peerChanges, PeerSteps, Live
<1>3. TypeOK'
  BY <1>1 DEF IInv, TypeOK, controllerVars
<1>4. \A b \in Agents, k \in Nodes : peers'[b][k] # "none" <=> peers[b][k] # "none"
  BY <1>1, <1>2 DEF IInv, TypeOK
<1>5. PlaceInv'
  BY <1>1, <1>4, MapType DEF IInv, TypeOK, PlaceInv, controllerVars, PlacedOn, Known
<1>6. InstanceInv'
  BY <1>1, <1>4, MapType DEF IInv, TypeOK, PlaceInv, InstanceInv, controllerVars, Open, Live, Known
<1>7. CaptureInv'
  BY <1>1 DEF IInv, CaptureInv
<1>8. ReservationInv'
  BY <1>1, <1>4, AgentSide
<1>9. AckInv'
  BY <1>1 DEF IInv, AckInv, Accepted, Exits, Known, controllerVars
<1> QED
  BY <1>3, <1>5, <1>6, <1>7, <1>8, <1>9 DEF IInv

(* An Agent starts again, with a new instance and without Peers.           *)
LEMMA agentRestartsPreserves ==
  ASSUME IInv, NEW a \in Agents, agentRestarts(a)
  PROVE  IInv'
<1>1. /\ instance' = [instance EXCEPT ![a] = @ + 1]
      /\ peers' = [peers EXCEPT ![a] = [n \in Nodes |-> "none"]]
      /\ acknowledged' = [acknowledged EXCEPT ![a] = {}]
      /\ registered' = [registered EXCEPT ![a] = FALSE]
      /\ call' = [call EXCEPT ![a] = NoCall]
      /\ UNCHANGED <<captured, reports, controllerVars, creates, deletes, restarts>>
  BY DEF agentRestarts
<1>2. TypeOK /\ PlaceInv /\ InstanceInv /\ CaptureInv /\ ReservationInv /\ AckInv
  BY DEF IInv
<1>3. TypeOK'
  BY <1>1, <1>2, NoCallType DEF TypeOK, controllerVars, CallType, PeerStates
<1>4. /\ instance'[a] = instance[a] + 1 /\ instance[a] \in Nat
      /\ call'[a] = NoCall /\ acknowledged'[a] = {} /\ registered'[a] = FALSE
      /\ \A n \in Nodes : peers'[a][n] = "none"
  BY <1>1, <1>2 DEF TypeOK
<1>5. \A b \in Agents : b # a =>
        /\ instance'[b] = instance[b] /\ call'[b] = call[b] /\ peers'[b] = peers[b]
        /\ acknowledged'[b] = acknowledged[b] /\ registered'[b] = registered[b]
  BY <1>1, <1>2 DEF TypeOK
<1>6. PlaceInv'
  BY <1>1, <1>2, <1>4, <1>5, EmptyMap, MapType DEF TypeOK, PlaceInv, controllerVars, PlacedOn, Known, NoCall
<1>7. InstanceInv'
  <2>1. \A b \in Agents : /\ instance[b] \in Nat /\ agents[b].instance \in Nat
                          /\ agents[b].instance <= instance[b]
    BY <1>2 DEF TypeOK, InstanceInv
  <2>2. \A b \in Agents : agents'[b].instance <= instance'[b]
    BY <1>1, <1>4, <1>5, <2>1 DEF controllerVars
  <2>3. \A m \in reports : /\ m.agent \in Agents /\ m.instance \in Nat
                           /\ m.instance <= instance[m.agent]
    BY <1>2 DEF TypeOK, InstanceInv
  <2>4. \A m \in reports' : m.instance <= instance'[m.agent]
    BY <1>1, <1>4, <1>5, <2>3
  <2>5. ASSUME NEW m \in reports', m.instance = instance'[m.agent], NEW n \in DOMAIN m.nodes
        PROVE  peers'[m.agent][n] # "none"
    <3>1. m.agent # a
      BY <1>1, <1>4, <2>3, <2>5
    <3> QED
      BY <1>1, <1>2, <1>5, <2>3, <2>5, <3>1 DEF InstanceInv
  <2>6. \A n \in Nodes : Open(n) =>
          /\ creates[n].agent \in Agents /\ creates[n].instance \in Nat
          /\ creates[n].instance <= agents[creates[n].agent].instance
    BY <1>2 DEF TypeOK, InstanceInv, PlaceInv, Open
  <2>7. ASSUME NEW n \in Nodes, creates'[n].pc = "created",
               creates'[n].instance = instance'[creates'[n].agent]
        PROVE  peers'[creates'[n].agent][n] # "none"
    <3>1. creates[n].agent # a
      BY <1>1, <1>4, <2>1, <2>6, <2>7 DEF Open
    <3> QED
      BY <1>1, <1>2, <1>5, <2>6, <2>7, <3>1 DEF InstanceInv, Open
  <2>8. ASSUME NEW n \in Nodes, nodes'[n].state \in Live,
               agents'[nodes'[n].agent].instance = instance'[nodes'[n].agent]
        PROVE  peers'[nodes'[n].agent][n] # "none"
    <3>1. nodes[n].agent \in Agents
      BY <1>1, <1>2, <2>8 DEF PlaceInv, Live, controllerVars
    <3>2. nodes[n].agent # a
      BY <1>1, <1>4, <2>1, <2>8 DEF controllerVars
    <3> QED
      BY <1>1, <1>2, <1>5, <2>8, <3>1, <3>2 DEF InstanceInv, controllerVars
  <2> QED
    BY <1>1, <1>2, <2>2, <2>4, <2>5, <2>7, <2>8 DEF InstanceInv, Open, Known, controllerVars
<1>8. CaptureInv'
  BY <1>1, <1>2, <1>4, <1>5, EmptyMap, SMTT(30) DEF TypeOK, CaptureInv, NoCall
<1>9. ReservationInv'
  <2>1. KnownPeersAreCharged'
    BY <1>1, <1>2 DEF ReservationInv, KnownPeersAreCharged, controllerVars
  <2>2. ASSUME NEW b \in Agents, NEW n \in Nodes, reservations'[n] = b
        PROVE  \/ creates'[n].pc \in {"posted", "created", "full"}
               \/ agents'[b].instance # instance'[b]
               \/ peers'[b][n] # "none" /\ n \notin acknowledged'[b]
    <3>1. CASE b = a
      <4>1. agents[a].instance <= instance[a] /\ agents[a].instance \in Nat
        BY <1>2 DEF TypeOK, InstanceInv
      <4> QED
        BY <1>1, <1>4, <3>1, <4>1 DEF controllerVars
    <3>2. CASE b # a
      BY <1>1, <1>2, <1>5, <2>2, <3>2 DEF ReservationInv, ReservationsAreReleasable, controllerVars
    <3> QED
      BY <3>1, <3>2
  <2> QED
    BY <1>1, <1>2, <2>1, <2>2 DEF ReservationInv, ReservationsAreReleasable, Open, controllerVars
<1>10. AckInv'
  BY <1>1, <1>2, <1>4, <1>5 DEF AckInv, Accepted, Exits, Known, controllerVars, NoCall
<1> QED
  BY <1>3, <1>6, <1>7, <1>8, <1>9, <1>10 DEF IInv

(* A step that only ends the call of an Agent, or loses a report.          *)
LEMMA LostReport ==
  ASSUME IInv, NEW m, m \in reports, reportLost(m)
  PROVE  IInv'
<1>1. /\ reports' \subseteq reports
      /\ UNCHANGED <<agentVars, controllerVars, creates, deletes, restarts>>
  BY DEF reportLost
<1>2. TypeOK /\ PlaceInv /\ InstanceInv /\ CaptureInv /\ ReservationInv /\ AckInv
  BY DEF IInv
<1>3. TypeOK'
  BY <1>1, <1>2 DEF TypeOK, agentVars, controllerVars
<1>4. PlaceInv'
  BY <1>1, <1>2 DEF PlaceInv, agentVars, controllerVars, PlacedOn, Known
<1>5. InstanceInv'
  BY <1>1, <1>2 DEF InstanceInv, agentVars, controllerVars, Open, Live, Known
<1>6. CaptureInv'
  BY <1>1, <1>2 DEF CaptureInv, agentVars
<1>7. ReservationInv'
  BY <1>1, AgentSide DEF agentVars
<1>8. AckInv'
  BY <1>1, <1>2 DEF AckInv, Accepted, Exits, Known, agentVars, controllerVars
<1> QED
  BY <1>3, <1>4, <1>5, <1>6, <1>7, <1>8 DEF IInv

(* The Agent's call ends without an acceptance: no answer, or a refusal.   *)
LEMMA CallEnds ==
  ASSUME IInv, NEW a \in Agents, call' = [call EXCEPT ![a] = NoCall],
         registered' \in [Agents -> BOOLEAN],
         \A b \in Agents : registered'[b] => registered[b],
         UNCHANGED <<instance, peers, captured, acknowledged, reports, controllerVars,
                     creates, deletes, restarts>>,
         \A b \in Agents : b # a => registered'[b] = registered[b]
  PROVE  IInv'
<1>2. TypeOK /\ PlaceInv /\ InstanceInv /\ CaptureInv /\ ReservationInv /\ AckInv
  BY DEF IInv
<1>3. TypeOK'
  BY <1>2, NoCallType DEF TypeOK, CallType, controllerVars
<1>4. call'[a] = NoCall /\ \A b \in Agents : b # a => call'[b] = call[b]
  BY <1>2 DEF TypeOK
<1>5. PlaceInv'
  BY <1>2, <1>4, EmptyMap DEF PlaceInv, controllerVars, PlacedOn, Known, NoCall
<1>6. InstanceInv'
  BY <1>2 DEF InstanceInv, controllerVars, Open, Live, Known
<1>7. CaptureInv'
  BY <1>2, <1>4, EmptyMap, SMTT(30) DEF TypeOK, CaptureInv, NoCall
<1>8. ReservationInv'
  BY AgentSide
<1>9. AckInv'
  BY <1>2, <1>4 DEF AckInv, Accepted, Exits, Known, NoCall, controllerVars
<1> QED
  BY <1>3, <1>5, <1>6, <1>7, <1>8, <1>9 DEF IInv

(* The POST has no answer.                                                 *)
LEMMA callFailsPreserves ==
  ASSUME IInv, NEW a \in Agents, callFails(a)
  PROVE  IInv'
<1>1. registered \in [Agents -> BOOLEAN]
  BY DEF IInv, TypeOK
<1> QED
  BY <1>1, CallEnds DEF callFails

(* A heartbeat is refused, and the Agent will register again.              *)
LEMMA heartbeatRefusedPreserves ==
  ASSUME IInv, NEW a \in Agents, heartbeatRefused(a)
  PROVE  IInv'
<1>1. /\ call' = [call EXCEPT ![a] = NoCall]
      /\ registered' = [registered EXCEPT ![a] = FALSE]
      /\ UNCHANGED <<instance, peers, captured, acknowledged, reports, controllerVars,
                     creates, deletes, restarts>>
  BY DEF heartbeatRefused
<1>2. registered \in [Agents -> BOOLEAN]
  BY DEF IInv, TypeOK
<1>3. registered' \in [Agents -> BOOLEAN]
  BY <1>1, <1>2
<1>4. \A b \in Agents : registered'[b] => registered[b]
  BY <1>1, <1>2
<1>5. \A b \in Agents : b # a => registered'[b] = registered[b]
  BY <1>1, <1>2
<1> QED
  BY <1>1, <1>3, <1>4, <1>5, CallEnds

(* A registration is answered; an accepted one starts acknowledging anew.  *)
LEMMA registerAnsweredPreserves ==
  ASSUME IInv, NEW a \in Agents, registerAnswered(a)
  PROVE  IInv'
<1>1. /\ call[a].kind = "register" /\ call[a].phase \in {"ok", "conflict"}
      /\ registered' = [registered EXCEPT ![a] = call[a].phase = "ok"]
      /\ acknowledged' = [acknowledged EXCEPT ![a] = IF call[a].phase = "ok" THEN {} ELSE @]
      /\ call' = [call EXCEPT ![a] = NoCall]
      /\ UNCHANGED <<instance, peers, captured, reports, controllerVars, creates, deletes,
                     restarts>>
  BY DEF registerAnswered
<1>2. TypeOK /\ PlaceInv /\ InstanceInv /\ CaptureInv /\ ReservationInv /\ AckInv
  BY DEF IInv
<1>3. registered' \in [Agents -> BOOLEAN]
  BY <1>1, <1>2 DEF TypeOK
<1>4. TypeOK'
  BY <1>1, <1>2, <1>3, NoCallType DEF TypeOK, CallType, controllerVars
<1>5. call'[a] = NoCall /\ \A b \in Agents : b # a => call'[b] = call[b]
  BY <1>1, <1>2 DEF TypeOK
<1>6. /\ \A b \in Agents : acknowledged'[b] \subseteq acknowledged[b]
      /\ \A b \in Agents : b # a => acknowledged'[b] = acknowledged[b]
      /\ call[a].phase = "ok" => acknowledged'[a] = {}
  BY <1>1, <1>2 DEF TypeOK
<1>7. /\ registered'[a] <=> call[a].phase = "ok"
      /\ \A b \in Agents : b # a => registered'[b] = registered[b]
  BY <1>1, <1>2 DEF TypeOK
<1>8. PlaceInv'
  BY <1>1, <1>2, <1>5, <1>6, EmptyMap DEF PlaceInv, controllerVars, PlacedOn, Known, NoCall
<1>9. InstanceInv'
  BY <1>1, <1>2 DEF InstanceInv, controllerVars, Open, Live, Known
<1>10. CaptureInv'
  BY <1>1, <1>2, <1>5, EmptyMap, SMTT(30) DEF TypeOK, CaptureInv, NoCall
<1>11. ReservationInv'
  BY <1>1, <1>6, AgentSide
<1>12. AckInv'
  BY <1>1, <1>2, <1>5, <1>6, <1>7 DEF AckInv, Accepted, Exits, Known, NoCall, controllerVars
<1> QED
  BY <1>4, <1>8, <1>9, <1>10, <1>11, <1>12 DEF IInv

(* An Agent sends a report of what it has now, or had earlier in the same  *)
(* instance, and acknowledges exits of an answered call.                   *)
LEMMA NewReport ==
  ASSUME IInv, NEW a \in Agents, NEW m \in ReportType,
         m.agent = a, m.instance = instance[a],
         \A n \in DOMAIN m.nodes : peers[a][n] # "none",
         reports' \subseteq reports \cup {m},
         m.kind = "register" => ~registered[a] /\ call'[a].phase # "ok",
         captured' \in [Agents -> Nat],
         call' \in [Agents -> CallType],
         \A b \in Agents : b # a => call'[b] = call[b],
         \A n \in DOMAIN call'[a].nodes : peers[a][n] # "none",
         call'[a].kind = "partial" => registered[a],
         call'[a].phase = "ok" => call'[a] = call[a],
         CaptureInv',
         acknowledged' \in [Agents -> SUBSET Nodes],
         \A b \in Agents : b # a => acknowledged'[b] = acknowledged[b],
         \A n \in acknowledged'[a] :
           \/ n \in acknowledged[a]
           \/ call[a].kind = "partial" /\ call[a].phase = "ok" /\ n \in Exits(a),
         UNCHANGED <<instance, peers, registered, controllerVars, creates, deletes, restarts>>
  PROVE  IInv'
<1>1. TypeOK /\ PlaceInv /\ InstanceInv /\ ReservationInv /\ AckInv
  BY DEF IInv
<1>2. TypeOK'
  BY <1>1 DEF TypeOK, ReportType, CallType, controllerVars
<1>3. \A n \in acknowledged'[a] :
        /\ peers[a][n] # "none"
        /\ reservations[n] = NoAgent
        /\ registered[a] /\ Known(a) => nodes[n].state = "stopped"
  <2>1. \A n \in acknowledged[a] :
          /\ peers[a][n] # "none"
          /\ reservations[n] = NoAgent
          /\ registered[a] /\ Known(a) => nodes[n].state = "stopped"
    BY <1>1 DEF PlaceInv, AckInv
  <2>2. ASSUME call[a].kind = "partial", call[a].phase = "ok", NEW n \in Exits(a)
        PROVE  /\ peers[a][n] # "none"
               /\ reservations[n] = NoAgent
               /\ registered[a] /\ Known(a) => nodes[n].state = "stopped"
    <3>1. n \in DOMAIN call[a].nodes
      BY <2>2 DEF IInv, CaptureInv, Exits
    <3> QED
      BY <1>1, <2>2, <3>1 DEF PlaceInv, AckInv
  <2> QED
    BY <2>1, <2>2
<1>4. PlaceInv'
  <2>1. \A k \in reports' : \A n \in DOMAIN k.nodes : PlacedOn(n, k.agent)
    BY <1>1, MapType DEF PlaceInv, ReportType
  <2> QED
    BY <1>1, <1>3, <2>1 DEF PlaceInv, controllerVars, PlacedOn, Known
<1>5. InstanceInv'
  BY <1>1 DEF TypeOK, InstanceInv, controllerVars, Open, Live, Known
<1>6. ReservationInv'
  BY <1>3, AgentSide
<1>7. AckInv'
  <2>1. \A b \in Agents : Accepted(b)' => Accepted(b)
    BY DEF Accepted
  <2>2. Accepted(a)' /\ call'[a].phase # "ok" => registered[a]
    BY DEF Accepted
  <2>3. ASSUME NEW b \in Agents, Accepted(b)', ~Known(b)', NEW k \in reports', k.agent = b
        PROVE  k.kind # "register"
    <3>1. CASE k \in reports
      BY <1>1, <2>1, <2>3, <3>1 DEF AckInv, Known, controllerVars
    <3>2. CASE k = m
      BY <2>2, <2>3, <3>2 DEF Accepted
    <3> QED
      BY <3>1, <3>2
  <2>4. \A b \in Agents : Accepted(b)' /\ Known(b)' => agents'[b].instance = instance'[b]
    BY <1>1, <2>1 DEF AckInv, Known, controllerVars
  <2>5. ASSUME NEW b \in Agents, NEW n \in acknowledged'[b]
        PROVE  /\ reservations'[n] = NoAgent
               /\ registered'[b] /\ Known(b)' => nodes'[n].state = "stopped"
    BY <1>1, <1>3 DEF AckInv, Known, controllerVars
  <2>6. ASSUME NEW b \in Agents, call'[b].kind = "partial", call'[b].phase = "ok", NEW n \in Exits(b)'
        PROVE  /\ reservations'[n] = NoAgent
               /\ Known(b)' => nodes'[n].state = "stopped"
    BY <1>1, <2>6 DEF AckInv, Known, Exits, controllerVars
  <2>7. \A b \in Agents : call'[b].kind = "partial" => registered'[b]
    BY <1>1 DEF AckInv
  <2> QED
    BY <2>3, <2>4, <2>5, <2>6, <2>7 DEF AckInv
<1> QED
  BY <1>2, <1>4, <1>5, <1>6, <1>7 DEF IInv

(* A capture with the next capture time starts a call.                     *)
LEMMA CallStarts ==
  ASSUME IInv, NEW a \in Agents, NEW m \in ReportType, NEW c \in CallType,
         m.agent = a, m.instance = instance[a], m.ts = captured[a] + 1,
         \A n \in DOMAIN c.nodes : peers[a][n] # "none",
         \A n \in DOMAIN m.nodes : n \in DOMAIN c.nodes /\ m.nodes[n] = c.nodes[n],
         c.phase = "sent", c.ts = m.ts, c.kind = m.kind,
         c.batch \cup c.rest \subseteq DOMAIN c.nodes,
         m.kind = "register" => ~registered[a],
         m.kind = "partial" => registered[a],
         captured' = [captured EXCEPT ![a] = captured[a] + 1],
         call' = [call EXCEPT ![a] = c],
         reports' = reports \cup {m},
         UNCHANGED <<instance, peers, acknowledged, registered, controllerVars, creates,
                     deletes, restarts>>
  PROVE  IInv'
<1>1. TypeOK /\ CaptureInv
  BY DEF IInv
<1>2. captured' \in [Agents -> Nat] /\ call' \in [Agents -> CallType]
  BY <1>1 DEF TypeOK, CallType
<1>3. /\ captured'[a] = captured[a] + 1 /\ captured[a] \in Nat /\ call'[a] = c
      /\ \A b \in Agents : b # a => captured'[b] = captured[b] /\ call'[b] = call[b]
  BY <1>1 DEF TypeOK, CallType
<1>4. \A k \in reports : k.agent \in Agents /\ k.ts \in Nat /\ k.ts <= captured[k.agent]
  BY <1>1 DEF TypeOK, CaptureInv
<1>5. CaptureInv'
  <2>1. \A k \in reports' : k.ts <= captured'[k.agent]
    BY <1>3, <1>4
  <2>2. \A b \in Agents : call'[b].ts <= captured'[b]
    BY <1>1, <1>3 DEF CaptureInv
  <2>3. \A b \in Agents : call'[b].batch \cup call'[b].rest \subseteq DOMAIN call'[b].nodes
    BY <1>1, <1>3 DEF CaptureInv
  <2>4. ASSUME NEW k \in reports', k.kind = "partial", call'[k.agent].kind = "partial",
               k.ts = call'[k.agent].ts, NEW n \in DOMAIN k.nodes
        PROVE  n \in DOMAIN call'[k.agent].nodes /\ k.nodes[n] = call'[k.agent].nodes[n]
    <3>1. CASE k = m
      BY <1>3, <2>4, <3>1
    <3>2. CASE k \in reports /\ k.agent = a
      BY <1>3, <1>4, <2>4, <3>2
    <3>3. CASE k \in reports /\ k.agent # a
      BY <1>1, <1>3, <1>4, <2>4, <3>3 DEF CaptureInv
    <3> QED
      BY <3>1, <3>2, <3>3
  <2> QED
    BY <2>1, <2>2, <2>3, <2>4 DEF CaptureInv
<1>6. acknowledged' \in [Agents -> SUBSET Nodes]
  BY <1>1 DEF TypeOK
<1>7. \A n \in DOMAIN m.nodes : peers[a][n] # "none"
  OBVIOUS
<1> QED
  BY <1>2, <1>3, <1>5, <1>6, <1>7, NewReport

(* The Agent registers.                                                    *)
LEMMA registerPreserves ==
  ASSUME IInv, NEW a \in Agents, register(a)
  PROVE  IInv'
<1> DEFINE m == Report(a, "register", captured[a] + 1, occupied(a), <<>>)
           c == [NoCall EXCEPT !.phase = "sent", !.kind = "register", !.ts = captured[a] + 1]
<1>1. /\ ~registered[a]
      /\ captured' = [captured EXCEPT ![a] = captured[a] + 1]
      /\ call' = [call EXCEPT ![a] = c]
      /\ reports' = reports \cup {m}
      /\ UNCHANGED <<instance, peers, acknowledged, registered, controllerVars, creates,
                     deletes, restarts>>
  BY DEF register
<1>2. captured[a] + 1 \in Nat /\ instance[a] \in Nat
  BY DEF IInv, TypeOK
<1>3. /\ m \in ReportType /\ m.agent = a /\ m.instance = instance[a] /\ m.ts = captured[a] + 1
      /\ m.kind = "register" /\ DOMAIN m.nodes = {}
  BY <1>2, EmptyMap, SlotsAreNumbers DEF Report, ReportType
<1>4. /\ c \in CallType /\ c.phase = "sent" /\ c.kind = "register" /\ c.ts = captured[a] + 1
      /\ c.batch = {} /\ c.rest = {} /\ DOMAIN c.nodes = {}
  BY <1>2, EmptyMap DEF NoCall, CallType
<1> HIDE DEF m, c
<1> QED
  BY <1>1, <1>3, <1>4, CallStarts

(* The Agent captures a heartbeat and sends its first batch.               *)
LEMMA heartbeatPreserves ==
  ASSUME IInv, NEW a \in Agents, NEW batch \in SUBSET Nodes, heartbeat(a, batch)
  PROVE  IInv'
<1> DEFINE now == snapshotNodes(a, FALSE)
           m == Report(a, "partial", captured[a] + 1, occupied(a), [n \in batch |-> now[n]])
           c == [phase |-> "sent", kind |-> "partial", ts |-> captured[a] + 1, batch |-> batch,
                 rest |-> DOMAIN now \ batch, occupied |-> occupied(a), nodes |-> now]
<1>1. /\ registered[a] /\ batch \subseteq DOMAIN now
      /\ captured' = [captured EXCEPT ![a] = captured[a] + 1]
      /\ call' = [call EXCEPT ![a] = c]
      /\ reports' = reports \cup {m}
      /\ UNCHANGED <<instance, peers, acknowledged, registered, controllerVars, creates,
                     deletes, restarts>>
  BY DEF heartbeat
<1>2. captured[a] + 1 \in Nat /\ instance[a] \in Nat
  BY DEF IInv, TypeOK
<1>3. now \in NodeMaps /\ \A n \in DOMAIN now : n \in Nodes /\ peers[a][n] # "none"
  BY SnapshotType DEF IInv
<1> HIDE DEF now
<1>4. [n \in batch |-> now[n]] \in NodeMaps /\ DOMAIN [n \in batch |-> now[n]] = batch
  BY <1>1, <1>3, MapPart
<1>5. /\ m \in ReportType /\ m.agent = a /\ m.instance = instance[a] /\ m.ts = captured[a] + 1
      /\ m.kind = "partial" /\ DOMAIN m.nodes = batch /\ \A n \in batch : m.nodes[n] = now[n]
  BY <1>2, <1>4, SlotsAreNumbers DEF Report, ReportType
<1>6. /\ c \in CallType /\ c.phase = "sent" /\ c.kind = "partial" /\ c.ts = captured[a] + 1
      /\ c.batch \cup c.rest \subseteq DOMAIN c.nodes /\ c.nodes = now
  BY <1>1, <1>2, <1>3, SlotsAreNumbers DEF CallType
<1> HIDE DEF m, c
<1>7. /\ \A n \in DOMAIN c.nodes : peers[a][n] # "none"
      /\ \A n \in DOMAIN m.nodes : n \in DOMAIN c.nodes /\ m.nodes[n] = c.nodes[n]
  BY <1>1, <1>3, <1>5, <1>6
<1>8. /\ c.phase = "sent" /\ c.ts = m.ts /\ c.kind = m.kind
      /\ c.batch \cup c.rest \subseteq DOMAIN c.nodes
      /\ m.kind = "register" => ~registered[a]
      /\ m.kind = "partial" => registered[a]
  BY <1>1, <1>5, <1>6
<1>9. /\ m \in ReportType /\ c \in CallType
      /\ m.agent = a /\ m.instance = instance[a] /\ m.ts = captured[a] + 1
  BY <1>5, <1>6
<1>10. /\ captured' = [captured EXCEPT ![a] = captured[a] + 1]
       /\ call' = [call EXCEPT ![a] = c]
       /\ reports' = reports \cup {m}
       /\ UNCHANGED <<instance, peers, acknowledged, registered, controllerVars, creates,
                      deletes, restarts>>
  BY <1>1
<1> QED
  BY <1>7, <1>8, <1>9, <1>10, CallStarts

(* The Agent answers a status request.                                     *)
LEMMA statusCapturedPreserves ==
  ASSUME IInv, NEW a \in Agents, statusCaptured(a)
  PROVE  IInv'
<1> DEFINE now == snapshotNodes(a, TRUE)
           m == Report(a, "full", captured[a] + 1, occupied(a), now)
<1>1. /\ captured' = [captured EXCEPT ![a] = captured[a] + 1]
      /\ reports' = reports \cup {m}
      /\ UNCHANGED <<instance, peers, acknowledged, registered, call, controllerVars, creates,
                     deletes, restarts>>
  BY DEF statusCaptured
<1>2. captured[a] + 1 \in Nat /\ instance[a] \in Nat
  BY DEF IInv, TypeOK
<1>3. now \in NodeMaps /\ \A n \in DOMAIN now : n \in Nodes /\ peers[a][n] # "none"
  BY SnapshotType DEF IInv
<1> HIDE DEF now
<1>4. /\ m \in ReportType /\ m.agent = a /\ m.instance = instance[a] /\ m.ts = captured[a] + 1
      /\ m.kind = "full" /\ m.nodes = now
  BY <1>2, <1>3, SlotsAreNumbers DEF Report, ReportType
<1> HIDE DEF m
<1>5. TypeOK /\ CaptureInv /\ PlaceInv /\ AckInv
  BY DEF IInv
<1>6. /\ captured' \in [Agents -> Nat] /\ call' \in [Agents -> CallType]
      /\ acknowledged' \in [Agents -> SUBSET Nodes]
  BY <1>1, <1>5 DEF TypeOK, CallType
<1>7. /\ captured'[a] = captured[a] + 1 /\ captured[a] \in Nat
      /\ \A b \in Agents : b # a => captured'[b] = captured[b]
  BY <1>1, <1>5 DEF TypeOK
<1>8. CaptureInv'
  <2>1. \A b \in Agents : call[b].ts \in Nat /\ captured[b] \in Nat
    BY <1>5 DEF TypeOK
  <2>2. \A k \in reports : k.agent \in Agents /\ k.ts \in Nat
    BY <1>5 DEF TypeOK
  <2>3. \A k \in reports' : k.ts <= captured'[k.agent]
    BY <1>1, <1>4, <1>5, <1>7, <2>1, <2>2 DEF CaptureInv
  <2>4. \A b \in Agents : call'[b].ts <= captured'[b]
    BY <1>1, <1>5, <1>7, <2>1 DEF CaptureInv
  <2> QED
    BY <1>1, <1>4, <1>5, <2>3, <2>4 DEF CaptureInv
<1>9. \A n \in DOMAIN call'[a].nodes : peers[a][n] # "none"
  BY <1>1, <1>5 DEF PlaceInv
<1>10. call'[a].kind = "partial" => registered[a]
  BY <1>1, <1>5 DEF AckInv
<1> QED
  BY <1>1, <1>3, <1>4, <1>6, <1>8, <1>9, <1>10, NewReport

(* A batch is answered: its exits are acknowledged, and the next is sent.  *)
LEMMA batchAnsweredPreserves ==
  ASSUME IInv, NEW a \in Agents, NEW next \in SUBSET Nodes, batchAnswered(a, next)
  PROVE  IInv'
<1> DEFINE m == Report(a, "partial", call[a].ts, call[a].occupied,
                       [n \in next |-> call[a].nodes[n]])
           c == nextCall(a, next)
<1>1. /\ call[a].kind = "partial" /\ call[a].phase = "ok"
      /\ next \subseteq call[a].rest
      /\ acknowledged' = [acknowledged EXCEPT ![a] = @ \cup Exits(a)]
      /\ call' = [call EXCEPT ![a] = c]
      /\ reports' \subseteq reports \cup {m}
      /\ UNCHANGED <<instance, peers, captured, registered, controllerVars, creates, deletes,
                     restarts>>
  <2>1. /\ call[a].kind = "partial" /\ call[a].phase = "ok"
        /\ next \subseteq call[a].rest
        /\ acknowledged' = [acknowledged EXCEPT ![a] =
             @ \cup {n \in call[a].batch : call[a].nodes[n] = "stopped"}]
        /\ UNCHANGED <<instance, peers, captured, registered, controllerVars, creates, deletes,
                       restarts>>
    BY DEF batchAnswered
  <2>2. call' = [call EXCEPT ![a] = c]
    BY DEF batchAnswered
  <2>3. reports' \subseteq reports \cup {m}
    BY DEF batchAnswered
  <2> QED
    BY <2>1, <2>2, <2>3 DEF Exits
<1>2. TypeOK /\ CaptureInv /\ PlaceInv /\ AckInv
  BY DEF IInv
<1>3. call[a] \in CallType /\ instance[a] \in Nat
  BY <1>2 DEF TypeOK, CallType
<1>4. next \subseteq DOMAIN call[a].nodes
  BY <1>1, <1>2 DEF CaptureInv
<1>5. [n \in next |-> call[a].nodes[n]] \in NodeMaps
      /\ DOMAIN [n \in next |-> call[a].nodes[n]] = next
  BY <1>3, <1>4, MapPart DEF CallType
<1>6. /\ m \in ReportType /\ m.agent = a /\ m.instance = instance[a] /\ m.kind = "partial"
      /\ m.ts = call[a].ts /\ DOMAIN m.nodes = next
      /\ \A n \in next : m.nodes[n] = call[a].nodes[n]
  BY <1>3, <1>5 DEF Report, ReportType, CallType
<1>7. /\ c \in CallType
      /\ c = NoCall \/ /\ c.phase = "sent" /\ c.ts = call[a].ts
                       /\ c.nodes = call[a].nodes /\ c.kind = "partial"
                       /\ c.batch \cup c.rest \subseteq DOMAIN call[a].nodes
  <2>1. CASE next = {}
    BY <2>1, NoCallType DEF nextCall
  <2>2. CASE next # {}
    BY <1>1, <1>2, <1>3, <1>4, <2>2 DEF CallType, CaptureInv, nextCall
  <2> QED
    BY <2>1, <2>2
<1> HIDE DEF m, c
<1>8. /\ call' \in [Agents -> CallType] /\ call'[a] = c
      /\ \A b \in Agents : b # a => call'[b] = call[b]
  BY <1>1, <1>2, <1>7 DEF TypeOK, CallType
<1>9. CaptureInv'
  <2>1. /\ NoCall.ts = 0 /\ NoCall.kind = "none" /\ NoCall.batch = {} /\ NoCall.rest = {}
        /\ DOMAIN NoCall.nodes = {}
    BY EmptyMap DEF NoCall
  <2>2. \A b \in Agents : call[b].ts \in Nat /\ captured[b] \in Nat
    BY <1>2 DEF TypeOK
  <2>3. m.ts <= captured[a]
    BY <1>2, <1>6 DEF CaptureInv
  <2>4. \A k \in reports' : k.ts <= captured'[k.agent]
    BY <1>1, <1>2, <1>6, <2>3 DEF CaptureInv
  <2>5. \A b \in Agents : call'[b].ts <= captured'[b]
    BY <1>1, <1>2, <1>7, <1>8, <2>1, <2>2 DEF CaptureInv
  <2>6. \A b \in Agents : call'[b].batch \cup call'[b].rest \subseteq DOMAIN call'[b].nodes
    BY <1>2, <1>7, <1>8, <2>1 DEF CaptureInv
  <2>7. ASSUME NEW k \in reports', k.kind = "partial", call'[k.agent].kind = "partial",
               k.ts = call'[k.agent].ts, NEW n \in DOMAIN k.nodes
        PROVE  n \in DOMAIN call'[k.agent].nodes /\ k.nodes[n] = call'[k.agent].nodes[n]
    <3>1. CASE k = m
      BY <1>4, <1>6, <1>7, <1>8, <2>1, <2>7, <3>1
    <3>2. CASE k \in reports /\ k.agent = a
      <4>1. c # NoCall
        <5>1. c.kind = "partial"
          BY <1>8, <2>7, <3>2
        <5> QED
          BY <2>1, <5>1
      <4>2. c.ts = call[a].ts /\ c.nodes = call[a].nodes
        BY <1>7, <4>1
      <4>3. k.ts = call[k.agent].ts /\ call[k.agent].kind = "partial"
        BY <1>1, <1>8, <2>7, <3>2, <4>2
      <4>4. n \in DOMAIN call[k.agent].nodes /\ k.nodes[n] = call[k.agent].nodes[n]
        BY <1>2, <2>7, <3>2, <4>3 DEF CaptureInv
      <4> QED
        BY <1>8, <3>2, <4>2, <4>4
    <3>3. CASE k \in reports /\ k.agent # a
      <4>1. k.agent \in Agents
        BY <1>2, <3>3 DEF TypeOK
      <4>2. call'[k.agent] = call[k.agent]
        BY <1>8, <3>3, <4>1
      <4> QED
        BY <1>2, <2>7, <3>3, <4>2 DEF CaptureInv
    <3> QED
      BY <1>1, <3>1, <3>2, <3>3
  <2> QED
    BY <2>4, <2>5, <2>6, <2>7 DEF CaptureInv
<1>10. Exits(a) \subseteq Nodes
  BY <1>3 DEF Exits, CallType
<1>11. /\ acknowledged' \in [Agents -> SUBSET Nodes]
       /\ acknowledged'[a] = acknowledged[a] \cup Exits(a)
       /\ \A b \in Agents : b # a => acknowledged'[b] = acknowledged[b]
  BY <1>1, <1>2, <1>10 DEF TypeOK
<1>12. \A n \in DOMAIN call'[a].nodes : peers[a][n] # "none"
  BY <1>2, <1>7, <1>8, EmptyMap DEF PlaceInv, NoCall
<1>13. \A n \in DOMAIN m.nodes : peers[a][n] # "none"
  BY <1>2, <1>4, <1>6 DEF PlaceInv
<1>14. call'[a].phase # "ok" /\ (call'[a].kind = "partial" => registered[a])
  BY <1>1, <1>2, <1>7, <1>8 DEF AckInv, NoCall
<1>15. captured' \in [Agents -> Nat]
  BY <1>1, <1>2 DEF TypeOK
<1> QED
  BY <1>1, <1>6, <1>8, <1>9, <1>11, <1>12, <1>13, <1>14, <1>15, NewReport

(* The nodes that take a slot of an Agent in the Controller's account.     *)
Charged(a) ==
  {n \in Nodes : \/ nodes[n].agent = a /\ nodes[n].state \in Live
                 \/ reservations[n] = a}

(* A lease expires.                                                        *)
LEMMA leaseExpiresPreserves ==
  ASSUME IInv, NEW a \in Agents, leaseExpires(a)
  PROVE  IInv'
<1>1. /\ agents' = [agents EXCEPT ![a].online = FALSE]
      /\ UNCHANGED <<agentVars, reports, agentSnapshots, nodes, reservations, creates, deletes,
                     restarts>>
  BY DEF leaseExpires
<1>2. TypeOK /\ PlaceInv /\ InstanceInv /\ CaptureInv /\ ReservationInv /\ AckInv
  BY DEF IInv
<1>3. TypeOK'
  <2>1. agents' \in [Agents -> AgentType]
    <3>1. agents \in [Agents -> AgentType]
      BY <1>2 DEF TypeOK, AgentType
    <3>2. [agents[a] EXCEPT !.online = FALSE] \in AgentType
      BY <3>1, AgentRecord
    <3> QED
      BY <1>1, <3>1, <3>2
  <2> QED
    BY <1>1, <1>2, <2>1 DEF TypeOK, agentVars, AgentType
<1>4. \A b \in Agents : /\ agents'[b].known = agents[b].known
                        /\ agents'[b].instance = agents[b].instance
                        /\ agents'[b].active = agents[b].active
  BY <1>1, <1>2 DEF TypeOK
<1>5. PlaceInv'
  BY <1>1, <1>2, <1>4 DEF PlaceInv, agentVars, PlacedOn, Known
<1>6. InstanceInv'
  BY <1>1, <1>2, <1>4 DEF InstanceInv, PlaceInv, agentVars, Open, Live, Known
<1>7. CaptureInv'
  BY <1>1, <1>2 DEF CaptureInv, agentVars
<1>8. ReservationInv'
  <2>1. KnownPeersAreCharged'
    BY <1>1, <1>2, <1>4 DEF ReservationInv, KnownPeersAreCharged
  <2>2. ReservationsAreReleasable'
    BY <1>1, <1>2, <1>4 DEF ReservationInv, ReservationsAreReleasable, agentVars
  <2> QED
    BY <1>1, <1>2, <1>4, <2>1, <2>2 DEF ReservationInv, PlaceInv, Open
<1>9. AckInv'
  BY <1>1, <1>2, <1>4 DEF AckInv, Accepted, Exits, Known, agentVars
<1> QED
  BY <1>3, <1>5, <1>6, <1>7, <1>8, <1>9 DEF IInv

(* A slot is reserved for a node that nothing knows of yet.                *)
LEMMA tryReserveAgentPreserves ==
  ASSUME IInv, NEW n \in Nodes, NEW a \in Agents, tryReserveAgent(n, a)
  PROVE  IInv'
<1>1. /\ creates[n].pc = "idle" /\ reservations[n] = NoAgent /\ Known(a)
      /\ agents' = [agents EXCEPT ![a].active = @ + 1]
      /\ reservations' = [reservations EXCEPT ![n] = a]
      /\ creates' = [creates EXCEPT ![n] =
           [pc |-> "posted", agent |-> a, instance |-> agents[a].instance]]
      /\ UNCHANGED <<agentVars, reports, agentSnapshots, nodes, deletes, restarts>>
  BY DEF tryReserveAgent
<1>2. TypeOK /\ PlaceInv /\ InstanceInv /\ CaptureInv /\ ReservationInv /\ AckInv
  BY DEF IInv
<1>3. /\ \A b \in Agents : /\ agents'[b].known = agents[b].known
                           /\ agents'[b].instance = agents[b].instance
      /\ agents'[a].active = agents[a].active + 1
      /\ \A b \in Agents : b # a => agents'[b].active = agents[b].active
      /\ \A b \in Agents : agents[b].active \in Nat /\ agents[b].instance \in Nat
  BY <1>1, <1>2 DEF TypeOK
<1>4. /\ creates'[n].pc = "posted" /\ creates'[n].agent = a
      /\ creates'[n].instance = agents[a].instance
      /\ reservations'[n] = a
      /\ \A k \in Nodes : k # n => creates'[k] = creates[k] /\ reservations'[k] = reservations[k]
  BY <1>1, <1>2 DEF TypeOK
<1>5. TypeOK'
  <2>1. agents' \in [Agents -> AgentType]
    <3>1. agents \in [Agents -> AgentType] /\ agents[a].active + 1 \in Nat
      BY <1>2 DEF TypeOK, AgentType
    <3>2. [agents[a] EXCEPT !.active = agents[a].active + 1] \in AgentType
      BY <3>1, AgentRecord
    <3> QED
      BY <1>1, <3>1, <3>2
  <2>2. creates' \in [Nodes -> CreateType]
    <3>1. [pc |-> "posted", agent |-> a, instance |-> agents[a].instance] \in CreateType
      BY <1>3 DEF CreateType
    <3> QED
      BY <1>1, <1>2, <3>1 DEF TypeOK, CreateType
  <2>3. reservations' \in [Nodes -> Agents \cup {NoAgent}]
    BY <1>1, <1>2 DEF TypeOK
  <2> QED
    BY <1>1, <1>2, <2>1, <2>2, <2>3 DEF TypeOK, agentVars, AgentType, CreateType
<1>6. /\ \A b \in Agents : peers[b][n] = "none"
      /\ nodes[n].state = "none"
      /\ \A b : ~PlacedOn(n, b)
      /\ n \notin deletes
  BY <1>1, <1>2 DEF PlaceInv, PlacedOn
<1>7. PlaceInv'
  <2>1. \A k \in Nodes, b \in Agents : PlacedOn(k, b) => PlacedOn(k, b)'
    BY <1>4, <1>6 DEF PlacedOn
  <2>2. \A m \in reports : m.agent \in Agents /\ DOMAIN m.nodes \subseteq Nodes
    BY <1>2, MapType DEF TypeOK
  <2>3. \A k \in Nodes : creates'[k].pc # "idle" => creates'[k].agent \in Agents
    BY <1>2, <1>4 DEF PlaceInv
  <2>4. \A b \in Agents, k \in Nodes : peers[b][k] # "none" => PlacedOn(k, b)'
    BY <1>2, <2>1 DEF PlaceInv
  <2>5. ASSUME NEW k \in Nodes, nodes[k].state # "none"
        PROVE  nodes[k].agent \in Agents /\ PlacedOn(k, nodes[k].agent)' /\ Known(nodes[k].agent)'
    BY <1>1, <1>2, <1>3, <2>1, <2>5 DEF PlaceInv, Known
  <2>6. ASSUME NEW k \in Nodes, reservations'[k] # NoAgent
        PROVE  /\ creates'[k].agent = reservations'[k]
               /\ creates'[k].pc \in {"posted", "created", "full", "done"}
               /\ agents'[reservations'[k]].known
    BY <1>1, <1>2, <1>3, <1>4, <2>6 DEF TypeOK, PlaceInv, Known
  <2>7. \A m \in reports : \A k \in DOMAIN m.nodes : PlacedOn(k, m.agent)'
    BY <1>2, <2>1, <2>2 DEF PlaceInv
  <2> QED
    BY <1>1, <1>2, <2>3, <2>4, <2>5, <2>6, <2>7 DEF PlaceInv, agentVars, PlacedOn, Known
<1>8. InstanceInv'
  <2>1. \A k \in Nodes : nodes[k].state \in Live => nodes[k].agent \in Agents
    BY <1>2 DEF PlaceInv, Live
  <2> QED
    BY <1>1, <1>2, <1>3, <1>4, <2>1 DEF PlaceInv, InstanceInv, agentVars, Open, Known
<1>9. CaptureInv'
  BY <1>1, <1>2 DEF CaptureInv, agentVars
<1>10. ReservationInv'
  <2>1. ASSUME NEW b \in Agents PROVE Cardinality(Charged(b)') <= agents'[b].active
    <3>1. Charged(b) \in SUBSET Nodes /\ Charged(b)' \in SUBSET Nodes
      BY DEF Charged
    <3>2. Cardinality(Charged(b)) <= agents[b].active /\ Cardinality(Charged(b)) \in Nat
          /\ Cardinality(Charged(b)') \in Nat
      BY <1>2, <3>1, NodeSets DEF ReservationInv, KnownPeersAreCharged, Charged
    <3>3. CASE b = a
      <4>1. Charged(b)' \subseteq Charged(b) \cup {n}
        BY <1>1, <1>4 DEF Charged
      <4> HIDE DEF Charged
      <4>2. Cardinality(Charged(b)') <= Cardinality(Charged(b)) + 1
        BY <3>1, <4>1, OneNodeMore
      <4> QED
        BY <1>3, <3>2, <3>3, <4>2
    <3>4. CASE b # a
      <4>1. Charged(b)' = Charged(b)
        BY <1>1, <1>4, <3>4, NoAgentAssumption DEF Charged
      <4> QED
        BY <1>3, <3>2, <3>4, <4>1
    <3> QED
      BY <3>3, <3>4
  <2>2. KnownPeersAreCharged'
    BY <2>1 DEF KnownPeersAreCharged, Charged
  <2>3. ReservationsAreReleasable'
    BY <1>1, <1>2, <1>3, <1>4 DEF ReservationInv, ReservationsAreReleasable, agentVars
  <2>4. ASSUME NEW k \in Nodes, Open(k)', nodes[k].state # "none"
        PROVE  reservations'[k] = NoAgent
    BY <1>2, <1>4, <1>6, <2>4 DEF ReservationInv, Open
  <2>5. ASSUME NEW k \in Nodes, Open(k)', nodes[k].state = "none",
               agents'[creates'[k].agent].instance = creates'[k].instance
        PROVE  reservations'[k] = creates'[k].agent
    BY <1>2, <1>3, <1>4, <2>5 DEF ReservationInv, PlaceInv, Open
  <2> QED
    BY <1>1, <2>2, <2>3, <2>4, <2>5 DEF ReservationInv, Open
<1>11. AckInv'
  <2>1. \A b \in Agents : \A k \in acknowledged[b] \cup Exits(b) : k # n
    <3> SUFFICES ASSUME NEW b \in Agents, NEW k \in acknowledged[b] \cup Exits(b)
                 PROVE  peers[b][k] # "none"
      BY <1>6
    <3>1. Exits(b) \subseteq DOMAIN call[b].nodes
      BY <1>2 DEF Exits, CaptureInv
    <3> QED
      BY <1>2, <3>1 DEF PlaceInv
  <2>2. \A b \in Agents : acknowledged[b] \subseteq Nodes /\ Exits(b) \subseteq Nodes
    BY <1>2 DEF TypeOK, Exits
  <2> QED
    BY <1>1, <1>2, <1>3, <1>4, <2>1, <2>2 DEF AckInv, Accepted, Exits, Known, agentVars
<1> QED
  BY <1>5, <1>7, <1>8, <1>9, <1>10, <1>11 DEF IInv

(* A released reservation gives its slot back, and nobody else's.          *)
LEMMA Released ==
  ASSUME IInv, NEW n \in Nodes, Open(n), releaseReservation(n), UNCHANGED nodes
  PROVE  /\ agents' \in [Agents -> AgentType]
         /\ \A b \in Agents : /\ agents'[b].known = agents[b].known
                              /\ agents'[b].instance = agents[b].instance
         /\ reservations' \in [Nodes -> Agents \cup {NoAgent}]
         /\ reservations'[n] = NoAgent
         /\ \A k \in Nodes : k # n => reservations'[k] = reservations[k]
         /\ KnownPeersAreCharged'
<1>1. TypeOK /\ PlaceInv /\ ReservationInv
  BY DEF IInv
<1>1a. PICK a : a = reservations[n]
  OBVIOUS
<1>2. /\ reservations' = [reservations EXCEPT ![n] = NoAgent]
      /\ agents' = IF a = NoAgent \/ agents[a].active = 0 THEN agents
                   ELSE [agents EXCEPT ![a].active = @ - 1]
  BY <1>1a DEF releaseReservation
<1>3. a \in Agents \cup {NoAgent} /\ agents \in [Agents -> AgentType]
  BY <1>1, <1>1a DEF TypeOK, AgentType
<1>4. \A b \in Agents : agents[b].active \in Nat
  BY <1>3 DEF AgentType
<1>5. /\ reservations' \in [Nodes -> Agents \cup {NoAgent}]
      /\ reservations'[n] = NoAgent
      /\ \A k \in Nodes : k # n => reservations'[k] = reservations[k]
  BY <1>1, <1>2 DEF TypeOK
<1>6. \A b \in Agents : /\ Charged(b) \in SUBSET Nodes /\ Charged(b)' \in SUBSET Nodes
                        /\ Cardinality(Charged(b)) \in Nat /\ Cardinality(Charged(b)') \in Nat
                        /\ Cardinality(Charged(b)) <= agents[b].active
  <2>1. \A b \in Agents : Charged(b) \in SUBSET Nodes /\ Charged(b)' \in SUBSET Nodes
    BY DEF Charged
  <2>2. \A b \in Agents : Cardinality(Charged(b)) <= agents[b].active
    BY <1>1 DEF ReservationInv, KnownPeersAreCharged, Charged
  <2> HIDE DEF Charged
  <2> QED
    BY <2>1, <2>2, NodeSets
<1>7. \A b \in Agents : b # a => Charged(b)' = Charged(b)
  BY <1>1a, <1>5, NoAgentAssumption DEF Charged
<1>8. CASE a = NoAgent
  <2>1. agents' = agents
    BY <1>2, <1>8
  <2>2. \A b \in Agents : Cardinality(Charged(b)') <= agents'[b].active
    BY <1>6, <1>7, <1>8, <2>1, NoAgentAssumption
  <2> QED
    BY <1>3, <1>5, <2>1, <2>2 DEF KnownPeersAreCharged, Charged
<1>9. CASE a \in Agents
  <2>1. nodes[n].state \notin Live
    BY <1>1, <1>1a, <1>9, NoAgentAssumption DEF ReservationInv, Live
  <2>2. n \in Charged(a)
    BY <1>1a DEF Charged
  <2>3. Charged(a)' \subseteq Charged(a) \ {n}
    BY <1>5, <1>9, <2>1, NoAgentAssumption DEF Charged
  <2>4. Cardinality(Charged(a)') + 1 <= Cardinality(Charged(a))
    <3>1. Cardinality({n}) = 1
      BY FS_Singleton
    <3>2. {n} \in SUBSET Charged(a) /\ Charged(a) \in SUBSET Nodes /\ Charged(a)' \in SUBSET Nodes
      BY <1>6, <1>9, <2>2
    <3> HIDE DEF Charged
    <3>3. Cardinality(Charged(a)') + Cardinality({n}) <= Cardinality(Charged(a))
      BY <2>3, <3>2, FewerNodes
    <3> QED
      BY <3>1, <3>3
  <2>5. agents[a].active # 0
    BY <1>4, <1>6, <1>9, <2>4
  <2>6. agents' = [agents EXCEPT ![a].active = agents[a].active - 1]
    BY <1>2, <1>9, <2>5, NoAgentAssumption
  <2>7. agents[a].active - 1 \in Nat
    BY <1>4, <1>9, <2>5
  <2>8. [agents[a] EXCEPT !.active = agents[a].active - 1] \in AgentType
    BY <1>3, <1>9, <2>7, AgentRecord
  <2>9. agents' \in [Agents -> AgentType]
    BY <1>3, <1>9, <2>6, <2>8
  <2>10. /\ \A b \in Agents : /\ agents'[b].known = agents[b].known
                              /\ agents'[b].instance = agents[b].instance
         /\ agents'[a].active = agents[a].active - 1
         /\ \A b \in Agents : b # a => agents'[b].active = agents[b].active
    BY <1>3, <1>9, <2>6 DEF AgentType
  <2>11. ASSUME NEW b \in Agents PROVE Cardinality(Charged(b)') <= agents'[b].active
    <3> HIDE DEF Charged
    <3>1. CASE b = a
      <4>1. /\ Cardinality(Charged(a)') \in Nat /\ Cardinality(Charged(a)) \in Nat
            /\ Cardinality(Charged(a)) <= agents[a].active /\ agents[a].active \in Nat
        BY <1>4, <1>6, <1>9
      <4> QED
        BY <2>4, <2>10, <3>1, <4>1
    <3>2. CASE b # a
      BY <1>6, <1>7, <2>10, <3>2
    <3> QED
      BY <3>1, <3>2
  <2> QED
    BY <1>5, <2>9, <2>10, <2>11 DEF KnownPeersAreCharged, Charged
<1> QED
  BY <1>3, <1>8, <1>9

(* A create ends and gives its reservation back.                           *)
LEMMA CreateEnds ==
  ASSUME IInv, NEW n \in Nodes, Open(n), releaseReservation(n),
         NEW c \in CreateType,
         creates' = [creates EXCEPT ![n] = c],
         c.pc \in {"idle", "late", "done"},
         c.pc # "idle" => c.agent = creates[n].agent,
         creates[n].pc = "created" => c.pc = "done",
         UNCHANGED <<agentVars, reports, agentSnapshots, nodes, deletes, restarts>>
  PROVE  IInv'
<1>1. TypeOK /\ PlaceInv /\ InstanceInv /\ CaptureInv /\ ReservationInv /\ AckInv
  BY DEF IInv
<1>2. /\ agents' \in [Agents -> AgentType]
      /\ \A b \in Agents : /\ agents'[b].known = agents[b].known
                           /\ agents'[b].instance = agents[b].instance
      /\ reservations' \in [Nodes -> Agents \cup {NoAgent}]
      /\ reservations'[n] = NoAgent
      /\ \A k \in Nodes : k # n => reservations'[k] = reservations[k]
      /\ KnownPeersAreCharged'
  BY Released
<1>3. creates'[n] = c /\ \A k \in Nodes : k # n => creates'[k] = creates[k]
  BY <1>1 DEF TypeOK
<1>4. TypeOK'
  <2>1. creates' \in [Nodes -> CreateType]
    BY <1>1 DEF TypeOK, CreateType
  <2> QED
    BY <1>1, <1>2, <2>1 DEF TypeOK, agentVars, AgentType, CreateType
<1>5. PlaceInv'
  <2>1. \A k \in Nodes, b \in Agents : PlacedOn(k, b) => PlacedOn(k, b)'
    BY <1>3 DEF PlacedOn, Open
  <2>2. \A m \in reports : m.agent \in Agents /\ DOMAIN m.nodes \subseteq Nodes
    BY <1>1, MapType DEF TypeOK
  <2>3. \A k \in Nodes : creates'[k].pc # "idle" => creates'[k].agent \in Agents
    BY <1>1, <1>3 DEF PlaceInv, Open
  <2>4. \A b \in Agents, k \in Nodes : peers[b][k] # "none" => PlacedOn(k, b)'
    BY <1>1, <2>1 DEF PlaceInv
  <2>5. ASSUME NEW k \in Nodes, nodes[k].state # "none"
        PROVE  nodes[k].agent \in Agents /\ PlacedOn(k, nodes[k].agent)' /\ Known(nodes[k].agent)'
    BY <1>1, <1>2, <2>1, <2>5 DEF PlaceInv, Known
  <2>6. ASSUME NEW k \in Nodes, reservations'[k] # NoAgent
        PROVE  /\ creates'[k].agent = reservations'[k]
               /\ creates'[k].pc \in {"posted", "created", "full", "done"}
               /\ agents'[reservations'[k]].known
    BY <1>1, <1>2, <1>3, <2>6 DEF TypeOK, PlaceInv, Known
  <2>7. \A m \in reports : \A k \in DOMAIN m.nodes : PlacedOn(k, m.agent)'
    BY <1>1, <2>1, <2>2 DEF PlaceInv
  <2> QED
    BY <1>1, <2>3, <2>4, <2>5, <2>6, <2>7 DEF PlaceInv, agentVars, PlacedOn, Known
<1>6. InstanceInv'
  <2>1. \A k \in Nodes : nodes[k].state \in Live => nodes[k].agent \in Agents
    BY <1>1 DEF PlaceInv, Live
  <2>2. \A k \in Nodes : Open(k) => creates[k].agent \in Agents
    BY <1>1 DEF PlaceInv, Open
  <2> QED
    BY <1>1, <1>2, <1>3, <2>1, <2>2 DEF InstanceInv, agentVars, Open, Known
<1>7. CaptureInv'
  BY <1>1 DEF CaptureInv, agentVars
<1>8. ReservationInv'
  <2>1. ReservationsAreReleasable'
    BY <1>1, <1>2, <1>3, NoAgentAssumption DEF ReservationInv, ReservationsAreReleasable, agentVars
  <2>2. ASSUME NEW k \in Nodes, Open(k)', nodes[k].state # "none"
        PROVE  reservations'[k] = NoAgent
    BY <1>1, <1>2, <1>3, <2>2 DEF ReservationInv, Open
  <2>3. ASSUME NEW k \in Nodes, Open(k)', nodes[k].state = "none",
               agents'[creates'[k].agent].instance = creates'[k].instance
        PROVE  reservations'[k] = creates'[k].agent
    BY <1>1, <1>2, <1>3, <2>3 DEF ReservationInv, PlaceInv, Open
  <2> QED
    BY <1>2, <2>1, <2>2, <2>3 DEF ReservationInv, Open
<1>9. AckInv'
  <2>1. \A b \in Agents : acknowledged[b] \subseteq Nodes /\ Exits(b) \subseteq Nodes
    BY <1>1 DEF TypeOK, Exits
  <2> QED
    BY <1>1, <1>2, <2>1 DEF AckInv, Accepted, Exits, Known, agentVars
<1> QED
  BY <1>4, <1>5, <1>6, <1>7, <1>8, <1>9 DEF IInv

(* The Agent is full: the node may be placed again.                        *)
LEMMA createFullPreserves ==
  ASSUME IInv, NEW n \in Nodes, createFull(n)
  PROVE  IInv'
<1>1. NoCreate \in CreateType /\ NoCreate.pc = "idle"
  BY DEF NoCreate, CreateType
<1>2. /\ creates[n].pc = "full" /\ releaseReservation(n)
      /\ creates' = [creates EXCEPT ![n] = NoCreate]
      /\ UNCHANGED <<agentVars, reports, agentSnapshots, nodes, deletes, restarts>>
  BY DEF createFull
<1>3. Open(n)
  BY <1>2 DEF Open
<1> QED
  BY <1>1, <1>2, <1>3, CreateEnds

(* The create fails otherwise; its request may still reach the Agent.      *)
LEMMA createFailsPreserves ==
  ASSUME IInv, NEW n \in Nodes, createFails(n)
  PROVE  IInv'
<1> DEFINE c == [creates[n] EXCEPT !.pc = IF creates[n].pc = "posted" THEN "late" ELSE "done"]
<1>1. /\ creates[n].pc \in {"posted", "created", "full"} /\ releaseReservation(n)
      /\ creates' = [creates EXCEPT ![n] = c]
      /\ UNCHANGED <<agentVars, reports, agentSnapshots, nodes, deletes, restarts>>
  BY DEF createFails
<1>2. creates[n] \in CreateType
  BY DEF IInv, TypeOK, CreateType
<1>3. /\ c \in CreateType /\ c.pc \in {"idle", "late", "done"} /\ c.agent = creates[n].agent
      /\ creates[n].pc = "created" => c.pc = "done"
  BY <1>2 DEF CreateType
<1>4. Open(n)
  BY <1>1 DEF Open
<1> HIDE DEF c
<1> QED
  BY <1>1, <1>3, <1>4, CreateEnds

(* The Agent handles the request of a create, in time or late.             *)
LEMMA createNodePreserves ==
  ASSUME IInv, NEW n \in Nodes, createNode(n)
  PROVE  IInv'
<1>1. TypeOK /\ PlaceInv /\ InstanceInv /\ CaptureInv /\ ReservationInv /\ AckInv
  BY DEF IInv
<1>2. creates[n].pc \in {"posted", "late"}
  BY DEF createNode
<1>3. PICK a \in Agents : a = creates[n].agent
  BY <1>1, <1>2 DEF PlaceInv
<1>4. PICK fits \in BOOLEAN : fits <=> occupied(a) < Capacity[a]
  OBVIOUS
<1>5. PICK pc : pc = IF creates[n].pc # "posted" THEN "done" ELSE IF fits THEN "created" ELSE "full"
  OBVIOUS
<1>6. /\ creates' = [creates EXCEPT ![n].pc = pc]
      /\ peers' = IF fits THEN [peers EXCEPT ![a][n] = "starting"] ELSE peers
      /\ UNCHANGED <<instance, captured, acknowledged, registered, call, reports,
                     controllerVars, deletes, restarts>>
  BY <1>3, <1>4, <1>5 DEF createNode
<1>7. /\ pc \in {"created", "full", "done"}
      /\ creates[n].pc = "late" => pc = "done"
      /\ creates[n].pc = "posted" => pc \in {"created", "full"}
      /\ pc = "created" => fits
      /\ fits => pc \in {"created", "done"}
  BY <1>2, <1>5
<1>8. /\ creates' \in [Nodes -> CreateType]
      /\ creates'[n].pc = pc /\ creates'[n].agent = a
      /\ creates'[n].instance = creates[n].instance
      /\ \A k \in Nodes : k # n => creates'[k] = creates[k]
  <2>1. creates \in [Nodes -> CreateType]
    BY <1>1 DEF TypeOK, CreateType
  <2>2. creates[n] \in CreateType
    BY <2>1
  <2>3. [creates[n] EXCEPT !.pc = pc] \in CreateType
    BY <1>7, <2>2 DEF CreateType
  <2>4. creates' \in [Nodes -> CreateType]
    BY <1>6, <2>1, <2>3
  <2> QED
    BY <1>3, <1>6, <2>1, <2>2, <2>4 DEF CreateType
<1>9. /\ peers' \in [Agents -> [Nodes -> PeerStates]]
      /\ \A b \in Agents, k \in Nodes : b # a \/ k # n => peers'[b][k] = peers[b][k]
      /\ fits => peers'[a][n] = "starting"
      /\ ~fits => peers'[a][n] = peers[a][n]
  BY <1>1, <1>6 DEF TypeOK, PeerStates, Reported, Live
<1>10. TypeOK'
  BY <1>1, <1>6, <1>8, <1>9 DEF TypeOK, controllerVars, CreateType
<1>11. /\ \A b \in Agents : peers[b][n] = "none"
       /\ nodes[n].state = "none"
       /\ \A b : ~PlacedOn(n, b)
  BY <1>1, <1>2 DEF PlaceInv, PlacedOn
<1>12. \A k \in Nodes, b \in Agents : PlacedOn(k, b) => PlacedOn(k, b)'
  BY <1>8, <1>11 DEF PlacedOn
<1>13. \A b \in Agents, k \in Nodes : peers[b][k] # "none" => peers'[b][k] # "none"
  BY <1>9, <1>11
<1>14. PlaceInv'
  <2>1. \A m \in reports : m.agent \in Agents /\ DOMAIN m.nodes \subseteq Nodes
    BY <1>1, MapType DEF TypeOK
  <2>2. \A k \in Nodes : creates'[k].pc # "idle" => creates'[k].agent \in Agents
    BY <1>1, <1>8 DEF PlaceInv
  <2>3. ASSUME NEW b \in Agents, NEW k \in Nodes, peers'[b][k] # "none" PROVE PlacedOn(k, b)'
    <3>1. CASE b = a /\ k = n
      BY <1>7, <1>8, <1>9, <1>11, <2>3, <3>1 DEF PlacedOn
    <3>2. CASE b # a \/ k # n
      BY <1>1, <1>9, <1>12, <2>3, <3>2 DEF PlaceInv
    <3> QED
      BY <3>1, <3>2
  <2>4. ASSUME NEW k \in Nodes, nodes[k].state # "none"
        PROVE  nodes[k].agent \in Agents /\ PlacedOn(k, nodes[k].agent)' /\ Known(nodes[k].agent)'
    BY <1>1, <1>6, <1>12, <2>4 DEF PlaceInv, Known, controllerVars
  <2>5. ASSUME NEW k \in Nodes, reservations[k] # NoAgent
        PROVE  /\ creates'[k].agent = reservations[k]
               /\ creates'[k].pc \in {"posted", "created", "full", "done"}
               /\ agents'[reservations[k]].known
    BY <1>1, <1>3, <1>6, <1>7, <1>8, <2>5 DEF PlaceInv, Known, controllerVars
  <2>6. \A m \in reports : \A k \in DOMAIN m.nodes : PlacedOn(k, m.agent)'
    BY <1>1, <1>12, <2>1 DEF PlaceInv
  <2>7. \A b \in Agents : /\ DOMAIN call[b].nodes \subseteq Nodes
                          /\ acknowledged[b] \subseteq Nodes
    BY <1>1, MapType DEF TypeOK
  <2> QED
    BY <1>1, <1>6, <1>13, <2>2, <2>3, <2>4, <2>5, <2>6, <2>7
       DEF PlaceInv, controllerVars, PlacedOn, Known
<1>15. InstanceInv'
  <2>1. \A m \in reports : m.agent \in Agents /\ DOMAIN m.nodes \subseteq Nodes
    BY <1>1, MapType DEF TypeOK
  <2>2. \A m \in reports : m.instance = instance[m.agent] =>
          \A k \in DOMAIN m.nodes : peers'[m.agent][k] # "none"
    BY <1>1, <1>13, <2>1 DEF InstanceInv
  <2>3. ASSUME NEW k \in Nodes, Open(k)'
        PROVE  /\ agents[creates'[k].agent].known
               /\ creates'[k].instance <= agents[creates'[k].agent].instance
    BY <1>1, <1>2, <1>3, <1>7, <1>8, <2>3 DEF InstanceInv, Open, Known
  <2>4. ASSUME NEW k \in Nodes, creates'[k].pc = "created",
               creates'[k].instance = instance[creates'[k].agent]
        PROVE  peers'[creates'[k].agent][k] # "none"
    <3>1. CASE k = n
      BY <1>7, <1>8, <1>9, <2>4, <3>1
    <3>2. CASE k # n
      <4>1. creates'[k] = creates[k] /\ creates[k].agent \in Agents
        BY <1>1, <1>8, <2>4, <3>2 DEF PlaceInv
      <4>2. peers[creates[k].agent][k] # "none"
        BY <1>1, <2>4, <4>1 DEF InstanceInv
      <4> QED
        BY <1>13, <4>1, <4>2
    <3> QED
      BY <3>1, <3>2
  <2>5. ASSUME NEW k \in Nodes, nodes[k].state \in Live,
               agents[nodes[k].agent].instance = instance[nodes[k].agent]
        PROVE  peers'[nodes[k].agent][k] # "none"
    BY <1>1, <1>13, <2>5 DEF InstanceInv, PlaceInv, Live
  <2> QED
    BY <1>1, <1>6, <2>2, <2>3, <2>4, <2>5 DEF InstanceInv, Open, Known, controllerVars
<1>16. CaptureInv'
  BY <1>1, <1>6 DEF CaptureInv
<1>17. ReservationInv'
  <2>1. KnownPeersAreCharged'
    BY <1>1, <1>6 DEF ReservationInv, KnownPeersAreCharged, controllerVars
  <2>2. ASSUME NEW b \in Agents, NEW k \in Nodes, reservations[k] = b
        PROVE  \/ creates'[k].pc \in {"posted", "created", "full"}
               \/ agents[b].instance # instance[b]
               \/ peers'[b][k] # "none" /\ k \notin acknowledged[b]
    <3>1. CASE k = n
      <4>1. creates[n].pc = "posted"
        BY <1>1, <1>2, <2>2, <3>1, NoAgentAssumption DEF PlaceInv
      <4> QED
        BY <1>7, <1>8, <3>1, <4>1
    <3>2. CASE k # n
      BY <1>1, <1>8, <1>9, <2>2, <3>2 DEF ReservationInv, ReservationsAreReleasable
    <3> QED
      BY <3>1, <3>2
  <2>3. ReservationsAreReleasable'
    BY <1>6, <2>2 DEF ReservationsAreReleasable, controllerVars
  <2>4. ASSUME NEW k \in Nodes, Open(k)', nodes[k].state # "none"
        PROVE  reservations[k] = NoAgent
    BY <1>1, <1>8, <1>11, <2>4 DEF ReservationInv, Open
  <2>5. ASSUME NEW k \in Nodes, Open(k)', nodes[k].state = "none",
               agents[creates'[k].agent].instance = creates'[k].instance
        PROVE  reservations[k] = creates'[k].agent
    BY <1>1, <1>2, <1>3, <1>7, <1>8, <2>5 DEF ReservationInv, Open
  <2> QED
    BY <1>6, <2>1, <2>3, <2>4, <2>5 DEF ReservationInv, Open, controllerVars
<1>18. AckInv'
  BY <1>1, <1>6 DEF AckInv, Accepted, Exits, Known, controllerVars
<1> QED
  BY <1>10, <1>14, <1>15, <1>16, <1>17, <1>18 DEF IInv

(* The created node is put on record, unless its Agent has started again.  *)
LEMMA recordCreatedNodePreserves ==
  ASSUME IInv, NEW n \in Nodes, recordCreatedNode(n)
  PROVE  IInv'
<1>1. TypeOK /\ PlaceInv /\ InstanceInv /\ CaptureInv /\ ReservationInv /\ AckInv
  BY DEF IInv
<1>2. PICK a \in Agents : a = creates[n].agent
  BY <1>1 DEF PlaceInv, recordCreatedNode
<1>3. PICK c : c = [creates[n] EXCEPT !.pc = "done"]
  OBVIOUS
<1>4. /\ creates[n].pc = "created" /\ Open(n)
      /\ creates' = [creates EXCEPT ![n] = c]
      /\ UNCHANGED <<agentVars, reports, agentSnapshots, deletes, restarts>>
  BY <1>3 DEF recordCreatedNode, Open
<1>5. /\ creates \in [Nodes -> CreateType] /\ c \in CreateType
      /\ c.pc = "done" /\ c.agent = a /\ c.instance = creates[n].instance
  <2>1. creates \in [Nodes -> CreateType]
    BY <1>1 DEF TypeOK, CreateType
  <2>2. creates[n] \in CreateType
    BY <2>1
  <2> QED
    BY <1>2, <1>3, <2>1, <2>2 DEF CreateType
<1>6. CASE ~(Known(a) /\ agents[a].instance = creates[n].instance)
  <2>1. releaseReservation(n) /\ UNCHANGED nodes
    BY <1>2, <1>6 DEF recordCreatedNode
  <2> QED
    BY <1>2, <1>4, <1>5, <2>1, CreateEnds
<1>7. CASE Known(a) /\ agents[a].instance = creates[n].instance
  <2>1. /\ nodes' = IF nodes[n].state = "none"
                    THEN [nodes EXCEPT ![n] = [agent |-> a, state |-> "starting"]] ELSE nodes
        /\ UNCHANGED <<agents, reservations>>
    BY <1>2, <1>7 DEF recordCreatedNode
  <2>2. creates'[n] = c /\ \A k \in Nodes : k # n => creates'[k] = creates[k]
    BY <1>1, <1>4 DEF TypeOK
  <2>3. /\ nodes' \in [Nodes -> NodeType]
        /\ \A k \in Nodes : k # n => nodes'[k] = nodes[k]
        /\ nodes[n].state = "none" => nodes'[n].agent = a /\ nodes'[n].state = "starting"
        /\ nodes[n].state # "none" => nodes'[n] = nodes[n]
    <3>1. [agent |-> a, state |-> "starting"] \in NodeType
      BY DEF NodeType, Reported, Live
    <3> QED
      BY <1>1, <2>1, <3>1 DEF TypeOK, NodeType
  <2>4. TypeOK'
    <3>1. creates' \in [Nodes -> CreateType]
      BY <1>4, <1>5
    <3> QED
      BY <1>1, <1>4, <2>1, <2>3, <3>1 DEF TypeOK, agentVars, CreateType, NodeType
  <2>5. \A k \in Nodes, b \in Agents : PlacedOn(k, b) => PlacedOn(k, b)'
    BY <1>2, <1>5, <2>2 DEF PlacedOn
  <2>6. PlaceInv'
    <3>1. \A m \in reports : m.agent \in Agents /\ DOMAIN m.nodes \subseteq Nodes
      BY <1>1, MapType DEF TypeOK
    <3>2. \A k \in Nodes : creates'[k].pc # "idle" => creates'[k].agent \in Agents
      BY <1>1, <1>5, <2>2 DEF PlaceInv
    <3>3. \A b \in Agents, k \in Nodes : peers[b][k] # "none" => PlacedOn(k, b)'
      BY <1>1, <2>5 DEF PlaceInv
    <3>4. PlacedOn(n, a)'
      BY <1>5, <2>2 DEF PlacedOn
    <3>5. ASSUME NEW k \in Nodes, nodes'[k].state # "none", NEW b, b = nodes'[k].agent
          PROVE  b \in Agents /\ PlacedOn(k, b)' /\ agents[b].known
      <4>1. CASE k = n /\ nodes[n].state = "none"
        BY <1>7, <2>3, <3>4, <3>5, <4>1 DEF Known
      <4>2. CASE k # n \/ nodes[n].state # "none"
        BY <1>1, <2>3, <2>5, <3>5, <4>2 DEF PlaceInv, Known
      <4> QED
        BY <4>1, <4>2
    <3>6. ASSUME NEW k \in Nodes, reservations[k] # NoAgent
          PROVE  /\ creates'[k].agent = reservations[k]
                 /\ creates'[k].pc \in {"posted", "created", "full", "done"}
                 /\ agents[reservations[k]].known
      BY <1>1, <1>2, <1>5, <2>2, <3>6 DEF PlaceInv, Known
    <3>7. \A m \in reports : \A k \in DOMAIN m.nodes : PlacedOn(k, m.agent)'
      BY <1>1, <2>5, <3>1 DEF PlaceInv
    <3>8. \A k \in Nodes : nodes'[k].state = "none" => nodes'[k].agent = NoAgent
      BY <1>1, <2>3 DEF PlaceInv
    <3>9. \A k \in deletes : nodes'[k].state # "none"
      BY <1>1, <2>3, ZenonT(30) DEF PlaceInv, TypeOK
    <3> QED
      BY <1>1, <1>4, <2>1, <3>2, <3>3, <3>5, <3>6, <3>7, <3>8, <3>9
         DEF PlaceInv, agentVars, PlacedOn, Known
  <2>7. creates[n].instance = instance[a] => peers[a][n] # "none"
    BY <1>1, <1>2, <1>4 DEF InstanceInv
  <2>8. InstanceInv'
    <3>1. ASSUME NEW k \in Nodes, Open(k)'
          PROVE  k # n
      BY <1>5, <2>2, <3>1 DEF Open
    <3>2. ASSUME NEW k \in Nodes, nodes'[k].state \in Live,
                 agents[nodes'[k].agent].instance = instance[nodes'[k].agent]
          PROVE  peers[nodes'[k].agent][k] # "none"
      BY <1>1, <1>7, <2>3, <2>7, <3>2 DEF InstanceInv
    <3>3. ASSUME NEW k \in Nodes, creates'[k].pc = "created"
          PROVE  creates'[k] = creates[k]
      BY <1>5, <2>2, <3>3
    <3> QED
      BY <1>1, <1>4, <2>1, <2>2, <3>1, <3>2, <3>3 DEF InstanceInv, agentVars, Open, Known
  <2>9. CaptureInv'
    BY <1>1, <1>4 DEF CaptureInv, agentVars
  <2>10. ReservationInv'
    <3>1. nodes[n].state = "none" => reservations[n] = a
      BY <1>1, <1>2, <1>4, <1>7 DEF ReservationInv
    <3>2. ASSUME NEW b \in Agents PROVE Charged(b)' = Charged(b)
      <4>1. CASE nodes[n].state = "none"
        <5>1. \A k \in Nodes : k # n => (k \in Charged(b)' <=> k \in Charged(b))
          BY <2>1, <2>3 DEF Charged
        <5>2. nodes[n].agent = NoAgent
          BY <1>1, <4>1 DEF PlaceInv
        <5>3. n \in Charged(b)' <=> n \in Charged(b)
          BY <2>1, <2>3, <3>1, <4>1, <5>2, NoAgentAssumption DEF Charged, Live
        <5> QED
          BY <5>1, <5>3 DEF Charged
      <4>2. CASE nodes[n].state # "none"
        BY <2>1, <2>3, <4>2 DEF Charged
      <4> QED
        BY <4>1, <4>2
    <3>3. KnownPeersAreCharged'
      <4>1. \A b \in Agents : Cardinality(Charged(b)) <= agents[b].active
        BY <1>1 DEF ReservationInv, KnownPeersAreCharged, Charged
      <4>2. \A b \in Agents : Cardinality(Charged(b)') <= agents'[b].active
        BY <2>1, <3>2, <4>1
      <4> QED
        BY <4>2 DEF KnownPeersAreCharged, Charged
    <3>4. ASSUME NEW b \in Agents, NEW k \in Nodes, reservations[k] = b
          PROVE  \/ creates'[k].pc \in {"posted", "created", "full"}
                 \/ agents[b].instance # instance[b]
                 \/ peers[b][k] # "none" /\ k \notin acknowledged[b]
      <4>1. CASE k = n
        <5>1. b = a
          BY <1>1, <1>2, <3>4, <4>1, NoAgentAssumption DEF PlaceInv
        <5>2. n \notin acknowledged[a]
          BY <1>1, <3>4, <4>1, <5>1, NoAgentAssumption DEF AckInv
        <5> QED
          BY <1>7, <2>7, <4>1, <5>1, <5>2
      <4>2. CASE k # n
        BY <1>1, <2>2, <3>4, <4>2 DEF ReservationInv, ReservationsAreReleasable
      <4> QED
        BY <4>1, <4>2
    <3>5. ReservationsAreReleasable'
      BY <1>4, <2>1, <3>4 DEF ReservationsAreReleasable, agentVars
    <3>6. ASSUME NEW k \in Nodes, Open(k)' PROVE Open(k) /\ k # n
      BY <1>5, <2>2, <3>6 DEF Open
    <3> QED
      BY <1>1, <2>1, <2>2, <2>3, <3>3, <3>5, <3>6 DEF ReservationInv
  <2>11. AckInv'
    <3>1. \A k \in Nodes : nodes[k].state = "stopped" => nodes'[k].state = "stopped"
      BY <2>3
    <3>2. \A b \in Agents : acknowledged[b] \subseteq Nodes /\ Exits(b) \subseteq Nodes
      BY <1>1 DEF TypeOK, Exits
    <3> QED
      BY <1>1, <1>4, <2>1, <3>1, <3>2 DEF AckInv, Accepted, Exits, Known, agentVars
  <2> QED
    BY <2>4, <2>6, <2>8, <2>9, <2>10, <2>11 DEF IInv
<1> QED
  BY <1>6, <1>7

(* A node is stopped at its Agent; the record follows with the answer.     *)
LEMMA stopNodePreserves ==
  ASSUME IInv, NEW n \in Nodes, stopNode(n)
  PROVE  IInv'
<1>1. TypeOK /\ PlaceInv /\ InstanceInv /\ CaptureInv /\ ReservationInv /\ AckInv
  BY DEF IInv
<1>2. PICK a \in Agents : a = nodes[n].agent
  BY <1>1 DEF stopNode, PlaceInv, Live
<1>3. /\ nodes[n].state \in Live /\ peers[a][n] # "none"
      /\ peers' = IF Occupied(peers[a][n]) THEN [peers EXCEPT ![a][n] = "stopping"] ELSE peers
      /\ deletes' = deletes \cup {n}
      /\ UNCHANGED <<instance, captured, acknowledged, registered, call, reports,
                     controllerVars, creates, restarts>>
  BY <1>2 DEF stopNode
<1>4. peers' \in [Agents -> [Nodes -> PeerStates]]
  BY <1>1, <1>3 DEF TypeOK, PeerStates, Reported
<1>5. TypeOK'
  BY <1>1, <1>3, <1>4 DEF TypeOK, controllerVars
<1>6. \A b \in Agents, k \in Nodes : peers'[b][k] # "none" <=> peers[b][k] # "none"
  BY <1>1, <1>3 DEF TypeOK
<1>7. PlaceInv'
  <2>1. \A k \in deletes' : nodes[k].state # "none"
    BY <1>1, <1>3 DEF PlaceInv, Live
  <2>2. \A b \in Agents : /\ DOMAIN call[b].nodes \subseteq Nodes
                          /\ acknowledged[b] \subseteq Nodes
    BY <1>1, MapType DEF TypeOK
  <2> QED
    BY <1>1, <1>3, <1>6, <2>1, <2>2 DEF PlaceInv, controllerVars, PlacedOn, Known
<1>8. InstanceInv'
  BY <1>1, <1>3, <1>6, MapType DEF TypeOK, PlaceInv, InstanceInv, controllerVars, Open, Live, Known
<1>9. CaptureInv'
  BY <1>1, <1>3 DEF CaptureInv
<1>10. ReservationInv'
  <2>1. KnownPeersAreCharged'
    BY <1>1, <1>3 DEF ReservationInv, KnownPeersAreCharged, controllerVars
  <2>2. ReservationsAreReleasable'
    BY <1>1, <1>3, <1>6 DEF ReservationInv, ReservationsAreReleasable, controllerVars
  <2> QED
    BY <1>1, <1>3, <2>1, <2>2 DEF ReservationInv, Open, controllerVars
<1>11. AckInv'
  BY <1>1, <1>3 DEF AckInv, Accepted, Exits, Known, controllerVars
<1> QED
  BY <1>5, <1>7, <1>8, <1>9, <1>10, <1>11 DEF IInv

(* The record of a stopped node is marked and its reservation ends; its    *)
(* slot stays charged until the Agent's next report.                       *)
LEMMA markNodeStoppingPreserves ==
  ASSUME IInv, NEW n \in Nodes, markNodeStopping(n)
  PROVE  IInv'
<1>1. TypeOK /\ PlaceInv /\ InstanceInv /\ CaptureInv /\ ReservationInv /\ AckInv
  BY DEF IInv
<1>2. /\ n \in deletes /\ deletes' = deletes \ {n}
      /\ nodes' = IF nodes[n].state \in Live THEN [nodes EXCEPT ![n].state = "stopping"]
                  ELSE nodes
      /\ reservations' = [reservations EXCEPT ![n] = NoAgent]
      /\ UNCHANGED <<agentVars, reports, agents, agentSnapshots, creates, restarts>>
  BY DEF markNodeStopping
<1>3. nodes[n].state # "none"
  BY <1>1, <1>2 DEF PlaceInv
<1>4. /\ nodes' \in [Nodes -> NodeType]
      /\ \A k \in Nodes : k # n => nodes'[k] = nodes[k]
      /\ nodes'[n].agent = nodes[n].agent
      /\ nodes'[n].state \notin Live
      /\ nodes'[n].state # "none"
      /\ nodes[n].state = "stopped" => nodes'[n].state = "stopped"
  <2>1. nodes \in [Nodes -> NodeType] /\ nodes[n] \in NodeType
    BY <1>1 DEF TypeOK, NodeType
  <2>2. CASE nodes[n].state \in Live
    <3>1. [nodes[n] EXCEPT !.state = "stopping"] \in NodeType
      BY <2>1 DEF NodeType, Reported
    <3> QED
      BY <1>2, <2>1, <2>2, <3>1 DEF NodeType, Live
  <2>3. CASE nodes[n].state \notin Live
    BY <1>2, <1>3, <2>1, <2>3
  <2> QED
    BY <2>2, <2>3
<1>5. /\ reservations' \in [Nodes -> Agents \cup {NoAgent}]
      /\ reservations'[n] = NoAgent
      /\ \A k \in Nodes : k # n => reservations'[k] = reservations[k]
  BY <1>1, <1>2 DEF TypeOK
<1>6. TypeOK'
  BY <1>1, <1>2, <1>4, <1>5 DEF TypeOK, agentVars, NodeType
<1>7. PlaceInv'
  <2>1. \A k \in Nodes : nodes'[k].agent = nodes[k].agent
                         /\ (nodes'[k].state = "none" <=> nodes[k].state = "none")
    BY <1>3, <1>4
  <2>2. \A k \in deletes' : nodes'[k].state # "none"
    BY <1>1, <1>2, <1>4 DEF PlaceInv, TypeOK
  <2>3. \A k \in Nodes : reservations'[k] # NoAgent => reservations'[k] = reservations[k]
    BY <1>5
  <2>4. ASSUME NEW k \in Nodes, reservations'[k] # NoAgent
        PROVE  /\ creates[k].agent = reservations'[k]
               /\ creates[k].pc \in {"posted", "created", "full", "done"}
               /\ agents[reservations'[k]].known
    BY <1>1, <2>3, <2>4 DEF PlaceInv, Known
  <2>5. ASSUME NEW k \in Nodes, nodes'[k].state # "none"
        PROVE  /\ nodes'[k].agent \in Agents
               /\ PlacedOn(k, nodes[k].agent)
               /\ agents[nodes'[k].agent].known
    BY <1>1, <2>1, <2>5 DEF PlaceInv, Known
  <2> QED
    BY <1>1, <1>2, <2>1, <2>2, <2>4, <2>5 DEF PlaceInv, agentVars, PlacedOn, Known
<1>8. InstanceInv'
  <2>1. \A k \in Nodes : nodes'[k].state \in Live => nodes'[k] = nodes[k]
    BY <1>4
  <2> QED
    BY <1>1, <1>2, <2>1 DEF InstanceInv, agentVars, Open, Known
<1>9. CaptureInv'
  BY <1>1, <1>2 DEF CaptureInv, agentVars
<1>10. ReservationInv'
  <2>1. ASSUME NEW b \in Agents PROVE Cardinality(Charged(b)') <= agents[b].active
    <3>1. Charged(b)' \subseteq Charged(b)
      BY <1>4, <1>5, NoAgentAssumption DEF Charged
    <3>2. Charged(b) \in SUBSET Nodes /\ Charged(b)' \in SUBSET Nodes
      BY DEF Charged
    <3>3. Cardinality(Charged(b)) <= agents[b].active
      BY <1>1 DEF ReservationInv, KnownPeersAreCharged, Charged
    <3>4. agents[b].active \in Nat
      BY <1>1 DEF TypeOK
    <3> HIDE DEF Charged
    <3>5. /\ IsFiniteSet(Charged(b)) /\ Cardinality(Charged(b)) \in Nat
          /\ Cardinality(Charged(b)') \in Nat
      BY <3>2, NodeSets
    <3>6. Cardinality(Charged(b)') <= Cardinality(Charged(b))
      BY <3>1, <3>5, FS_Subset
    <3> QED
      BY <3>3, <3>4, <3>5, <3>6
  <2>2. KnownPeersAreCharged'
    BY <1>2, <2>1 DEF KnownPeersAreCharged, Charged
  <2>3. ReservationsAreReleasable'
    BY <1>1, <1>2, <1>5, NoAgentAssumption
       DEF ReservationInv, ReservationsAreReleasable, agentVars
  <2>4. ASSUME NEW k \in Nodes, Open(k), nodes'[k].state # "none"
        PROVE  reservations'[k] = NoAgent
    BY <1>1, <1>4, <1>5, <2>4 DEF ReservationInv
  <2>5. ASSUME NEW k \in Nodes, Open(k), nodes'[k].state = "none",
               agents[creates[k].agent].instance = creates[k].instance
        PROVE  reservations'[k] = creates[k].agent
    BY <1>1, <1>4, <1>5, <2>5 DEF ReservationInv
  <2> QED
    BY <1>2, <2>2, <2>3, <2>4, <2>5 DEF ReservationInv, Open
<1>11. AckInv'
  <2>1. \A b \in Agents : acknowledged[b] \subseteq Nodes /\ Exits(b) \subseteq Nodes
    BY <1>1 DEF TypeOK, Exits
  <2>2. \A k \in Nodes : /\ nodes[k].state = "stopped" => nodes'[k].state = "stopped"
                         /\ reservations[k] = NoAgent => reservations'[k] = NoAgent
    BY <1>4, <1>5
  <2> QED
    BY <1>1, <1>2, <2>1, <2>2 DEF AckInv, Accepted, Exits, Known, agentVars
<1> QED
  BY <1>6, <1>7, <1>8, <1>9, <1>10, <1>11 DEF IInv

(* A DELETE failed.                                                        *)
LEMMA deleteFailsPreserves ==
  ASSUME IInv, NEW n \in Nodes, deleteFails(n)
  PROVE  IInv'
<1>1. /\ deletes' = deletes \ {n}
      /\ UNCHANGED <<agentVars, reports, controllerVars, creates, restarts>>
  BY DEF deleteFails
<1>2. TypeOK /\ PlaceInv /\ InstanceInv /\ CaptureInv /\ ReservationInv /\ AckInv
  BY DEF IInv
<1>3. TypeOK'
  BY <1>1, <1>2 DEF TypeOK, agentVars, controllerVars
<1>4. PlaceInv'
  BY <1>1, <1>2 DEF PlaceInv, agentVars, controllerVars, PlacedOn, Known
<1>5. InstanceInv'
  BY <1>1, <1>2 DEF InstanceInv, agentVars, controllerVars, Open, Live, Known
<1>6. CaptureInv'
  BY <1>1, <1>2 DEF CaptureInv, agentVars
<1>7. ReservationInv'
  <2>1. KnownPeersAreCharged'
    BY <1>1, <1>2 DEF ReservationInv, KnownPeersAreCharged, controllerVars
  <2>2. ReservationsAreReleasable'
    BY <1>1, <1>2 DEF ReservationInv, ReservationsAreReleasable, agentVars, controllerVars
  <2> QED
    BY <1>1, <1>2, <2>1, <2>2 DEF ReservationInv, Open, controllerVars
<1>8. AckInv'
  BY <1>1, <1>2 DEF AckInv, Accepted, Exits, Known, agentVars, controllerVars
<1> QED
  BY <1>3, <1>4, <1>5, <1>6, <1>7, <1>8 DEF IInv

(* The Controller starts again and knows nothing; the creates it posted    *)
(* and the Peers stay where they are.                                      *)
LEMMA controllerRestartsPreserves ==
  ASSUME IInv, controllerRestarts
  PROVE  IInv'
<1>1. /\ reports' = {} /\ deletes' = {} /\ restarts' = restarts + 1
      /\ agents' = [a \in Agents |-> UnknownAgent]
      /\ agentSnapshots' = [a \in Agents |-> 0]
      /\ nodes' = [n \in Nodes |-> NoNode]
      /\ reservations' = [n \in Nodes |-> NoAgent]
      /\ UNCHANGED agentVars
  BY DEF controllerRestarts
<1>2. TypeOK /\ PlaceInv /\ InstanceInv /\ CaptureInv /\ ReservationInv /\ AckInv
  BY DEF IInv
<1>3. /\ \A a \in Agents : agents'[a] = UnknownAgent
      /\ \A n \in Nodes : nodes'[n] = NoNode /\ reservations'[n] = NoAgent
  BY <1>1
<1>4. /\ creates' \in [Nodes -> CreateType]
      /\ \A n \in Nodes : /\ creates'[n].agent = creates[n].agent
                          /\ ~Open(n)'
                          /\ creates[n].pc = "idle" => creates'[n].pc = "idle"
                          /\ creates[n].pc \in {"created", "done"} => creates'[n].pc = "done"
  <2>1. creates \in [Nodes -> CreateType]
    BY <1>2 DEF TypeOK, CreateType
  <2>2. ASSUME NEW n \in Nodes
        PROVE  \E c \in CreateType :
                 /\ c = (CASE creates[n].pc = "posted" -> [creates[n] EXCEPT !.pc = "late"]
                           [] creates[n].pc \in {"created", "full"} ->
                                [creates[n] EXCEPT !.pc = "done"]
                           [] OTHER -> creates[n])
                 /\ c.agent = creates[n].agent
                 /\ c.pc \notin {"posted", "created", "full"}
                 /\ creates[n].pc = "idle" => c.pc = "idle"
                 /\ creates[n].pc \in {"created", "done"} => c.pc = "done"
    <3>1. creates[n] \in CreateType
      BY <2>1
    <3>2. /\ [creates[n] EXCEPT !.pc = "late"] \in CreateType
          /\ [creates[n] EXCEPT !.pc = "late"].pc = "late"
          /\ [creates[n] EXCEPT !.pc = "late"].agent = creates[n].agent
          /\ [creates[n] EXCEPT !.pc = "done"] \in CreateType
          /\ [creates[n] EXCEPT !.pc = "done"].pc = "done"
          /\ [creates[n] EXCEPT !.pc = "done"].agent = creates[n].agent
      BY <3>1 DEF CreateType
    <3>3. CASE creates[n].pc = "posted"
      BY <3>2, <3>3
    <3>4. CASE creates[n].pc \in {"created", "full"}
      BY <3>2, <3>4
    <3>5. CASE creates[n].pc \notin {"posted", "created", "full"}
      BY <3>1, <3>5
    <3> QED
      BY <3>3, <3>4, <3>5
  <2>3. creates' = [n \in Nodes |->
          CASE creates[n].pc = "posted" -> [creates[n] EXCEPT !.pc = "late"]
            [] creates[n].pc \in {"created", "full"} -> [creates[n] EXCEPT !.pc = "done"]
            [] OTHER -> creates[n]]
    BY DEF controllerRestarts
  <2>4. ASSUME NEW n \in Nodes
        PROVE  /\ creates'[n] \in CreateType
               /\ creates'[n].agent = creates[n].agent
               /\ creates'[n].pc \notin {"posted", "created", "full"}
               /\ creates[n].pc = "idle" => creates'[n].pc = "idle"
               /\ creates[n].pc \in {"created", "done"} => creates'[n].pc = "done"
    <3>1. creates'[n] =
            CASE creates[n].pc = "posted" -> [creates[n] EXCEPT !.pc = "late"]
              [] creates[n].pc \in {"created", "full"} -> [creates[n] EXCEPT !.pc = "done"]
              [] OTHER -> creates[n]
      BY <2>3
    <3> QED
      BY <2>2, <3>1
  <2>5. DOMAIN creates' = Nodes /\ creates' = [n \in Nodes |-> creates'[n]]
    BY <2>3
  <2> QED
    BY <2>4, <2>5 DEF Open
<1>5. TypeOK'
  <2>1. agents' \in [Agents -> [known : BOOLEAN, instance : Nat, active : Nat, online : BOOLEAN]]
    BY <1>1 DEF UnknownAgent
  <2>2. nodes' \in [Nodes -> [agent : Agents \cup {NoAgent}, state : Reported \cup {"none"}]]
    BY <1>1 DEF NoNode
  <2> QED
    BY <1>1, <1>2, <1>4, <2>1, <2>2 DEF TypeOK, agentVars, CreateType
<1>6. \A k \in Nodes, b \in Agents : PlacedOn(k, b) => PlacedOn(k, b)'
  BY <1>4 DEF PlacedOn
<1>7. PlaceInv'
  <2>1. \A k \in Nodes : creates'[k].pc # "idle" => creates'[k].agent \in Agents
    BY <1>2, <1>4 DEF PlaceInv
  <2>2. \A b \in Agents, k \in Nodes : peers[b][k] # "none" => PlacedOn(k, b)'
    BY <1>2, <1>6 DEF PlaceInv
  <2> QED
    BY <1>1, <1>2, <1>3, <2>1, <2>2 DEF PlaceInv, agentVars, NoNode
<1>8. InstanceInv'
  <2>1. \A a \in Agents : agents'[a].instance <= instance[a]
    BY <1>2, <1>3 DEF TypeOK, UnknownAgent
  <2>2. \A n \in Nodes : creates'[n].pc # "created" /\ nodes'[n].state \notin Live
    BY <1>3, <1>4 DEF Open, NoNode, Live
  <2> QED
    BY <1>1, <1>4, <2>1, <2>2 DEF InstanceInv, agentVars
<1>9. CaptureInv'
  BY <1>1, <1>2 DEF CaptureInv, agentVars
<1>10. ReservationInv'
  <2>1. ASSUME NEW a \in Agents PROVE Cardinality(Charged(a)') <= agents'[a].active
    <3>1. Charged(a)' = {}
      BY <1>3, NoAgentAssumption DEF Charged, NoNode
    <3> HIDE DEF Charged
    <3> QED
      BY <1>3, <3>1, FS_EmptySet DEF UnknownAgent
  <2>2. KnownPeersAreCharged'
    BY <2>1 DEF KnownPeersAreCharged, Charged
  <2>3. ReservationsAreReleasable'
    BY <1>3, NoAgentAssumption DEF ReservationsAreReleasable
  <2> QED
    BY <1>4, <2>2, <2>3 DEF ReservationInv
<1>11. AckInv'
  <2>1. \A a \in Agents : ~Known(a)'
    BY <1>3 DEF Known, UnknownAgent
  <2>2. \A a \in Agents : acknowledged[a] \subseteq Nodes /\ Exits(a) \subseteq Nodes
    BY <1>2 DEF TypeOK, Exits
  <2> QED
    BY <1>1, <1>2, <1>3, <2>1, <2>2 DEF AckInv, Accepted, Exits, agentVars
<1> QED
  BY <1>5, <1>7, <1>8, <1>9, <1>10, <1>11 DEF IInv

(* An answer changes only the phase of the call it is for.                 *)
LEMMA Answered ==
  ASSUME IInv, NEW m \in reports, NEW phase \in {"ok", "conflict"}, Answer(m, phase)
  PROVE  /\ call' \in [Agents -> CallType]
         /\ \A b \in Agents : /\ call'[b].kind = call[b].kind
                              /\ call'[b].ts = call[b].ts
                              /\ call'[b].batch = call[b].batch
                              /\ call'[b].rest = call[b].rest
                              /\ call'[b].nodes = call[b].nodes
         /\ \A b \in Agents : call'[b].phase # call[b].phase =>
              /\ b = m.agent /\ call'[b].phase = phase
              /\ instance[b] = m.instance
              /\ call[b].kind = m.kind /\ call[b].ts = m.ts
              /\ call[b].batch = DOMAIN m.nodes
<1>1. PICK a \in Agents : a = m.agent
  BY DEF IInv, TypeOK
<1>2. PICK c : c = [call[a] EXCEPT !.phase = phase]
  OBVIOUS
<1>3. call \in [Agents -> CallType]
  BY DEF IInv, TypeOK, CallType
<1>4. /\ c \in CallType /\ c.phase = phase /\ c.kind = call[a].kind /\ c.ts = call[a].ts
      /\ c.batch = call[a].batch /\ c.rest = call[a].rest /\ c.nodes = call[a].nodes
  <2>1. call[a] \in CallType
    BY <1>3
  <2> QED
    BY <1>2, <2>1 DEF CallType
<1>5. \/ call' = call
      \/ /\ call' = [call EXCEPT ![a] = c]
         /\ instance[a] = m.instance /\ call[a].kind = m.kind /\ call[a].ts = m.ts
         /\ call[a].batch = DOMAIN m.nodes
  BY <1>1, <1>2 DEF Answer
<1>6. CASE call' = call
  BY <1>3, <1>6
<1>7. CASE call' # call
  <2>1. call'[a] = c /\ \A b \in Agents : b # a => call'[b] = call[b]
    BY <1>3, <1>5, <1>7
  <2>2. call' \in [Agents -> CallType]
    BY <1>3, <1>4, <1>5
  <2> QED
    BY <1>1, <1>4, <1>5, <1>7, <2>1, <2>2
<1> QED
  BY <1>6, <1>7

(* Capture times stay apart when a report is handled.                      *)
LEMMA AnsweredCapture ==
  ASSUME IInv, NEW m \in reports, NEW phase \in {"ok", "conflict"}, Answer(m, phase),
         reports' \subseteq reports, UNCHANGED captured
  PROVE  CaptureInv'
<1>1. \A b \in Agents : /\ call'[b].kind = call[b].kind
                        /\ call'[b].ts = call[b].ts
                        /\ call'[b].batch = call[b].batch
                        /\ call'[b].rest = call[b].rest
                        /\ call'[b].nodes = call[b].nodes
  BY Answered
<1>2. CaptureInv /\ \A k \in reports : k.agent \in Agents
  BY DEF IInv, TypeOK
<1> QED
  BY <1>1, <1>2 DEF CaptureInv

(* A report is refused, or is a full one that says nothing new.            *)
LEMMA ReportRefused ==
  ASSUME IInv, NEW m \in reports, NEW phase \in {"ok", "conflict"}, Answer(m, phase),
         phase = "conflict" \/ m.kind = "full",
         reports' \subseteq reports,
         UNCHANGED <<instance, peers, captured, acknowledged, registered, controllerVars,
                     creates, deletes, restarts>>
  PROVE  IInv'
<1>1. TypeOK /\ PlaceInv /\ InstanceInv /\ CaptureInv /\ ReservationInv /\ AckInv
  BY DEF IInv
<1>2. /\ call' \in [Agents -> CallType]
      /\ \A b \in Agents : /\ call'[b].kind = call[b].kind
                           /\ call'[b].batch = call[b].batch
                           /\ call'[b].nodes = call[b].nodes
      /\ \A b \in Agents : call'[b].phase # call[b].phase =>
           call'[b].phase = phase /\ call[b].kind = m.kind
  BY Answered
<1>3. \A b \in Agents : call'[b].phase = "ok" => call[b].phase = "ok"
  <2>1. \A b \in Agents : call[b].kind # "full"
    BY <1>1 DEF TypeOK
  <2> QED
    BY <1>2, <2>1
<1>4. TypeOK'
  BY <1>1, <1>2 DEF TypeOK, controllerVars, CallType
<1>5. PlaceInv'
  BY <1>1, <1>2 DEF PlaceInv, controllerVars, PlacedOn, Known
<1>6. InstanceInv'
  BY <1>1 DEF InstanceInv, controllerVars, Open, Live, Known
<1>7. CaptureInv'
  BY AnsweredCapture
<1>8. ReservationInv'
  BY AgentSide
<1>9. AckInv'
  <2>1. \A b \in Agents : Accepted(b)' => Accepted(b)
    BY <1>2, <1>3 DEF Accepted
  <2>2. \A b \in Agents : Exits(b)' = Exits(b)
    BY <1>2 DEF Exits
  <2> QED
    BY <1>1, <1>2, <1>3, <2>1, <2>2 DEF AckInv, Known, controllerVars
<1> QED
  BY <1>4, <1>5, <1>6, <1>7, <1>8, <1>9 DEF IInv

(* A registration is handled.                                              *)
LEMMA registerAgentPreserves ==
  ASSUME IInv, NEW m \in reports, registerAgent(m)
  PROVE  IInv'
<1>1. TypeOK /\ PlaceInv /\ InstanceInv /\ CaptureInv /\ ReservationInv /\ AckInv
  BY DEF IInv
<1>2. PICK a \in Agents : a = m.agent
  BY <1>1 DEF TypeOK
<1>3. PICK restarted \in BOOLEAN : restarted <=> agents[a].known /\ m.instance # agents[a].instance
  OBVIOUS
<1>4. /\ m.kind = "register" /\ reports' \subseteq reports
      /\ UNCHANGED <<instance, peers, captured, acknowledged, registered, creates, deletes,
                     restarts>>
  BY DEF registerAgent
<1>5. CASE restarted /\ (m.instance < agents[a].instance \/ agents[a].online)
  <2>1. UNCHANGED controllerVars /\ Answer(m, "conflict")
    BY <1>2, <1>3, <1>5 DEF registerAgent, Restarted
  <2> QED
    BY <1>4, <2>1, ReportRefused
<1>6. CASE ~(restarted /\ (m.instance < agents[a].instance \/ agents[a].online))
  <2>1. PICK active : active = IF restarted THEN m.occupied
                               ELSE IF agents[a].known THEN Larger(m.occupied, agents[a].active)
                               ELSE m.occupied + reserved(a)
    OBVIOUS
  <2>2. PICK rec : rec = [known |-> TRUE, instance |-> m.instance, active |-> active,
                          online |-> TRUE]
    OBVIOUS
  <2>3. PICK ts : ts = Larger(m.ts, IF restarted THEN 0 ELSE agentSnapshots[a])
    OBVIOUS
  <2>4. /\ agents' = [agents EXCEPT ![a] = rec]
        /\ agentSnapshots' = [agentSnapshots EXCEPT ![a] = ts]
        /\ reservations' = [n \in Nodes |->
             IF restarted /\ reservations[n] = a THEN NoAgent ELSE reservations[n]]
        /\ nodes' = [n \in Nodes |->
             IF restarted /\ nodes[n].agent = a /\ nodes[n].state \notin {"stopped", "failed"}
             THEN [nodes[n] EXCEPT !.state = "failed"] ELSE nodes[n]]
        /\ Answer(m, "ok")
    BY <1>2, <1>3, <1>6, <2>1, <2>2, <2>3 DEF registerAgent, Restarted
  <2>5. /\ m.instance \in Nat /\ m.occupied \in Nat /\ m.ts \in Nat
        /\ agents[a].active \in Nat /\ agents[a].instance \in Nat /\ agentSnapshots[a] \in Nat
        /\ agents \in [Agents -> AgentType]
        /\ m.instance <= instance[a] /\ instance[a] \in Nat
    BY <1>1, <1>2 DEF TypeOK, InstanceInv, AgentType
  <2>6. /\ active \in Nat
        /\ ~restarted /\ agents[a].known => active >= agents[a].active
    BY <2>1, <2>5, SlotsAreNumbers DEF Larger
  <2>7. rec \in AgentType /\ rec.known /\ rec.instance = m.instance /\ rec.active = active
    BY <2>2, <2>5, <2>6 DEF AgentType
  <2>8. /\ agents' \in [Agents -> AgentType]
        /\ agents'[a].known /\ agents'[a].instance = m.instance /\ agents'[a].active = active
        /\ \A b \in Agents : b # a => agents'[b] = agents[b]
    BY <2>4, <2>5, <2>7
  <2>9. ts \in Nat
    BY <2>3, <2>5 DEF Larger
  <2>10. /\ reservations' \in [Nodes -> Agents \cup {NoAgent}]
         /\ \A n \in Nodes : reservations'[n] # reservations[n] =>
              restarted /\ reservations[n] = a /\ reservations'[n] = NoAgent
         /\ restarted => \A n \in Nodes : reservations'[n] # a
    BY <1>1, <2>4, NoAgentAssumption DEF TypeOK
  <2>11. /\ nodes' \in [Nodes -> NodeType]
         /\ \A n \in Nodes : nodes'[n].agent = nodes[n].agent
         /\ \A n \in Nodes : nodes'[n] # nodes[n] =>
              /\ restarted /\ nodes[n].agent = a /\ nodes'[n].state = "failed"
              /\ nodes[n].state # "stopped"
         /\ restarted => \A n \in Nodes : nodes[n].agent = a => nodes'[n].state \notin Live
    <3>1. ASSUME NEW n \in Nodes
          PROVE  /\ nodes'[n] \in NodeType
                 /\ nodes'[n].agent = nodes[n].agent
                 /\ nodes'[n] # nodes[n] =>
                      /\ restarted /\ nodes[n].agent = a /\ nodes'[n].state = "failed"
                      /\ nodes[n].state # "stopped"
                 /\ restarted /\ nodes[n].agent = a => nodes'[n].state \notin Live
      <4>1. nodes[n] \in NodeType
        BY <1>1 DEF TypeOK, NodeType
      <4>2. /\ [nodes[n] EXCEPT !.state = "failed"] \in NodeType
            /\ [nodes[n] EXCEPT !.state = "failed"].state = "failed"
            /\ [nodes[n] EXCEPT !.state = "failed"].agent = nodes[n].agent
        BY <4>1 DEF NodeType, Reported
      <4>3. CASE restarted /\ nodes[n].agent = a /\ nodes[n].state \notin {"stopped", "failed"}
        <5>1. nodes'[n] = [nodes[n] EXCEPT !.state = "failed"]
          BY <2>4, <4>3
        <5> QED
          BY <4>2, <4>3, <5>1 DEF Live
      <4>4. CASE ~(restarted /\ nodes[n].agent = a /\ nodes[n].state \notin {"stopped", "failed"})
        <5>1. nodes'[n] = nodes[n]
          BY <2>4, <4>4
        <5> QED
          BY <4>1, <4>4, <5>1 DEF Live
      <4> QED
        BY <4>3, <4>4
    <3>2. DOMAIN nodes' = Nodes /\ nodes' = [n \in Nodes |-> nodes'[n]]
      BY <2>4
    <3> QED
      BY <3>1, <3>2
  <2>12. \A n \in Nodes : nodes'[n].state = "none" <=> nodes[n].state = "none"
    BY <1>1, <2>11, NoAgentAssumption DEF PlaceInv
  <2>13. /\ call' \in [Agents -> CallType]
         /\ \A b \in Agents : /\ call'[b].kind = call[b].kind
                              /\ call'[b].batch = call[b].batch
                              /\ call'[b].nodes = call[b].nodes
         /\ \A b \in Agents : call'[b].phase # call[b].phase =>
              b = a /\ call[b].kind = "register" /\ instance[b] = m.instance
    BY <1>2, <1>4, <2>4, Answered
  <2>14. restarted => m.instance > agents[a].instance
    BY <1>3, <1>6, <2>5
  <2>15. Known(a) /\ ~restarted => m.instance = agents[a].instance
    BY <1>3 DEF Known
  <2>16. TypeOK'
    BY <1>1, <1>4, <2>4, <2>8, <2>9, <2>10, <2>11, <2>13 DEF TypeOK, AgentType, NodeType, CallType
  <2>17. PlaceInv'
    <3>1. \A b \in Agents : Known(b) => agents'[b].known
      BY <2>8 DEF Known
    <3>2. ASSUME NEW n \in Nodes, nodes'[n].state # "none"
          PROVE  /\ nodes'[n].agent \in Agents
                 /\ PlacedOn(n, nodes[n].agent)
                 /\ agents'[nodes'[n].agent].known
      BY <1>1, <2>11, <2>12, <3>1, <3>2 DEF PlaceInv
    <3>3. ASSUME NEW n \in Nodes, reservations'[n] # NoAgent
          PROVE  /\ creates[n].agent = reservations'[n]
                 /\ creates[n].pc \in {"posted", "created", "full", "done"}
                 /\ agents'[reservations'[n]].known
      <4>1. reservations'[n] = reservations[n] /\ reservations[n] \in Agents
        BY <1>1, <2>10, <3>3 DEF TypeOK
      <4> QED
        BY <1>1, <3>1, <3>3, <4>1 DEF PlaceInv
    <3>4. \A n \in deletes : nodes'[n].state # "none"
      BY <1>1, <2>12 DEF PlaceInv, TypeOK
    <3>5. \A n \in Nodes : nodes'[n].state = "none" => nodes'[n].agent = NoAgent
      BY <1>1, <2>11, <2>12 DEF PlaceInv
    <3> QED
      BY <1>1, <1>4, <2>11, <2>13, <3>2, <3>3, <3>4, <3>5 DEF PlaceInv, PlacedOn, Known
  <2>18. InstanceInv'
    <3>1. \A b \in Agents : agents'[b].instance <= instance[b]
      BY <1>1, <2>5, <2>8 DEF InstanceInv
    <3>2. ASSUME NEW n \in Nodes, Open(n)
          PROVE  /\ agents'[creates[n].agent].known
                 /\ creates[n].instance <= agents'[creates[n].agent].instance
      <4>1. /\ creates[n].agent \in Agents /\ Known(creates[n].agent)
            /\ creates[n].instance <= agents[creates[n].agent].instance
            /\ creates[n].instance \in Nat
        BY <1>1, <3>2 DEF PlaceInv, InstanceInv, TypeOK, Open
      <4> QED
        BY <2>5, <2>8, <2>14, <2>15, <4>1 DEF Known
    <3>3. ASSUME NEW n \in Nodes, nodes'[n].state \in Live,
                 agents'[nodes'[n].agent].instance = instance[nodes'[n].agent]
          PROVE  peers[nodes'[n].agent][n] # "none"
      <4>1. nodes'[n] = nodes[n] /\ nodes[n].state \in Live
        BY <2>11, <3>3 DEF Live
      <4>2. nodes[n].agent \in Agents /\ Known(nodes[n].agent)
        BY <1>1, <4>1 DEF PlaceInv, Live
      <4>3. agents'[nodes[n].agent].instance = agents[nodes[n].agent].instance
        BY <2>8, <2>11, <2>15, <3>3, <4>1, <4>2
      <4> QED
        BY <1>1, <3>3, <4>1, <4>3 DEF InstanceInv
    <3> QED
      BY <1>1, <1>4, <3>1, <3>2, <3>3 DEF InstanceInv, Open, Known
  <2>19. CaptureInv'
    BY <1>4, <2>4, AnsweredCapture
  <2>20. ReservationInv'
    <3>1. ASSUME NEW b \in Agents PROVE Cardinality(Charged(b)') <= agents'[b].active
      <4>1. /\ Charged(b) \in SUBSET Nodes /\ Charged(b)' \in SUBSET Nodes
            /\ Charged(b)' \subseteq Charged(b)
        BY <2>10, <2>11, NoAgentAssumption DEF Charged, Live
      <4>2. Cardinality(Charged(b)) <= agents[b].active /\ agents[b].active \in Nat
        BY <1>1 DEF ReservationInv, KnownPeersAreCharged, Charged, TypeOK
      <4>3. b = a /\ (restarted \/ ~Known(a)) => Charged(b)' = {}
        <5>1. CASE restarted
          BY <2>10, <2>11, <5>1 DEF Charged
        <5>2. CASE ~Known(a)
          <6>1. Charged(a) = {}
            BY <1>1, <5>2, NoAgentAssumption DEF Charged, PlaceInv, Live
          <6> QED
            BY <4>1, <6>1
        <5> QED
          BY <5>1, <5>2
      <4> HIDE DEF Charged
      <4>4. /\ IsFiniteSet(Charged(b)) /\ Cardinality(Charged(b)) \in Nat
            /\ Cardinality(Charged(b)') \in Nat
        BY <4>1, NodeSets
      <4>5. Cardinality(Charged(b)') <= Cardinality(Charged(b))
        BY <4>1, <4>4, FS_Subset
      <4>6. CASE b # a
        BY <2>8, <4>2, <4>4, <4>5, <4>6
      <4>7. CASE b = a /\ Known(a) /\ ~restarted
        BY <2>6, <2>8, <4>2, <4>4, <4>5, <4>7 DEF Known
      <4>8. CASE b = a /\ (restarted \/ ~Known(a))
        BY <2>6, <2>8, <4>3, <4>8, FS_EmptySet
      <4> QED
        BY <4>6, <4>7, <4>8
    <3>2. KnownPeersAreCharged'
      BY <3>1 DEF KnownPeersAreCharged, Charged
    <3>3. ASSUME NEW b \in Agents, NEW n \in Nodes, reservations'[n] = b
          PROVE  \/ creates[n].pc \in {"posted", "created", "full"}
                 \/ agents'[b].instance # instance[b]
                 \/ peers[b][n] # "none" /\ n \notin acknowledged[b]
      <4>1. reservations[n] = b /\ (b = a => ~restarted)
        BY <2>10, <3>3, NoAgentAssumption
      <4>2. Known(b)
        BY <1>1, <4>1, NoAgentAssumption DEF PlaceInv
      <4>3. agents'[b].instance = agents[b].instance
        BY <2>8, <2>15, <4>1, <4>2
      <4> QED
        BY <1>1, <4>1, <4>3 DEF ReservationInv, ReservationsAreReleasable
    <3>4. ReservationsAreReleasable'
      BY <1>4, <3>3 DEF ReservationsAreReleasable
    <3>5. ASSUME NEW n \in Nodes, Open(n), nodes'[n].state # "none"
          PROVE  reservations'[n] = NoAgent
      BY <1>1, <2>10, <2>12, <3>5 DEF ReservationInv
    <3>6. ASSUME NEW n \in Nodes, Open(n), nodes'[n].state = "none",
                 agents'[creates[n].agent].instance = creates[n].instance
          PROVE  reservations'[n] = creates[n].agent
      <4>1. /\ creates[n].agent \in Agents /\ Known(creates[n].agent)
            /\ creates[n].instance <= agents[creates[n].agent].instance
            /\ creates[n].instance \in Nat
        BY <1>1, <3>6 DEF PlaceInv, InstanceInv, TypeOK, Open
      <4>2. creates[n].agent = a => ~restarted
        BY <2>5, <2>8, <2>14, <3>6, <4>1
      <4>3. agents'[creates[n].agent].instance = agents[creates[n].agent].instance
        BY <2>8, <2>15, <4>1, <4>2
      <4>4. reservations[n] = creates[n].agent
        BY <1>1, <2>12, <3>6, <4>3 DEF ReservationInv
      <4> QED
        BY <2>10, <4>2, <4>4
    <3> QED
      BY <1>4, <3>2, <3>4, <3>5, <3>6 DEF ReservationInv, Open
  <2>21. AckInv'
    <3>1. ASSUME Accepted(a)
          PROVE  Known(a) /\ ~restarted /\ agents'[a].instance = instance[a]
      <4>1. Known(a)
        BY <1>1, <1>2, <1>4, <3>1 DEF AckInv
      <4>2. agents[a].instance = instance[a]
        BY <1>1, <3>1, <4>1 DEF AckInv
      <4> QED
        BY <2>5, <2>8, <2>14, <2>15, <4>1, <4>2
    <3>2. \A b \in Agents : Accepted(b)' => Accepted(b) \/ (b = a /\ instance[a] = m.instance)
      BY <1>4, <2>13 DEF Accepted
    <3>3. ASSUME NEW b \in Agents, Accepted(b)', agents'[b].known
          PROVE  agents'[b].instance = instance[b]
      BY <1>1, <2>8, <3>1, <3>2, <3>3 DEF AckInv, Known
    <3>4. ASSUME NEW b \in Agents, Accepted(b)', ~agents'[b].known, NEW k \in reports', k.agent = b
          PROVE  k.kind # "register"
      BY <1>1, <1>4, <2>8, <3>2, <3>4 DEF AckInv, Known
    <3>5. \A b \in Agents : registered[b] /\ agents'[b].known => Known(b)
      BY <2>8, <3>1 DEF Accepted, Known
    <3>6. \A b \in Agents : acknowledged[b] \subseteq Nodes /\ Exits(b) \subseteq Nodes
      BY <1>1 DEF TypeOK, Exits
    <3>7. \A b \in Agents : Exits(b)' = Exits(b)
      BY <2>13 DEF Exits
    <3>8. \A n \in Nodes : /\ reservations[n] = NoAgent => reservations'[n] = NoAgent
                           /\ nodes[n].state = "stopped" => nodes'[n].state = "stopped"
      BY <2>10, <2>11
    <3>9. \A b \in Agents : call'[b].kind = "partial" =>
            registered[b] /\ call'[b].phase = call[b].phase
      BY <1>1, <2>13 DEF AckInv
    <3>10. ASSUME NEW b \in Agents, NEW n \in acknowledged[b]
           PROVE  /\ reservations'[n] = NoAgent
                  /\ registered[b] /\ agents'[b].known => nodes'[n].state = "stopped"
      BY <1>1, <3>5, <3>6, <3>8 DEF AckInv
    <3>11. ASSUME NEW b \in Agents, call'[b].kind = "partial", call'[b].phase = "ok", NEW n \in Exits(b)
           PROVE  /\ reservations'[n] = NoAgent
                  /\ agents'[b].known => nodes'[n].state = "stopped"
      BY <1>1, <2>13, <3>5, <3>6, <3>8, <3>9, <3>11 DEF AckInv
    <3> QED
      BY <1>4, <3>3, <3>4, <3>7, <3>9, <3>10, <3>11 DEF AckInv, Known
  <2> QED
    BY <2>16, <2>17, <2>18, <2>19, <2>20, <2>21 DEF IInv
<1> QED
  BY <1>5, <1>6

(* What a report may do to the record of a node.                           *)
LEMMA MergeKeepsExits ==
  /\ \A old \in Reported \cup {"none"}, s \in Reported : Merge(old, s) \in Reported
  /\ \A s : Merge("stopped", s) = "stopped"
  /\ \A old : Merge(old, "stopped") = "stopped"
  BY DEF Merge, Reported, Live

(* A heartbeat or a status answer is handled.                              *)
LEMMA applyHeartbeatPreserves ==
  ASSUME IInv, NEW m \in reports, applyHeartbeat(m)
  PROVE  IInv'
<1>1. TypeOK /\ PlaceInv /\ InstanceInv /\ CaptureInv /\ ReservationInv /\ AckInv
  BY DEF IInv
<1>2. PICK a \in Agents : a = m.agent
  BY <1>1 DEF TypeOK
<1>3. /\ m.kind \in {"partial", "full"} /\ reports' \subseteq reports
      /\ UNCHANGED <<instance, peers, captured, acknowledged, registered, creates, deletes,
                     restarts>>
  BY DEF applyHeartbeat
<1>4. CASE Foreign(m)
  <2>1. UNCHANGED controllerVars /\ Answer(m, "conflict")
    BY <1>4 DEF applyHeartbeat
  <2> QED
    BY <1>3, <2>1, ReportRefused
<1>5. CASE ~Foreign(m) /\ m.kind = "full" /\ m.ts <= agentSnapshots[a]
  <2>1. UNCHANGED controllerVars /\ Answer(m, "ok")
    BY <1>2, <1>5 DEF applyHeartbeat
  <2> QED
    BY <1>3, <1>5, <2>1, ReportRefused
<1>6. CASE ~Foreign(m) /\ ~(m.kind = "full" /\ m.ts <= agentSnapshots[a])
  <2>1. PICK S : S = Applied(m)
    OBVIOUS
  <2>2. PICK merged : merged = [n \in Nodes |->
          IF n \in S THEN [agent |-> a, state |-> Merge(nodes[n].state, m.nodes[n])]
          ELSE nodes[n]]
    OBVIOUS
  <2>3. PICK kept : kept = [n \in Nodes |-> IF n \in S THEN NoAgent ELSE reservations[n]]
    OBVIOUS
  <2>4. PICK R : R = {n \in Nodes : reservations[n] = a /\ kept[n] # a}
    OBVIOUS
  <2>5. PICK rec : rec =
          IF m.ts < agentSnapshots[a]
          THEN [agents[a] EXCEPT !.active =
                  IF agents[a].active > Cardinality(R) THEN agents[a].active - Cardinality(R)
                  ELSE 0]
          ELSE [agents[a] EXCEPT !.active = ActiveAfter(m, merged, kept), !.online = TRUE]
    OBVIOUS
  <2>6. /\ nodes' = [n \in Nodes |->
             IF /\ m.kind = "full" /\ n \notin DOMAIN m.nodes
                /\ nodes[n].agent = a /\ kept[n] # a
             THEN [merged[n] EXCEPT !.state = "stopped"] ELSE merged[n]]
        /\ reservations' = kept
        /\ agents' = [agents EXCEPT ![a] = rec]
        /\ agentSnapshots' = [agentSnapshots EXCEPT ![a] = Larger(m.ts, @)]
        /\ Answer(m, "ok")
    <3>1. ~(m.kind = "full" /\ m.ts <= agentSnapshots[m.agent])
      BY <1>2, <1>6
    <3>2. kept = Kept(m)
      BY <2>1, <2>3 DEF Kept
    <3>3. merged = [n \in Nodes |-> IF n \in Applied(m)
                      THEN [agent |-> m.agent, state |-> Merge(nodes[n].state, m.nodes[n])]
                      ELSE nodes[n]]
      BY <1>2, <2>1, <2>2
    <3>4. nodes' = [n \in Nodes |->
             IF /\ m.kind = "full" /\ n \notin DOMAIN m.nodes
                /\ nodes[n].agent = a /\ kept[n] # a
             THEN [merged[n] EXCEPT !.state = "stopped"] ELSE merged[n]]
      BY <1>2, <1>6, <3>1, <3>2, <3>3 DEF applyHeartbeat
    <3>5. reservations' = kept /\ Answer(m, "ok")
      BY <1>6, <3>1, <3>2 DEF applyHeartbeat
    <3>6. agentSnapshots' = [agentSnapshots EXCEPT ![a] = Larger(m.ts, @)]
      BY <1>2, <1>6, <3>1 DEF applyHeartbeat
    <3>7. R = {n \in Nodes : reservations[n] = m.agent /\ Kept(m)[n] # m.agent}
      BY <1>2, <2>4, <3>2
    <3>8. agents' = [agents EXCEPT ![a] = rec]
      <4> DEFINE slots == Cardinality({n \in Nodes : reservations[n] = m.agent
                                                     /\ Kept(m)[n] # m.agent})
                 after == ActiveAfter(m, [n \in Nodes |-> IF n \in Applied(m)
                            THEN [agent |-> m.agent, state |-> Merge(nodes[n].state, m.nodes[n])]
                            ELSE nodes[n]], Kept(m))
      <4>1. agents' = [agents EXCEPT ![m.agent] =
              IF m.ts < agentSnapshots[m.agent]
              THEN [agents[m.agent] EXCEPT !.active =
                      IF agents[m.agent].active > slots THEN agents[m.agent].active - slots ELSE 0]
              ELSE [agents[m.agent] EXCEPT !.active = after, !.online = TRUE]]
        BY <1>6, <3>1 DEF applyHeartbeat
      <4>2. slots = Cardinality(R) /\ after = ActiveAfter(m, merged, kept)
        BY <3>2, <3>3, <3>7
      <4> HIDE DEF slots, after
      <4>3. rec = IF m.ts < agentSnapshots[m.agent]
              THEN [agents[m.agent] EXCEPT !.active =
                      IF agents[m.agent].active > slots THEN agents[m.agent].active - slots ELSE 0]
              ELSE [agents[m.agent] EXCEPT !.active = after, !.online = TRUE]
        BY <1>2, <2>5, <4>2
      <4>4. agents' = [agents EXCEPT ![m.agent] = rec]
        BY <4>1, <4>3
      <4> QED
        BY <1>2, <4>4
    <3> QED
      BY <3>4, <3>5, <3>6, <3>8
  <2>7. /\ Known(a) /\ m.instance = agents[a].instance
        /\ \A n \in DOMAIN m.nodes : /\ nodes[n].agent \in {NoAgent, a}
                                     /\ reservations[n] \in {NoAgent, a}
    BY <1>2, <1>6 DEF Foreign, Known
  <2>8. /\ m.nodes \in NodeMaps /\ m.instance \in Nat /\ m.ts \in Nat /\ m.occupied \in Nat
        /\ agents \in [Agents -> AgentType] /\ agents[a].active \in Nat
        /\ agentSnapshots[a] \in Nat
    BY <1>1, <1>2 DEF TypeOK, AgentType
  <2>9. /\ S \subseteq DOMAIN m.nodes /\ S \subseteq Nodes /\ DOMAIN m.nodes \subseteq Nodes
        /\ \A n \in DOMAIN m.nodes : m.nodes[n] \in Reported
        /\ \A n \in DOMAIN m.nodes : m.nodes[n] = "stopped" => n \in S
        /\ m.ts < agentSnapshots[a] => \A n \in S : m.nodes[n] = "stopped"
        /\ ~(m.ts < agentSnapshots[a]) => S = DOMAIN m.nodes
    BY <1>2, <2>1, <2>8, MapType DEF Applied
  <2>10. /\ kept \in [Nodes -> Agents \cup {NoAgent}]
         /\ \A n \in Nodes : reservations'[n] = IF n \in S THEN NoAgent ELSE reservations[n]
    BY <1>1, <2>3, <2>6 DEF TypeOK
  <2>11. /\ nodes' \in [Nodes -> NodeType]
         /\ \A n \in S : nodes'[n].agent = a /\ nodes'[n].state = Merge(nodes[n].state, m.nodes[n])
         /\ \A n \in S : nodes'[n].state \in Reported
         /\ \A n \in Nodes \ S : nodes'[n] # nodes[n] =>
              /\ nodes[n].agent = a /\ nodes'[n].agent = a /\ nodes'[n].state = "stopped"
         /\ \A n \in Nodes \ S :
              nodes[n].agent = a /\ m.kind = "full" /\ n \notin DOMAIN m.nodes
              /\ reservations'[n] # a => nodes'[n].state = "stopped"
    <3>1. ASSUME NEW n \in Nodes, n \in S
          PROVE  /\ nodes'[n] \in NodeType
                 /\ nodes'[n].agent = a
                 /\ nodes'[n].state = Merge(nodes[n].state, m.nodes[n])
                 /\ nodes'[n].state \in Reported
      <4>1. nodes'[n] = [agent |-> a, state |-> Merge(nodes[n].state, m.nodes[n])]
        BY <2>2, <2>6, <2>9, <3>1
      <4>2. nodes[n].state \in Reported \cup {"none"} /\ m.nodes[n] \in Reported
        BY <1>1, <2>9, <3>1 DEF TypeOK
      <4>3. Merge(nodes[n].state, m.nodes[n]) \in Reported
        BY <4>2, MergeKeepsExits
      <4> QED
        BY <4>1, <4>3 DEF NodeType
    <3>2. ASSUME NEW n \in Nodes, n \notin S
          PROVE  /\ nodes'[n] \in NodeType
                 /\ nodes'[n] # nodes[n] =>
                      /\ nodes[n].agent = a /\ nodes'[n].agent = a /\ nodes'[n].state = "stopped"
                 /\ nodes[n].agent = a /\ m.kind = "full" /\ n \notin DOMAIN m.nodes
                    /\ reservations'[n] # a => nodes'[n].state = "stopped"
      <4>1. nodes[n] \in NodeType
        BY <1>1 DEF TypeOK, NodeType
      <4>2. /\ [nodes[n] EXCEPT !.state = "stopped"] \in NodeType
            /\ [nodes[n] EXCEPT !.state = "stopped"].state = "stopped"
            /\ [nodes[n] EXCEPT !.state = "stopped"].agent = nodes[n].agent
        BY <4>1 DEF NodeType, Reported
      <4>3. /\ merged[n] = nodes[n] /\ reservations'[n] = kept[n]
            /\ nodes'[n] = IF /\ m.kind = "full" /\ n \notin DOMAIN m.nodes
                              /\ nodes[n].agent = a /\ kept[n] # a
                           THEN [nodes[n] EXCEPT !.state = "stopped"] ELSE nodes[n]
        BY <2>2, <2>6, <3>2
      <4> QED
        BY <4>1, <4>2, <4>3
    <3>3. DOMAIN nodes' = Nodes /\ nodes' = [n \in Nodes |-> nodes'[n]]
      BY <2>6
    <3> QED
      BY <2>9, <3>1, <3>2, <3>3
  <2>12. \A n \in Nodes : nodes[n].state = "stopped" => nodes'[n].state = "stopped"
    BY <2>11, MergeKeepsExits
  <2>13. \A n \in S : m.nodes[n] = "stopped" => nodes'[n].state = "stopped"
    BY <2>11, MergeKeepsExits
  <2>14. PICK observed \in SUBSET Nodes, open \in SUBSET Nodes :
           /\ observed = {n \in Nodes : /\ merged[n].agent = a /\ merged[n].state \in Live
                                        /\ IF m.kind = "partial" THEN kept[n] # a
                                           ELSE n \in S}
           /\ open = {n \in Nodes : kept[n] = a}
    OBVIOUS
  <2>15. /\ Cardinality(observed) \in Nat /\ Cardinality(open) \in Nat
         /\ ActiveAfter(m, merged, kept) =
              Larger(m.occupied, Cardinality(observed)) + Cardinality(open)
    BY <1>2, <2>1, <2>14, NodeSets DEF ActiveAfter
  <2>16. /\ ActiveAfter(m, merged, kept) \in Nat
         /\ ActiveAfter(m, merged, kept) >= Cardinality(observed) + Cardinality(open)
    BY <2>8, <2>15 DEF Larger
  <2>17. R \in SUBSET Nodes /\ Cardinality(R) \in Nat
    BY <2>4, NodeSets
  <2>18. /\ rec \in AgentType /\ rec.known = agents[a].known
         /\ rec.instance = agents[a].instance
         /\ m.ts < agentSnapshots[a] => rec.active =
              IF agents[a].active > Cardinality(R) THEN agents[a].active - Cardinality(R) ELSE 0
         /\ ~(m.ts < agentSnapshots[a]) => rec.active = ActiveAfter(m, merged, kept)
    <3>1. PICK less \in Nat : less =
            IF agents[a].active > Cardinality(R) THEN agents[a].active - Cardinality(R) ELSE 0
      BY <2>8, <2>17
    <3>2. PICK more \in Nat : more = ActiveAfter(m, merged, kept)
      BY <2>16
    <3>3. rec = IF m.ts < agentSnapshots[a] THEN [agents[a] EXCEPT !.active = less]
                ELSE [agents[a] EXCEPT !.active = more, !.online = TRUE]
      BY <2>5, <3>1, <3>2
    <3>4. agents[a] \in AgentType
      BY <2>8
    <3>5. /\ [agents[a] EXCEPT !.active = less] \in AgentType
          /\ [agents[a] EXCEPT !.active = more, !.online = TRUE] \in AgentType
      BY <3>4, AgentRecord
    <3>6. CASE m.ts < agentSnapshots[a]
      BY <3>1, <3>3, <3>4, <3>5, <3>6 DEF AgentType
    <3>7. CASE ~(m.ts < agentSnapshots[a])
      BY <3>2, <3>3, <3>4, <3>5, <3>7 DEF AgentType
    <3> QED
      BY <3>6, <3>7
  <2>19. /\ agents' \in [Agents -> AgentType]
         /\ agents'[a].active = rec.active
         /\ \A b \in Agents : /\ agents'[b].known = agents[b].known
                              /\ agents'[b].instance = agents[b].instance
                              /\ b # a => agents'[b].active = agents[b].active
    BY <2>6, <2>8, <2>18
  <2>20. /\ call' \in [Agents -> CallType]
         /\ \A b \in Agents : /\ call'[b].kind = call[b].kind
                              /\ call'[b].batch = call[b].batch
                              /\ call'[b].nodes = call[b].nodes
         /\ \A b \in Agents : call'[b].phase # call[b].phase =>
              /\ b = a /\ call[b].kind = m.kind /\ call[b].ts = m.ts
              /\ call[b].batch = DOMAIN m.nodes
    BY <1>2, <2>6, Answered
  <2>21. TypeOK'
    <3>1. agentSnapshots' \in [Agents -> Nat]
      BY <1>1, <2>6, <2>8 DEF TypeOK, Larger
    <3> QED
      BY <1>1, <1>3, <2>6, <2>10, <2>11, <2>19, <2>20, <3>1
         DEF TypeOK, AgentType, NodeType, CallType
  <2>22. \A n \in S : PlacedOn(n, a)
    BY <1>1, <1>2, <2>9 DEF PlaceInv
  <2>23. PlaceInv'
    <3>1. ASSUME NEW n \in Nodes, nodes'[n].state # "none", NEW b, b = nodes'[n].agent
          PROVE  b \in Agents /\ PlacedOn(n, b) /\ agents'[b].known
      <4>1. CASE n \in S
        BY <2>7, <2>11, <2>19, <2>22, <3>1, <4>1 DEF Known
      <4>2. CASE n \notin S /\ nodes'[n] = nodes[n]
        BY <1>1, <2>19, <3>1, <4>2 DEF PlaceInv, Known
      <4>3. CASE n \notin S /\ nodes'[n] # nodes[n]
        <5>1. nodes[n].agent = a /\ b = a
          BY <2>11, <3>1, <4>3
        <5>2. nodes[n].state # "none"
          BY <1>1, <5>1, NoAgentAssumption DEF PlaceInv
        <5> QED
          BY <1>1, <2>7, <2>19, <5>1, <5>2 DEF PlaceInv, Known
      <4> QED
        BY <4>1, <4>2, <4>3
    <3>2. ASSUME NEW n \in Nodes, nodes'[n].state = "none"
          PROVE  nodes'[n].agent = NoAgent
      <4>1. nodes'[n] = nodes[n]
        BY <2>11, <3>2 DEF Reported, Live
      <4> QED
        BY <1>1, <3>2, <4>1 DEF PlaceInv
    <3>3. ASSUME NEW n \in Nodes, reservations'[n] # NoAgent
          PROVE  /\ creates[n].agent = reservations'[n]
                 /\ creates[n].pc \in {"posted", "created", "full", "done"}
                 /\ agents'[reservations'[n]].known
      <4>1. reservations'[n] = reservations[n] /\ reservations[n] \in Agents
        BY <1>1, <2>10, <3>3 DEF TypeOK
      <4> QED
        BY <1>1, <2>19, <3>3, <4>1 DEF PlaceInv, Known
    <3>4. \A n \in deletes : nodes'[n].state # "none"
      <4>1. \A n \in Nodes : nodes'[n].state = "none" => nodes[n].state = "none"
        BY <2>11 DEF Reported, Live
      <4> QED
        BY <1>1, <4>1 DEF PlaceInv, TypeOK
    <3> QED
      BY <1>1, <1>3, <2>20, <3>1, <3>2, <3>3, <3>4 DEF PlaceInv, PlacedOn, Known
  <2>24. InstanceInv'
    <3>1. ASSUME NEW n \in Nodes, nodes'[n].state \in Live,
                 agents'[nodes'[n].agent].instance = instance[nodes'[n].agent]
          PROVE  peers[nodes'[n].agent][n] # "none"
      <4>1. CASE n \in S
        <5>1. nodes'[n].agent = a /\ m.instance = instance[m.agent]
          BY <1>2, <2>7, <2>11, <2>19, <3>1, <4>1
        <5> QED
          BY <1>1, <1>2, <2>9, <4>1, <5>1 DEF InstanceInv
      <4>2. CASE n \notin S
        <5>1. nodes'[n] = nodes[n]
          BY <2>11, <3>1, <4>2 DEF Live
        <5>2. nodes[n].agent \in Agents
          BY <1>1, <3>1, <5>1 DEF PlaceInv, Live
        <5> QED
          BY <1>1, <2>19, <3>1, <5>1, <5>2 DEF InstanceInv
      <4> QED
        BY <4>1, <4>2
    <3>2. ASSUME NEW n \in Nodes, Open(n)
          PROVE  /\ agents'[creates[n].agent].known
                 /\ creates[n].instance <= agents'[creates[n].agent].instance
      BY <1>1, <2>19, <3>2 DEF PlaceInv, InstanceInv, Open, Known
    <3> QED
      BY <1>1, <1>3, <2>19, <3>1, <3>2 DEF InstanceInv, Open, Known
  <2>25. CaptureInv'
    BY <1>3, <2>6, AnsweredCapture
  <2>26. ReservationInv'
    <3>1. ASSUME NEW b \in Agents
          PROVE  /\ Charged(b) \in SUBSET Nodes /\ Charged(b)' \in SUBSET Nodes
                 /\ Cardinality(Charged(b)) <= agents[b].active
                 /\ agents[b].active \in Nat
      BY <1>1 DEF ReservationInv, KnownPeersAreCharged, Charged, TypeOK
    <3>2. ASSUME NEW b \in Agents, b # a
          PROVE  Cardinality(Charged(b)') <= agents'[b].active
      <4>1. Charged(b)' \subseteq Charged(b)
        BY <2>10, <2>11, <3>2, NoAgentAssumption DEF Charged
      <4> HIDE DEF Charged
      <4>2. /\ IsFiniteSet(Charged(b)) /\ Cardinality(Charged(b)) \in Nat
            /\ Cardinality(Charged(b)') \in Nat
        BY <3>1, NodeSets
      <4>3. Cardinality(Charged(b)') <= Cardinality(Charged(b))
        BY <4>1, <4>2, FS_Subset
      <4> QED
        BY <2>19, <3>1, <3>2, <4>2, <4>3
    <3>3. Cardinality(Charged(a)') <= agents'[a].active
      <4>1. CASE m.ts < agentSnapshots[a]
        <5>1. m.kind = "partial"
          BY <1>3, <1>6, <2>8, <4>1
        <5>2. \A n \in S : nodes'[n].state \notin Live
          BY <2>9, <2>13, <4>1 DEF Live
        <5>3. \A n \in Nodes \ S : nodes'[n].state \in Live => nodes'[n] = nodes[n]
          BY <2>11 DEF Live
        <5>4. R \in SUBSET Charged(a)
          BY <2>4 DEF Charged
        <5>5. Charged(a)' \subseteq Charged(a) \ R
          <6>1. \A n \in R : n \in S
            BY <2>3, <2>4
          <6> QED
            BY <2>10, <5>2, <5>3, <6>1, NoAgentAssumption DEF Charged
        <5>6. Charged(a) \in SUBSET Nodes /\ Charged(a)' \in SUBSET Nodes
          BY <3>1
        <5>7. Cardinality(Charged(a)) <= agents[a].active
          BY <3>1
        <5> HIDE DEF Charged
        <5>8. Cardinality(Charged(a)') + Cardinality(R) <= Cardinality(Charged(a))
          BY <5>4, <5>5, <5>6, FewerNodes
        <5>9. Cardinality(Charged(a)) \in Nat /\ Cardinality(Charged(a)') \in Nat
          BY <5>6, NodeSets
        <5>10. agents'[a].active =
                 IF agents[a].active > Cardinality(R) THEN agents[a].active - Cardinality(R) ELSE 0
          BY <2>18, <2>19, <4>1
        <5> QED
          BY <2>8, <2>17, <5>7, <5>8, <5>9, <5>10
      <4>2. CASE ~(m.ts < agentSnapshots[a])
        <5>1. S = DOMAIN m.nodes
          BY <2>9, <4>2
        <5>2. Charged(a)' \subseteq observed \cup open
          <6>1. ASSUME NEW n \in Nodes, nodes'[n].agent = a, nodes'[n].state \in Live, kept[n] # a
                PROVE  n \in observed
            <7>1. nodes'[n] = merged[n]
              <8>1. CASE n \in S
                BY <2>6, <5>1, <8>1
              <8>2. CASE n \notin S
                <9>1. nodes'[n] = nodes[n]
                  BY <2>11, <6>1, <8>2 DEF Live
                <9> QED
                  BY <2>2, <8>2, <9>1
              <8> QED
                BY <8>1, <8>2
            <7>2. m.kind = "full" => n \in S
              <8>1. CASE n \notin S
                <9>1. nodes'[n] = nodes[n] /\ reservations'[n] # a
                  BY <2>6, <2>11, <6>1, <8>1 DEF Live
                <9> QED
                  BY <2>11, <5>1, <6>1, <8>1, <9>1 DEF Live
              <8> QED
                BY <8>1
            <7> QED
              BY <1>3, <2>14, <6>1, <7>1, <7>2
          <6>2. \A n \in Nodes : reservations'[n] = a => n \in open
            BY <2>6, <2>14
          <6>3. \A n \in Nodes : kept[n] = a => n \in open
            BY <2>14
          <6> QED
            BY <6>1, <6>2, <6>3 DEF Charged
        <5>3. Charged(a)' \in SUBSET (observed \cup open) /\ Charged(a)' \in SUBSET Nodes
          BY <3>1, <5>2
        <5> HIDE DEF Charged
        <5>4. Cardinality(Charged(a)') <= Cardinality(observed) + Cardinality(open)
          BY <5>3, NodesOfBoth
        <5>5. Cardinality(Charged(a)') \in Nat
          BY <5>3, NodeSets
        <5>6. agents'[a].active = ActiveAfter(m, merged, kept)
          BY <2>18, <2>19, <4>2
        <5> QED
          BY <2>15, <2>16, <5>4, <5>5, <5>6
      <4> QED
        BY <4>1, <4>2
    <3>4. KnownPeersAreCharged'
      BY <3>2, <3>3 DEF KnownPeersAreCharged, Charged
    <3>5. ASSUME NEW b \in Agents, NEW n \in Nodes, reservations'[n] = b
          PROVE  \/ creates[n].pc \in {"posted", "created", "full"}
                 \/ agents'[b].instance # instance[b]
                 \/ peers[b][n] # "none" /\ n \notin acknowledged[b]
      <4>1. reservations[n] = b
        BY <2>10, <3>5, NoAgentAssumption
      <4> QED
        BY <1>1, <2>19, <4>1 DEF ReservationInv, ReservationsAreReleasable
    <3>6. ReservationsAreReleasable'
      BY <1>3, <3>5 DEF ReservationsAreReleasable
    <3>7. ASSUME NEW n \in Nodes, Open(n), nodes'[n].state # "none"
          PROVE  reservations'[n] = NoAgent
      <4>1. CASE n \in S
        BY <2>10, <4>1
      <4>2. CASE n \notin S
        <5>1. nodes[n].state # "none"
          BY <1>1, <2>11, <3>7, <4>2, NoAgentAssumption DEF PlaceInv
        <5> QED
          BY <1>1, <2>10, <3>7, <4>2, <5>1 DEF ReservationInv
      <4> QED
        BY <4>1, <4>2
    <3>8. ASSUME NEW n \in Nodes, Open(n), nodes'[n].state = "none",
                 agents'[creates[n].agent].instance = creates[n].instance
          PROVE  reservations'[n] = creates[n].agent
      <4>1. n \notin S /\ nodes[n] = nodes'[n]
        BY <2>11, <3>8 DEF Reported, Live
      <4>2. creates[n].agent \in Agents
        BY <1>1, <3>8 DEF PlaceInv, Open
      <4> QED
        BY <1>1, <2>10, <2>19, <3>8, <4>1, <4>2 DEF ReservationInv
    <3> QED
      BY <1>3, <3>4, <3>6, <3>7, <3>8 DEF ReservationInv, Open
  <2>27. AckInv'
    <3>1. \A b \in Agents : Accepted(b)' <=> Accepted(b)
      BY <1>3, <2>20 DEF Accepted
    <3>2. \A b \in Agents : Exits(b)' = Exits(b) /\ Exits(b) \subseteq Nodes
      BY <1>1, <2>20 DEF Exits, TypeOK
    <3>3. \A b \in Agents : acknowledged[b] \subseteq Nodes
      BY <1>1 DEF TypeOK
    <3>4. \A n \in Nodes : reservations[n] = NoAgent => reservations'[n] = NoAgent
      BY <2>10
    <3>5. ASSUME NEW b \in Agents, call'[b].kind = "partial", call'[b].phase = "ok", NEW n \in Exits(b)
          PROVE  /\ reservations'[n] = NoAgent
                 /\ agents'[b].known => nodes'[n].state = "stopped"
      <4>1. CASE call[b].phase = "ok"
        BY <1>1, <2>12, <2>19, <2>20, <3>2, <3>4, <3>5, <4>1 DEF AckInv, Known
      <4>2. CASE call[b].phase # "ok"
        <5>1. b = m.agent /\ m.kind = "partial" /\ m.ts = call[m.agent].ts
              /\ call[m.agent].kind = "partial" /\ n \in DOMAIN m.nodes
              /\ call[m.agent].nodes[n] = "stopped"
          BY <1>2, <2>20, <3>5, <4>2 DEF Exits
        <5>2. m.nodes[n] = "stopped"
          BY <1>1, <5>1 DEF CaptureInv
        <5>3. n \in S
          BY <2>9, <5>1, <5>2
        <5> QED
          BY <2>9, <2>10, <2>13, <5>2, <5>3
      <4> QED
        BY <4>1, <4>2
    <3>6. ASSUME NEW b \in Agents, NEW n \in acknowledged[b]
          PROVE  /\ reservations'[n] = NoAgent
                 /\ registered[b] /\ agents'[b].known => nodes'[n].state = "stopped"
      BY <1>1, <2>12, <2>19, <3>3, <3>4 DEF AckInv, Known
    <3> QED
      BY <1>1, <1>3, <2>19, <2>20, <3>1, <3>2, <3>5, <3>6 DEF AckInv, Known
  <2> QED
    BY <2>21, <2>23, <2>24, <2>25, <2>26, <2>27 DEF IInv
<1> QED
  BY <1>4, <1>5, <1>6

-----------------------------------------------------------------------------
(* The invariant holds in every state, and what follows from it.           *)

(* Every step of the system keeps the invariant.                           *)
LEMMA NextPreserves ==
  ASSUME IInv, [Next]_vars
  PROVE  IInv'
<1>1. CASE UNCHANGED vars
  <2>1. UNCHANGED <<instance, peers, captured, acknowledged, registered, call, reports, agents,
                    agentSnapshots, nodes, reservations, creates, deletes, restarts>>
    BY <1>1 DEF vars, agentVars, controllerVars
  <2>2. TypeOK'
    BY <2>1 DEF IInv, TypeOK
  <2>3. PlaceInv'
    BY <2>1 DEF IInv, PlaceInv, PlacedOn, Known
  <2>4. InstanceInv'
    BY <2>1 DEF IInv, InstanceInv, Open, Known
  <2>5. CaptureInv'
    BY <2>1 DEF IInv, CaptureInv
  <2>6. ReservationInv'
    BY <2>1, AgentSide DEF controllerVars
  <2>7. AckInv'
    BY <2>1 DEF IInv, AckInv, Accepted, Exits, Known
  <2> QED
    BY <2>2, <2>3, <2>4, <2>5, <2>6, <2>7 DEF IInv
<1>2. ASSUME NEW a \in Agents, AgentStep(a)
      PROVE  IInv'
  BY <1>2, peerChangesPreserves, agentRestartsPreserves, registerPreserves, heartbeatPreserves,
     registerAnsweredPreserves, batchAnsweredPreserves, heartbeatRefusedPreserves,
     callFailsPreserves, statusCapturedPreserves, leaseExpiresPreserves DEF AgentStep
<1>3. ASSUME NEW n \in Nodes, NodeStep(n)
      PROVE  IInv'
  BY <1>3, tryReserveAgentPreserves, createNodePreserves, createFullPreserves,
     createFailsPreserves, recordCreatedNodePreserves, stopNodePreserves,
     markNodeStoppingPreserves, deleteFailsPreserves DEF NodeStep
<1>4. ASSUME NEW m \in reports, registerAgent(m) \/ applyHeartbeat(m) \/ reportLost(m)
      PROVE  IInv'
  BY <1>4, registerAgentPreserves, applyHeartbeatPreserves, LostReport
<1> QED
  BY <1>1, <1>2, <1>3, <1>4, controllerRestartsPreserves DEF Next

(* In every state what the Controller has on record agrees with the Agents *)
(* as IInv says, whatever was lost, late or restarted.                     *)
THEOREM Inductive == Spec => []IInv
<1>1. IInv /\ [Next]_vars => IInv'
  BY NextPreserves
<1> QED
  BY <1>1, InitHolds, PTL DEF Spec

(* Every variable keeps its type.                                          *)
THEOREM TypeCorrect == Spec => []TypeOK
<1>1. IInv => TypeOK
  BY DEF IInv
<1> QED
  BY <1>1, Inductive, PTL

(* A node never has Peers on two Agents: a create is only placed again     *)
(* after an answer that says its Agent did not create it                   *)
(* (createReservedNode).                                                   *)
THEOREM OneAgent == Spec => []OneAgentPerNode
<1>1. IInv => OneAgentPerNode
  BY DEF IInv, PlaceInv, PlacedOn, OneAgentPerNode
<1> QED
  BY <1>1, Inductive, PTL

(* Every live node on record and every reservation is part of its Agent's  *)
(* ActiveNodes, and every reservation will end (state.heartbeat,           *)
(* registerAgent, releaseReservation).                                     *)
THEOREM CapacityAccounted == Spec => []CapacityIsAccounted
<1>1. IInv => CapacityIsAccounted
  BY DEF IInv, ReservationInv, CapacityIsAccounted
<1> QED
  BY <1>1, Inductive, PTL

(* The Controller lists no node as live that the registered instance of    *)
(* its Agent, while it runs, does not have (recordCreatedNode).            *)
THEOREM LiveRecords == Spec => []LiveRecordsHaveAPeer
<1>1. IInv => LiveRecordsHaveAPeer
  BY DEF IInv, PlaceInv, InstanceInv, Live, LiveRecordsHaveAPeer
<1> QED
  BY <1>1, Inductive, PTL

(* What an Agent has left out of its heartbeats since it was acknowledged  *)
(* is on record as stopped (snapshotWithHistory, sendHeartbeatBatches).    *)
THEOREM AcknowledgedExits == Spec => []AcknowledgedExitsAreKnown
<1>1. IInv => AcknowledgedExitsAreKnown
  BY DEF IInv, AckInv, AcknowledgedExitsAreKnown
<1> QED
  BY <1>1, Inductive, PTL

(* A registration that is accepted changes no stopped record, and a live   *)
(* one at most to failed.                                                  *)
LEMMA registerAgentStops ==
  ASSUME IInv, NEW m \in reports, registerAgent(m), NEW n \in Nodes
  PROVE  /\ nodes[n].state = "stopped" => nodes'[n].state = "stopped"
         /\ nodes[n].state \in {"stopping", "failed"} =>
              nodes'[n].state \in {"stopping", "failed", "stopped"}
<1>1. nodes[n] \in NodeType
  BY DEF IInv, TypeOK, NodeType
<1>2. [nodes[n] EXCEPT !.state = "failed"].state = "failed"
  BY <1>1 DEF NodeType
<1>3. \/ nodes' = nodes
      \/ nodes'[n] = IF /\ Restarted(m) /\ nodes[n].agent = m.agent
                        /\ nodes[n].state \notin {"stopped", "failed"}
                     THEN [nodes[n] EXCEPT !.state = "failed"] ELSE nodes[n]
  BY DEF registerAgent, controllerVars
<1> QED
  BY <1>2, <1>3

(* A report takes no record back from stopped, nor an ending one to live.  *)
LEMMA applyHeartbeatStops ==
  ASSUME IInv, NEW m \in reports, applyHeartbeat(m), NEW n \in Nodes
  PROVE  /\ nodes[n].state = "stopped" => nodes'[n].state = "stopped"
         /\ nodes[n].state \in {"stopping", "failed"} =>
              nodes'[n].state \in {"stopping", "failed", "stopped"}
<1>1. PICK merged : merged = [k \in Nodes |-> IF k \in Applied(m)
        THEN [agent |-> m.agent, state |-> Merge(nodes[k].state, m.nodes[k])] ELSE nodes[k]]
  OBVIOUS
<1>2. \/ nodes' = nodes
      \/ nodes'[n] = merged[n]
      \/ nodes'[n] = [merged[n] EXCEPT !.state = "stopped"]
  BY <1>1 DEF applyHeartbeat, controllerVars
<1>3. m.nodes \in NodeMaps /\ nodes[n] \in NodeType
  BY DEF IInv, TypeOK, NodeType
<1>4. \/ merged[n] = nodes[n]
      \/ /\ n \in DOMAIN m.nodes
         /\ merged[n] = [agent |-> m.agent, state |-> Merge(nodes[n].state, m.nodes[n])]
  BY <1>1 DEF Applied
<1>5. [merged[n] EXCEPT !.state = "stopped"].state = "stopped"
  BY <1>3, <1>4 DEF NodeType
<1>6. ASSUME NEW s \in Reported, NEW old \in Reported
      PROVE  /\ old = "stopped" => Merge(old, s) = "stopped"
             /\ old \in {"stopping", "failed"} => Merge(old, s) \in {"stopping", "failed", "stopped"}
  BY DEF Merge, Reported, Live
<1>7. \/ merged[n] = nodes[n]
      \/ merged[n].state = Merge(nodes[n].state, m.nodes[n]) /\ m.nodes[n] \in Reported
  BY <1>3, <1>4, MapType
<1>8. /\ nodes[n].state = "stopped" => merged[n].state = "stopped"
      /\ nodes[n].state \in {"stopping", "failed"} =>
           merged[n].state \in {"stopping", "failed", "stopped"}
  BY <1>6, <1>7 DEF Reported
<1> QED
  BY <1>2, <1>5, <1>8

(* As long as the Controller runs, a node on record as stopped stays so,   *)
(* and one that stops or failed never becomes live again, however late and *)
(* in whatever order reports and create answers come (state.heartbeat,     *)
(* recordCreatedNode, registerAgent).                                      *)
THEOREM StopsStay == Spec => StopIsNotUndone
<1>1. ASSUME IInv, [Next]_vars, restarts' = restarts, NEW n \in Nodes
      PROVE  /\ nodes[n].state = "stopped" => nodes'[n].state = "stopped"
             /\ nodes[n].state \in {"stopping", "failed"} =>
                  nodes'[n].state \in {"stopping", "failed", "stopped"}
  <2>1. nodes \in [Nodes -> NodeType] /\ restarts \in Nat
    BY <1>1 DEF IInv, TypeOK, NodeType
  <2>2. CASE UNCHANGED vars
    BY <2>2 DEF vars, controllerVars
  <2>3. ASSUME NEW a \in Agents, AgentStep(a) PROVE nodes' = nodes
    BY <2>3 DEF AgentStep, peerChanges, agentRestarts, register, heartbeat, registerAnswered,
                batchAnswered, heartbeatRefused, callFails, statusCaptured, leaseExpires,
                controllerVars
  <2>4. ASSUME NEW k \in Nodes, NodeStep(k)
        PROVE  \/ nodes' = nodes
               \/ nodes[k].state = "none" /\ \E x : nodes' = [nodes EXCEPT ![k] = x]
               \/ nodes[k].state \in Live /\ \E x : nodes' = [nodes EXCEPT ![k] = x]
    BY <2>4 DEF NodeStep, tryReserveAgent, createNode, createFull, createFails, recordCreatedNode,
                stopNode, markNodeStopping, deleteFails, controllerVars
  <2>5. ASSUME NEW k \in Nodes, NodeStep(k)
        PROVE  nodes[n].state \in {"stopping", "failed", "stopped"} => nodes'[n] = nodes[n]
    BY <2>1, <2>4, <2>5 DEF Live
  <2>6. ASSUME NEW m \in reports, registerAgent(m) \/ applyHeartbeat(m) \/ reportLost(m)
        PROVE  /\ nodes[n].state = "stopped" => nodes'[n].state = "stopped"
               /\ nodes[n].state \in {"stopping", "failed"} =>
                    nodes'[n].state \in {"stopping", "failed", "stopped"}
    <3>1. CASE reportLost(m)
      BY <3>1 DEF reportLost, controllerVars
    <3> QED
      BY <1>1, <2>6, <3>1, registerAgentStops, applyHeartbeatStops
  <2>7. ~controllerRestarts
    BY <1>1, <2>1 DEF controllerRestarts
  <2> QED
    BY <1>1, <2>2, <2>3, <2>5, <2>6, <2>7 DEF Next
<1>2. IInv /\ [Next]_vars =>
        [restarts' = restarts =>
           \A n \in Nodes :
             /\ nodes[n].state = "stopped" => nodes'[n].state = "stopped"
             /\ nodes[n].state \in {"stopping", "failed"} =>
                  nodes'[n].state \in {"stopping", "failed", "stopped"}]_vars
  BY <1>1
<1> QED
  BY <1>2, Inductive, PTL DEF Spec, StopIsNotUndone
=============================================================================
