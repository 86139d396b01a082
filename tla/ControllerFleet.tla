--------------------------- MODULE ControllerFleet ---------------------------
(***************************************************************************)
(* The Controller's view of its Agents (internal/controller/state.go and   *)
(* runner.go): registration, heartbeats, status refreshes, reservations of *)
(* capacity for Peers being created, create responses and stops.           *)
(*                                                                         *)
(* An Agent posts registrations and partial heartbeats, one at a time, and *)
(* answers status requests with full snapshots.  Every report carries the  *)
(* Agent's instance (StartedAt), the time it was captured and the occupied *)
(* slots then.  Reports may be lost, and may arrive late and out of order: *)
(* a POST the Agent has given up on may still be handled.  Agents and the  *)
(* Controller may restart; the Controller keeps all of this in memory.     *)
(*                                                                         *)
(* A Peer on its Agent is abstracted to the states AgentPeers gives it;    *)
(* "stuck" is a failed one whose container could not be removed.           *)
(***************************************************************************)
EXTENDS Naturals, FiniteSets, FiniteSetsExt

CONSTANTS
  Agents,        \* Agent IDs
  Nodes,         \* node IDs; never reused
  Capacity,      \* Capacity[a] is the capacity of Agent a
  MaxInstances,  \* bound: starts of one Agent
  MaxReports,    \* bound: reports captured by the Agents
  MaxInFlight,   \* bound: reports in flight
  MaxRestarts,   \* bound: restarts of the Controller
  NoAgent

ASSUME CapacityAssumption == Capacity \in [Agents -> Nat \ {0}]
ASSUME BoundsAssumption ==
  /\ MaxInstances \in Nat /\ MaxReports \in Nat
  /\ MaxInFlight \in Nat /\ MaxRestarts \in Nat
ASSUME NoAgentAssumption == NoAgent \notin Agents
ASSUME FiniteAssumption == IsFiniteSet(Nodes)

VARIABLES
  \* Each Agent.
  instance,       \* Server.startedAt
  peers,          \* its Peers
  captured,       \* its clock: the number of reports it captured
  acknowledged,   \* process.heartbeatAcknowledged
  registered,     \* heartbeatLoop's registered
  call,           \* its POST to the Controller in progress
  \* The network.
  reports,        \* reports that may still reach the Controller
  \* The Controller.
  agents,         \* state.agents
  agentSnapshots, \* state.agentSnapshots; 0 is the zero time
  nodes,          \* state.nodes
  reservations,   \* state.reservations
  creates,        \* the goroutine that creates each node
  deletes,        \* nodes whose DELETE was answered and not yet recorded
  restarts        \* how often the Controller restarted

agentVars      == <<instance, peers, captured, acknowledged, registered, call>>
controllerVars == <<agents, agentSnapshots, nodes, reservations>>
vars == <<agentVars, reports, controllerVars, creates, deletes, restarts>>

Live       == {"starting", "ready"}
Reported   == Live \cup {"stopping", "stopped", "failed"}
PeerStates == Reported \cup {"none", "stuck"}

Known(a)      == agents[a].known
Occupied(s)   == s \in Live \cup {"stopping", "stuck"}
occupied(a)   == Cardinality({n \in Nodes : Occupied(peers[a][n])})
reserved(a)   == Cardinality({n \in Nodes : reservations[n] = a})
Status(s)     == IF s = "stuck" THEN "failed" ELSE s

UnknownAgent == [known |-> FALSE, instance |-> 0, active |-> 0, online |-> FALSE]
NoNode       == [agent |-> NoAgent, state |-> "none"]
NoCreate     == [pc |-> "idle", agent |-> NoAgent, instance |-> 0]
NoCall       == [phase |-> "none", batch |-> {}, rest |-> {}, ts |-> 0, kind |-> "none",
                 occupied |-> 0, nodes |-> <<>>]

Init ==
  /\ instance = [a \in Agents |-> 1]
  /\ peers = [a \in Agents |-> [n \in Nodes |-> "none"]]
  /\ captured = [a \in Agents |-> 0]
  /\ acknowledged = [a \in Agents |-> {}]
  /\ registered = [a \in Agents |-> FALSE]
  /\ call = [a \in Agents |-> NoCall]
  /\ reports = {}
  /\ agents = [a \in Agents |-> UnknownAgent]
  /\ agentSnapshots = [a \in Agents |-> 0]
  /\ nodes = [n \in Nodes |-> NoNode]
  /\ reservations = [n \in Nodes |-> NoAgent]
  /\ creates = [n \in Nodes |-> NoCreate]
  /\ deletes = {}
  /\ restarts = 0

-----------------------------------------------------------------------------
(* The Agent.                                                              *)

(* Steps of a Peer: it becomes ready, its lifetime ends, it exits, its     *)
(* container is removed, or cannot be.                                     *)
PeerSteps ==
  {<<"starting", "ready">>, <<"stopping", "stopped">>, <<"stopping", "stuck">>}
    \cup (Live \X {"stopping", "stopped", "failed", "stuck"})

peerChanges(a, n, s) ==
  /\ <<peers[a][n], s>> \in PeerSteps
  /\ peers' = [peers EXCEPT ![a][n] = s]
  /\ UNCHANGED <<instance, captured, acknowledged, registered, call, reports,
                 controllerVars, creates, deletes, restarts>>

(* A new process with the same ID; its startup removed all containers.     *)
agentRestarts(a) ==
  /\ instance[a] < MaxInstances
  /\ instance' = [instance EXCEPT ![a] = @ + 1]
  /\ peers' = [peers EXCEPT ![a] = [n \in Nodes |-> "none"]]
  /\ acknowledged' = [acknowledged EXCEPT ![a] = {}]
  /\ registered' = [registered EXCEPT ![a] = FALSE]
  /\ call' = [call EXCEPT ![a] = NoCall]
  /\ UNCHANGED <<captured, reports, controllerVars, creates, deletes, restarts>>

(* The bound on reports.                                                   *)
ReportsLeft == MapThenSumSet(LAMBDA a : captured[a], Agents) < MaxReports

Report(a, kind, ts, occ, reportNodes) ==
  [kind |-> kind, agent |-> a, instance |-> instance[a], ts |-> ts, occupied |-> occ,
   nodes |-> reportNodes]

(* snapshotWithHistory: acknowledged successful exits may be left out.     *)
snapshotNodes(a, includeAcknowledged) ==
  [n \in {m \in Nodes : /\ peers[a][m] # "none"
                        /\ includeAcknowledged
                             \/ ~(peers[a][m] = "stopped" /\ m \in acknowledged[a])}
     |-> Status(peers[a][n])]

(* Capture a report and start a POST.                                      *)
register(a) ==
  LET ts == captured[a] + 1 IN
  /\ ~registered[a]
  /\ call[a].phase = "none"
  /\ ReportsLeft
  /\ Cardinality(reports) < MaxInFlight
  /\ captured' = [captured EXCEPT ![a] = ts]
  /\ call' = [call EXCEPT ![a] = [NoCall EXCEPT !.phase = "sent", !.kind = "register",
                                                !.ts = ts]]
  /\ reports' = reports \cup {Report(a, "register", ts, occupied(a), <<>>)}
  /\ UNCHANGED <<instance, peers, acknowledged, registered, controllerVars, creates,
                 deletes, restarts>>

(* heartbeat: the first of the batches into which the body is split.       *)
heartbeat(a, batch) ==
  LET ts == captured[a] + 1
      captures == snapshotNodes(a, FALSE)
  IN
  /\ registered[a]
  /\ call[a].phase = "none"
  /\ ReportsLeft
  /\ Cardinality(reports) < MaxInFlight
  /\ batch \subseteq DOMAIN captures
  /\ batch = {} => DOMAIN captures = {}
  /\ captured' = [captured EXCEPT ![a] = ts]
  /\ call' = [call EXCEPT ![a] =
       [phase |-> "sent", kind |-> "partial", ts |-> ts, batch |-> batch,
        rest |-> DOMAIN captures \ batch, occupied |-> occupied(a), nodes |-> captures]]
  /\ reports' = reports \cup
       {Report(a, "partial", ts, occupied(a), [n \in batch |-> captures[n]])}
  /\ UNCHANGED <<instance, peers, acknowledged, registered, controllerVars, creates,
                 deletes, restarts>>

(* Mutant: a new registration keeps the acknowledgments.                   *)
registerKeepsAcknowledged(a) ==
  /\ call[a].kind = "register"
  /\ call[a].phase \in {"ok", "conflict"}
  /\ registered' = [registered EXCEPT ![a] = call[a].phase = "ok"]
  /\ call' = [call EXCEPT ![a] = NoCall]
  /\ UNCHANGED <<instance, peers, captured, acknowledged, reports, controllerVars, creates,
                 deletes, restarts>>

(* The answer to a registration.                                           *)
registerAnswered(a) ==
  /\ call[a].kind = "register"
  /\ call[a].phase \in {"ok", "conflict"}
  /\ registered' = [registered EXCEPT ![a] = call[a].phase = "ok"]
  /\ acknowledged' = [acknowledged EXCEPT ![a] = IF call[a].phase = "ok" THEN {} ELSE @]
  /\ call' = [call EXCEPT ![a] = NoCall]
  /\ UNCHANGED <<instance, peers, captured, reports, controllerVars, creates, deletes,
                 restarts>>

(* The call goes on with the next batch, or ends with the last one.        *)
nextCall(a, next) ==
  IF next = {} THEN NoCall
  ELSE [call[a] EXCEPT !.phase = "sent", !.batch = next, !.rest = @ \ next]

(* The answer to a batch: successful exits it held are acknowledged, then  *)
(* the next batch is sent with the same capture time.                      *)
batchAnswered(a, next) ==
  /\ call[a].kind = "partial"
  /\ call[a].phase = "ok"
  /\ next \subseteq call[a].rest
  /\ next = {} => call[a].rest = {}
  /\ next # {} => Cardinality(reports) < MaxInFlight
  /\ acknowledged' = [acknowledged EXCEPT ![a] =
       @ \cup {n \in call[a].batch : call[a].nodes[n] = "stopped"}]
  /\ call' = [call EXCEPT ![a] = nextCall(a, next)]
  /\ reports' = IF next = {} THEN reports
       ELSE reports \cup {Report(a, "partial", call[a].ts, call[a].occupied,
                                 [n \in next |-> call[a].nodes[n]])}
  /\ UNCHANGED <<instance, peers, captured, registered, controllerVars, creates, deletes,
                 restarts>>

(* Only a 409 makes the Agent register again.                              *)
heartbeatRefused(a) ==
  /\ call[a].kind = "partial"
  /\ call[a].phase = "conflict"
  /\ registered' = [registered EXCEPT ![a] = FALSE]
  /\ call' = [call EXCEPT ![a] = NoCall]
  /\ UNCHANGED <<instance, peers, captured, acknowledged, reports, controllerVars, creates,
                 deletes, restarts>>

(* The POST timed out or its answer was lost.                              *)
callFails(a) ==
  /\ call[a].phase # "none"
  /\ call' = [call EXCEPT ![a] = NoCall]
  /\ UNCHANGED <<instance, peers, captured, acknowledged, registered, reports,
                 controllerVars, creates, deletes, restarts>>

(* GET /status, asked for by refreshAgentState or refreshRegisteredAgents. *)
statusCaptured(a) ==
  LET ts == captured[a] + 1 IN
  /\ Known(a)
  /\ ReportsLeft
  /\ Cardinality(reports) < MaxInFlight
  /\ captured' = [captured EXCEPT ![a] = ts]
  /\ reports' = reports \cup
       {Report(a, "full", ts, occupied(a), snapshotNodes(a, TRUE))}
  /\ UNCHANGED <<instance, peers, acknowledged, registered, call, controllerVars, creates,
                 deletes, restarts>>

reportLost(m) ==
  /\ m \in reports
  /\ reports' = reports \ {m}
  /\ UNCHANGED <<agentVars, controllerVars, creates, deletes, restarts>>

-----------------------------------------------------------------------------
(* The Controller handles a report, and the Agent's call gets its answer   *)
(* if the Agent still waits for it.                                        *)
Answer(m, phase) ==
  LET a == m.agent
      waiting == /\ instance[a] = m.instance
                 /\ call[a].phase = "sent"
                 /\ call[a].kind = m.kind
                 /\ call[a].ts = m.ts
                 /\ call[a].batch = DOMAIN m.nodes
  IN call' = IF waiting THEN [call EXCEPT ![a].phase = phase] ELSE call

Larger(x, y) == IF x >= y THEN x ELSE y

(* Mutant: a registration is taken for one of the instance on record.      *)
RestartedNever(m) == FALSE

(* The registration is that of another instance than the one on record.    *)
Restarted(m) == agents[m.agent].known /\ m.instance # agents[m.agent].instance

(* registerAgent: a different instance is accepted only if it is newer and *)
(* the one on record has lost its lease.                                   *)
registerAgent(m) ==
  LET a == m.agent
      previous == agents[a]
      restarted == Restarted(m)
      refused == restarted /\ (m.instance < previous.instance \/ previous.online)
      active == IF restarted THEN m.occupied
                ELSE IF previous.known THEN Larger(m.occupied, previous.active)
                ELSE m.occupied + reserved(a)
      snapshot == IF restarted THEN 0 ELSE agentSnapshots[a]
  IN
  /\ m \in reports
  /\ m.kind = "register"
  /\ reports' = reports \ {m}
  /\ IF refused
     THEN /\ UNCHANGED controllerVars
          /\ Answer(m, "conflict")
     ELSE /\ agents' = [agents EXCEPT ![a] =
               [known |-> TRUE, instance |-> m.instance, active |-> active,
                online |-> TRUE]]
          /\ agentSnapshots' = [agentSnapshots EXCEPT ![a] = Larger(m.ts, snapshot)]
          /\ reservations' = [n \in Nodes |->
               IF restarted /\ reservations[n] = a THEN NoAgent ELSE reservations[n]]
          /\ nodes' = [n \in Nodes |->
               IF restarted /\ nodes[n].agent = a /\ nodes[n].state \notin {"stopped", "failed"}
               THEN [nodes[n] EXCEPT !.state = "failed"] ELSE nodes[n]]
          /\ Answer(m, "ok")
  /\ UNCHANGED <<instance, peers, captured, acknowledged, registered, creates, deletes,
                 restarts>>

(* Mutant: a report captured before a DELETE undoes the stop.              *)
MergeUnstops(old, state) ==
  IF \/ old = "stopped" /\ state # "stopped"
     \/ old = "failed" /\ state \in Live
  THEN old ELSE state

(* The state kept for a node on record as old and reported as state.       *)
Merge(old, state) ==
  IF \/ old = "stopped" /\ state # "stopped"
     \/ old \in {"failed", "stopping"} /\ state \in Live
  THEN old ELSE state

(* The nodes of a report that count: of an older one only final exits.     *)
Applied(m) ==
  {n \in DOMAIN m.nodes : m.ts < agentSnapshots[m.agent] => m.nodes[n] = "stopped"}

(* Reports of another instance, and ones that name a node placed on        *)
(* another Agent, are refused.                                             *)
Foreign(m) ==
  \/ ~agents[m.agent].known
  \/ m.instance # agents[m.agent].instance
  \/ \E n \in DOMAIN m.nodes : \/ nodes[n].agent \notin {NoAgent, m.agent}
                               \/ reservations[n] \notin {NoAgent, m.agent}

(* A report that names a node ends its reservation.                        *)
Kept(m) == [n \in Nodes |-> IF n \in Applied(m) THEN NoAgent ELSE reservations[n]]

(* Mutant: reservations the report does not know of are not counted.       *)
ActiveReported(m, merged, kept) ==
  LET a == m.agent
      observed == {n \in Nodes : /\ merged[n].agent = a /\ merged[n].state \in Live
                                 /\ IF m.kind = "partial" THEN kept[n] # a
                                    ELSE n \in Applied(m)}
  IN Larger(m.occupied, Cardinality(observed))

(* Occupied slots by the report, never below the live nodes on record, and *)
(* the reservations it does not answer.                                    *)
ActiveAfter(m, merged, kept) ==
  LET a == m.agent
      observed == {n \in Nodes : /\ merged[n].agent = a /\ merged[n].state \in Live
                                 /\ IF m.kind = "partial" THEN kept[n] # a
                                    ELSE n \in Applied(m)}
      open == {n \in Nodes : kept[n] = a}
  IN Larger(m.occupied, Cardinality(observed)) + Cardinality(open)

(* state.heartbeat.                                                        *)
applyHeartbeat(m) ==
  LET a == m.agent
      stale == m.ts < agentSnapshots[a]
      merged == [n \in Nodes |->
        IF n \in Applied(m) THEN [agent |-> a, state |-> Merge(nodes[n].state, m.nodes[n])]
        ELSE nodes[n]]
      kept == Kept(m)
      released == Cardinality({n \in Nodes : reservations[n] = a /\ kept[n] # a})
      active == agents[a].active
      Departed(n) == /\ m.kind = "full" /\ n \notin DOMAIN m.nodes
                     /\ nodes[n].agent = a /\ kept[n] # a
  IN
  /\ m \in reports
  /\ m.kind \in {"partial", "full"}
  /\ reports' = reports \ {m}
  /\ IF Foreign(m)
     THEN UNCHANGED controllerVars /\ Answer(m, "conflict")
     ELSE IF m.kind = "full" /\ m.ts <= agentSnapshots[a]
     THEN UNCHANGED controllerVars /\ Answer(m, "ok")
     ELSE /\ nodes' = [n \in Nodes |->
               IF Departed(n) THEN [merged[n] EXCEPT !.state = "stopped"] ELSE merged[n]]
          /\ reservations' = kept
          /\ agents' = [agents EXCEPT ![a] =
               IF stale
               THEN [@ EXCEPT !.active = IF active > released THEN active - released ELSE 0]
               ELSE [@ EXCEPT !.active = ActiveAfter(m, merged, kept), !.online = TRUE]]
          /\ agentSnapshots' = [agentSnapshots EXCEPT ![a] = Larger(m.ts, @)]
          /\ Answer(m, "ok")
  /\ UNCHANGED <<instance, peers, captured, acknowledged, registered, creates, deletes,
                 restarts>>

(* No report for agentStaleAfter: agentIsOnline, markStaleAgents.          *)
leaseExpires(a) ==
  /\ agents[a].online
  /\ agents' = [agents EXCEPT ![a].online = FALSE]
  /\ UNCHANGED <<agentVars, reports, agentSnapshots, nodes, reservations, creates, deletes,
                 restarts>>

-----------------------------------------------------------------------------
(* Creating a node.                                                        *)

(* tryReserveAgentWithPlacement, for whichever Agent placement prefers.    *)
tryReserveAgent(n, a) ==
  /\ creates[n].pc = "idle"
  /\ reservations[n] = NoAgent
  /\ Known(a)
  /\ agents[a].online
  /\ agents[a].active < Capacity[a]
  /\ agents' = [agents EXCEPT ![a].active = @ + 1]
  /\ reservations' = [reservations EXCEPT ![n] = a]
  /\ creates' = [creates EXCEPT ![n] =
       [pc |-> "posted", agent |-> a, instance |-> agents[a].instance]]
  /\ UNCHANGED <<agentVars, reports, agentSnapshots, nodes, deletes, restarts>>

(* The Agent handles the POST, also one the Controller has given up on.    *)
createNode(n) ==
  LET a == creates[n].agent
      fits == occupied(a) < Capacity[a]
      waiting == creates[n].pc = "posted"
  IN
  /\ creates[n].pc \in {"posted", "late"}
  /\ peers' = IF fits THEN [peers EXCEPT ![a][n] = "starting"] ELSE peers
  /\ creates' = [creates EXCEPT ![n].pc =
       IF ~waiting THEN "done" ELSE IF fits THEN "created" ELSE "full"]
  /\ UNCHANGED <<instance, captured, acknowledged, registered, call, reports,
                 controllerVars, deletes, restarts>>

releaseReservation(n) ==
  LET a == reservations[n] IN
  /\ reservations' = [reservations EXCEPT ![n] = NoAgent]
  /\ agents' = IF a = NoAgent \/ agents[a].active = 0 THEN agents
               ELSE [agents EXCEPT ![a].active = @ - 1]

(* 429: the Agent did not create the Peer, so it may be placed again.      *)
createFull(n) ==
  /\ creates[n].pc = "full"
  /\ releaseReservation(n)
  /\ creates' = [creates EXCEPT ![n] = NoCreate]
  /\ UNCHANGED <<agentVars, reports, agentSnapshots, nodes, deletes, restarts>>

(* Mutant: any failed create is placed again.                              *)
createFailsRetried(n) ==
  /\ creates[n].pc \in {"posted", "created", "full"}
  /\ releaseReservation(n)
  /\ creates' = [creates EXCEPT ![n] = NoCreate]
  /\ UNCHANGED <<agentVars, reports, agentSnapshots, nodes, deletes, restarts>>

(* Any other error ends the create; the request may still reach the Agent. *)
createFails(n) ==
  /\ creates[n].pc \in {"posted", "created", "full"}
  /\ releaseReservation(n)
  /\ creates' = [creates EXCEPT ![n].pc = IF @ = "posted" THEN "late" ELSE "done"]
  /\ UNCHANGED <<agentVars, reports, agentSnapshots, nodes, deletes, restarts>>

(* recordCreatedNode.  The answer was captured before every report that    *)
(* names the node, so a record the Controller already has stays.           *)
recordCreatedNode(n) ==
  LET a == creates[n].agent IN
  /\ creates[n].pc = "created"
  /\ creates' = [creates EXCEPT ![n].pc = "done"]
  /\ IF Known(a) /\ agents[a].instance = creates[n].instance
     THEN /\ nodes' = IF nodes[n].state = "none"
                      THEN [nodes EXCEPT ![n] = [agent |-> a, state |-> "starting"]]
                      ELSE nodes
          /\ UNCHANGED <<agents, reservations>>
     ELSE /\ releaseReservation(n)
          /\ UNCHANGED nodes
  /\ UNCHANGED <<agentVars, reports, agentSnapshots, deletes, restarts>>

(* Stopping a node: DELETE at the Agent, then the Controller's record.     *)
stopNode(n) ==
  LET a == nodes[n].agent IN
  /\ nodes[n].state \in Live
  /\ Known(a)
  /\ peers[a][n] # "none"
  /\ peers' = IF Occupied(peers[a][n]) THEN [peers EXCEPT ![a][n] = "stopping"] ELSE peers
  /\ deletes' = deletes \cup {n}
  /\ UNCHANGED <<instance, captured, acknowledged, registered, call, reports,
                 controllerVars, creates, restarts>>

(* The record is marked; ActiveNodes is left to the Agent's next report.   *)
markNodeStopping(n) ==
  /\ n \in deletes
  /\ deletes' = deletes \ {n}
  /\ nodes' = IF nodes[n].state \in Live THEN [nodes EXCEPT ![n].state = "stopping"]
              ELSE nodes
  /\ reservations' = [reservations EXCEPT ![n] = NoAgent]
  /\ UNCHANGED <<agentVars, reports, agents, agentSnapshots, creates, restarts>>

deleteFails(n) ==
  /\ n \in deletes
  /\ deletes' = deletes \ {n}
  /\ UNCHANGED <<agentVars, reports, controllerVars, creates, restarts>>

(* The Controller restarts: its memory, its goroutines and the connections *)
(* to it are gone.  A create it had posted may still reach the Agent.      *)
controllerRestarts ==
  /\ restarts < MaxRestarts
  /\ restarts' = restarts + 1
  /\ reports' = {}
  /\ agents' = [a \in Agents |-> UnknownAgent]
  /\ agentSnapshots' = [a \in Agents |-> 0]
  /\ nodes' = [n \in Nodes |-> NoNode]
  /\ reservations' = [n \in Nodes |-> NoAgent]
  /\ creates' = [n \in Nodes |->
       CASE creates[n].pc = "posted" -> [creates[n] EXCEPT !.pc = "late"]
         [] creates[n].pc \in {"created", "full"} -> [creates[n] EXCEPT !.pc = "done"]
         [] OTHER -> creates[n]]
  /\ deletes' = {}
  /\ UNCHANGED agentVars

-----------------------------------------------------------------------------
AgentStep(a) ==
  \/ \E n \in Nodes, s \in PeerStates : peerChanges(a, n, s)
  \/ agentRestarts(a)
  \/ register(a)
  \/ \E batch \in SUBSET Nodes : heartbeat(a, batch)
  \/ registerAnswered(a)
  \/ \E next \in SUBSET Nodes : batchAnswered(a, next)
  \/ heartbeatRefused(a)
  \/ callFails(a)
  \/ statusCaptured(a)
  \/ leaseExpires(a)

NodeStep(n) ==
  \/ \E a \in Agents : tryReserveAgent(n, a)
  \/ createNode(n)
  \/ createFull(n)
  \/ createFails(n)
  \/ recordCreatedNode(n)
  \/ stopNode(n)
  \/ markNodeStopping(n)
  \/ deleteFails(n)

Next ==
  \/ \E a \in Agents : AgentStep(a)
  \/ \E n \in Nodes : NodeStep(n)
  \/ \E m \in reports : registerAgent(m) \/ applyHeartbeat(m) \/ reportLost(m)
  \/ controllerRestarts

Spec == Init /\ [][Next]_vars

-----------------------------------------------------------------------------
NodeMaps == UNION {[S -> Reported] : S \in SUBSET Nodes}

(* The values every variable may have.                                     *)
TypeOK ==
  /\ instance \in [Agents -> Nat]
  /\ peers \in [Agents -> [Nodes -> PeerStates]]
  /\ captured \in [Agents -> Nat]
  /\ acknowledged \in [Agents -> SUBSET Nodes]
  /\ registered \in [Agents -> BOOLEAN]
  /\ call \in [Agents ->
       [phase : {"none", "sent", "ok", "conflict"}, kind : {"none", "register", "partial"},
        ts : Nat, batch : SUBSET Nodes, rest : SUBSET Nodes, occupied : Nat,
        nodes : NodeMaps]]
  /\ reports \subseteq
       [kind : {"register", "partial", "full"}, agent : Agents, instance : Nat, ts : Nat,
        occupied : Nat, nodes : NodeMaps]
  /\ agents \in [Agents ->
       [known : BOOLEAN, instance : Nat, active : Nat, online : BOOLEAN]]
  /\ agentSnapshots \in [Agents -> Nat]
  /\ nodes \in [Nodes -> [agent : Agents \cup {NoAgent}, state : Reported \cup {"none"}]]
  /\ reservations \in [Nodes -> Agents \cup {NoAgent}]
  /\ creates \in [Nodes ->
       [pc : {"idle", "posted", "created", "full", "late", "done"},
        agent : Agents \cup {NoAgent}, instance : Nat]]
  /\ deletes \in SUBSET Nodes
  /\ restarts \in Nat

(* Placement never forgets a node it knows of: every live node on record   *)
(* and every reservation is part of its Agent's ActiveNodes.               *)
KnownPeersAreCharged ==
  \A a \in Agents :
    Cardinality({n \in Nodes : \/ nodes[n].agent = a /\ nodes[n].state \in Live
                               \/ reservations[n] = a}) <= agents[a].active

(* A reservation never leaks: its create is still in progress, or the      *)
(* Agent instance on record has the Peer and will report it again, or that *)
(* instance is gone and the registration of the next one ends it.          *)
ReservationsAreReleasable ==
  \A a \in Agents : \A n \in Nodes : reservations[n] = a =>
    \/ creates[n].pc \in {"posted", "created", "full"}
    \/ agents[a].instance # instance[a]
    \/ peers[a][n] # "none" /\ n \notin acknowledged[a]

(* The slots of the Agents are neither lost nor given twice, whatever      *)
(* reports, retries and restarts come between a reservation and its        *)
(* release (state.heartbeat, registerAgent, releaseReservation).           *)
CapacityIsAccounted == KnownPeersAreCharged /\ ReservationsAreReleasable

(* A live record is backed by a Peer: as long as the registered instance   *)
(* is the one that runs, the Controller never lists a node as live that    *)
(* this instance does not have (recordCreatedNode's expectedInstance).     *)
LiveRecordsHaveAPeer ==
  \A n \in Nodes : nodes[n].state \in Live =>
    LET a == nodes[n].agent IN
      Known(a) /\ (agents[a].instance = instance[a] => peers[a][n] # "none")

(* An exit the Agent will not report again is on record: acknowledgments   *)
(* survive neither a Controller restart nor a lost or crossed answer.      *)
AcknowledgedExitsAreKnown ==
  \A a \in Agents : \A n \in acknowledged[a] :
    registered[a] /\ Known(a) /\ agents[a].instance = instance[a]
      => nodes[n].state = "stopped"

(* A node is never created on two Agents, although a create may be placed  *)
(* again after a 429 (createReservedNode).                                 *)
OneAgentPerNode ==
  \A n \in Nodes : \A a, b \in Agents :
    peers[a][n] # "none" /\ peers[b][n] # "none" => a = b

(* What the Controller has recorded as ended or ending stays so, however   *)
(* late and in whatever order reports and create answers arrive.           *)
StopIsNotUndone ==
  [][restarts' = restarts =>
       \A n \in Nodes :
         /\ nodes[n].state = "stopped" => nodes'[n].state = "stopped"
         /\ nodes[n].state \in {"stopping", "failed"} =>
              nodes'[n].state \in {"stopping", "failed", "stopped"}]_vars
=============================================================================
