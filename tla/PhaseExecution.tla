--------------------------- MODULE PhaseExecution ---------------------------
(***************************************************************************)
(* The execution of one run (internal/controller, runScenario): its phases *)
(* in order, each awaited or as a background job, the operations of a      *)
(* phase on Peers, cancellation, stop-all and the end of the run.          *)
(*                                                                         *)
(* Thread 0 is the scheduler's own goroutine, thread j the goroutine of    *)
(* job j.  A Peer is the sequence number of its node ID.  Of an Agent only *)
(* the fence and the admitted Peers are kept (AgentPeers has its whole     *)
(* table), of the inventory only what phases ask of it (ControllerFleet).  *)
(* Agents stay online and are not restarted; errors of a request are the   *)
(* faults.  A request whose caller gave up may still reach its Agent.      *)
(***************************************************************************)
EXTENDS ScenarioPlan, FiniteSets

CONSTANTS
  Agents,
  Plans,            \* scenarios that may be submitted: [phases, onExit]
  PublishingGroups, \* groups whose Peers publish on the topics of the phases
  Capacity,         \* Peers an Agent admits
  Overridden,       \* Agents whose last heartbeat still had a capacity more
  MaxJob,           \* bound: the names of jobs
  MaxPeers,         \* bound: Peers joined by a run
  MaxFaults         \* bound: failures

ASSUME PhaseBounds ==
  /\ Agents # {} /\ Overridden \subseteq Agents /\ Capacity \in Nat \ {0}
  /\ MaxPeers \in Nat \ {0} /\ MaxJob \in Nat \ {0} /\ MaxFaults \in Nat
  /\ \A plan \in Plans : plan.onExit \in {"cancel", "drain"}

(* Any sequence of phases may be submitted; most are not valid.            *)
ASSUME PlansAssumption == \A plan \in Plans : plan.phases \in Seq(PhaseRecord)

Main   == 0
Peers  == 1 .. MaxPeers
NoGoal == "any"

VARIABLES
  plan,          \* the phases, prepared, and onExit
  run,           \* what runScenario keeps: where it is and its errors
  thread,        \* executions of phases
  registered,    \* phaseJobs: the jobs a wait can name
  canceled,      \* the context of the scenario is canceled
  stopRequested, \* and so is its parent: StopScenario
  asyncErr,      \* the first failure of a background job was recorded
  broken,        \* history: something failed that no phase tolerates
  nodes,         \* the inventory's state of each Peer
  reserved,      \* reservations: the Agent, or NoGoal
  participants,  \* Agents remembered for the run
  requests,      \* creates, as they travel
  agents,        \* the fence, the Peers and the capacity of each Agent
  faults

control   == <<plan, run, registered, canceled, stopRequested, asyncErr>>
inventory == <<nodes, reserved, participants>>
remote    == <<requests, agents>>
vars      == <<control, thread, broken, inventory, remote, faults>>

Phases      == plan.phases
JobNames    == {p.job : p \in {Phases[i] : i \in DOMAIN Phases}}
Threads     == {Main} \cup JobNames
Phase(t)    == Phases[thread[t].phase]

NoOps == [p \in Peers |-> "none"]

IdleThread ==
  [pc |-> "idle", phase |-> 0, gen |-> 0, rep |-> 0, canceled |-> FALSE, ops |-> NoOps,
   goal |-> NoGoal, left |-> {}, stopped |-> {}, stopErr |-> FALSE, err |-> "none"]

NoRequest == [st |-> "none", to |-> NoGoal, gen |-> 0, group |-> ""]

PeersOf(phases) ==
  FoldLeft(LAMBDA n, p : n + (IF p.action = "join" THEN p.count * p.repeat ELSE 0), 0, phases)

Init ==
  /\ \E submitted \in Plans :
       LET phases == Prepared(submitted.phases)
       IN /\ Validate(phases)
          /\ PeersOf(phases) <= MaxPeers
          /\ plan = [phases |-> phases, onExit |-> submitted.onExit]
  /\ run = [pc |-> "loop", index |-> 1, gen |-> 1, seq |-> 0, err |-> "none",
            cleanupErr |-> FALSE, background |-> FALSE]
  /\ thread = [t \in Threads |-> IdleThread]
  /\ registered = {}
  /\ canceled = FALSE /\ stopRequested = FALSE /\ asyncErr = FALSE /\ broken = FALSE
  /\ nodes = [p \in Peers |-> "none"]
  /\ reserved = [p \in Peers |-> NoGoal]
  /\ participants = {}
  /\ requests = [p \in Peers |-> NoRequest]
  /\ agents = [a \in Agents |->
       [fence |-> 0, peers |-> {}, capacity |-> Capacity,
        reported |-> IF a \in Overridden THEN Capacity + 1 ELSE Capacity]]
  /\ faults = 0

Fault == faults < MaxFaults /\ faults' = faults + 1

CtxDone(t) == canceled \/ thread[t].canceled

Is(t, action, pc) == thread[t].pc = pc /\ Phase(t).action = action

Set(t, x) == thread' = [thread EXCEPT ![t] = x]

Failure(err) == broken' = (broken \/ err = "failed")

(* One repetition of the phase of t is over.                               *)
Over(x, err) ==
  IF err # "none" THEN [x EXCEPT !.pc = "returned", !.err = err]
  ELSE [IdleThread EXCEPT !.pc = "top", !.phase = x.phase, !.gen = x.gen, !.rep = x.rep + 1,
                          !.canceled = x.canceled]

Ends(t, err) == Set(t, Over(thread[t], err)) /\ Failure(err)

-----------------------------------------------------------------------------
(* The inventory, as phases see it.                                        *)

InGroup(p, group) == group = "" \/ requests[p].group = group

matchingNodes(group, states) ==
  {p \in Peers : nodes[p] \in states \cap {"starting", "ready"} /\ InGroup(p, group)}

readyCount(gen, group) ==
  LET ours == {p \in Peers : nodes[p] # "none" /\ requests[p].gen = gen /\ InGroup(p, group)}
  IN [total  |-> Cardinality(ours),
      ready  |-> Cardinality({p \in ours : nodes[p] = "ready"}),
      failed |-> Cardinality({p \in ours : nodes[p] = "failed"})]

ReadyBarrier(t) ==
  LET p == Phase(t)
      n == readyCount(thread[t].gen, p.group)
  IN /\ n.failed = 0
     /\ IF p.min > 0 THEN n.total >= p.min ELSE n.total > 0
     /\ n.ready * 100 >= p.ratio * n.total

nodePublishTopics(p) == requests[p].group \in PublishingGroups

(* Reservations and containers count until the Agent reports them gone.    *)
ActiveNodes(a) ==
  Cardinality({p \in Peers :
    \/ reserved[p] = a
    \/ requests[p].to = a /\ nodes[p] \notin {"none", "stopped"}})

Roomy == {a \in Agents : ActiveNodes(a) < agents[a].reported}

balancedAgentBefore(a, b) == ActiveNodes(a) <= ActiveNodes(b)

(* The Agents tryReserveAgentWithPlacement may choose.                     *)
Candidates(t) ==
  LET fitting == {a \in Roomy : thread[t].goal \in {NoGoal, a}}
  IN IF Phase(t).placement = "random" THEN fitting
     ELSE {a \in fitting : \A b \in fitting : balancedAgentBefore(a, b)}

-----------------------------------------------------------------------------
(* Jobs.                                                                   *)

Done(j) == thread[j].pc = "done"

cancelAll == [t \in Threads |-> IF t \in registered THEN [thread[t] EXCEPT !.canceled = TRUE]
                                ELSE thread[t]]

selectJobs(names) == IF names = {} THEN registered ELSE names

(* Any of the selected jobs that ended badly ends the wait.                *)
JobErrors(selected) == {thread[j].err : j \in {k \in selected : Done(k)}} \ {"none"}

AllDone(selected) == \A j \in selected : Done(j)

(* completed: recordAsyncFailure.                                          *)
jobReturns(j) ==
  /\ thread[j].pc = "returned" /\ j # Main
  /\ Set(j, [thread[j] EXCEPT !.pc = "recorded"])
  /\ LET fails == thread[j].err \notin {"none", "canceled"}
     IN asyncErr' = (asyncErr \/ fails) /\ canceled' = (canceled \/ fails)
  /\ UNCHANGED <<plan, run, registered, stopRequested, broken, inventory, remote, faults>>

jobCloses(j) ==
  /\ thread[j].pc = "recorded"
  /\ Set(j, [thread[j] EXCEPT !.pc = "done"])
  /\ UNCHANGED <<control, broken, inventory, remote, faults>>

-----------------------------------------------------------------------------
(* A repetition of a phase begins.                                         *)

Begins(t, action) ==
  /\ Is(t, action, "top")
  /\ thread[t].rep < Phase(t).repeat
  /\ ~CtxDone(t)

phaseRepeated(t) ==
  /\ thread[t].pc = "top"
  /\ \/ thread[t].rep = Phase(t).repeat /\ Set(t, [thread[t] EXCEPT !.pc = "returned"])
     \/ /\ thread[t].rep < Phase(t).repeat /\ CtxDone(t)
        /\ Set(t, Over(thread[t], "canceled"))
  /\ UNCHANGED <<control, broken, inventory, remote, faults>>

rests(t) ==
  /\ Begins(t, "wait") \/ Begins(t, "log")
  /\ Ends(t, "none")
  /\ UNCHANGED <<control, inventory, remote, faults>>

(* The Peers take the next sequence numbers.                               *)
runJoin(t) ==
  /\ Begins(t, "join")
  /\ LET p     == Phase(t)
         batch == run.seq + 1 .. run.seq + p.count
     IN /\ run' = [run EXCEPT !.seq = @ + p.count]
        /\ Set(t, [thread[t] EXCEPT
                     !.pc  = IF p.placement = "single-agent" THEN "select" ELSE "work",
                     !.ops = [q \in Peers |-> IF q \in batch THEN "todo" ELSE "none"]])
        /\ requests' = [q \in Peers |->
             IF q \in batch
             THEN [st |-> "new", to |-> NoGoal, gen |-> thread[t].gen, group |-> p.group]
             ELSE requests[q]]
  /\ UNCHANGED <<plan, registered, canceled, stopRequested, asyncErr, broken, inventory, agents, faults>>

(* All replicas of the join wait for the capacity of this one.             *)
selectBatchAgent(t) ==
  /\ thread[t].pc = "select"
  /\ IF CtxDone(t) THEN Set(t, Over(thread[t], "canceled"))
     ELSE \E a \in Roomy : Set(t, [thread[t] EXCEPT !.pc = "work", !.goal = a])
  /\ UNCHANGED <<control, broken, inventory, remote, faults>>

OpsOn(t, chosen) ==
  Set(t, [thread[t] EXCEPT !.pc = "work",
                           !.ops = [q \in Peers |-> IF q \in chosen THEN "todo" ELSE "none"]])

AtMost(count, set) == {s \in SUBSET set : Cardinality(s) = IF count < Cardinality(set) THEN count
                                                           ELSE Cardinality(set)}

runPublish(t) ==
  /\ Begins(t, "publish")
  /\ LET p          == Phase(t)
         candidates == {q \in matchingNodes(p.group, {"ready"}) : nodePublishTopics(q)}
     IN IF candidates # {}
        THEN (\E chosen \in AtMost(p.count, candidates) : OpsOn(t, chosen)) /\ UNCHANGED broken
        ELSE Ends(t, IF p.onError = "continue" THEN "none" ELSE "failed")
  /\ UNCHANGED <<control, inventory, remote, faults>>

runLeave(t) ==
  /\ Begins(t, "leave")
  /\ LET p == Phase(t)
     IN \E chosen \in AtMost(p.count, matchingNodes(p.group, {"starting", "ready"})) : OpsOn(t, chosen)
  /\ UNCHANGED <<control, broken, inventory, remote, faults>>

(* wait-jobs, and the jobs of wait-ready.                                  *)
waitsForJobs(t) ==
  /\ Begins(t, "wait-jobs") \/ Begins(t, "wait-ready")
  /\ LET p        == Phase(t)
         selected == selectJobs(p.jobs)
     IN IF p.action = "wait-ready" /\ p.jobs = {}
        THEN Set(t, [thread[t] EXCEPT !.pc = "ready"]) /\ UNCHANGED broken
        ELSE IF selected \subseteq registered
        THEN Set(t, [thread[t] EXCEPT !.pc = "waiting", !.left = selected]) /\ UNCHANGED broken
        ELSE Ends(t, "unknown")
  /\ UNCHANGED <<control, inventory, remote, faults>>

jobWaitReturns(t) ==
  /\ thread[t].pc = "waiting"
  /\ \/ \E err \in JobErrors(thread[t].left) : Ends(t, err)
     \/ /\ AllDone(thread[t].left) /\ JobErrors(thread[t].left) = {}
        /\ IF Phase(t).action = "wait-ready"
           THEN Set(t, [thread[t] EXCEPT !.pc = "ready"]) /\ UNCHANGED broken
           ELSE Ends(t, "none")
     \/ CtxDone(t) /\ Ends(t, "canceled")
  /\ UNCHANGED <<control, inventory, remote, faults>>

waitReady(t) ==
  /\ thread[t].pc = "ready"
  /\ \/ ReadyBarrier(t) /\ Ends(t, "none")
     \/ CtxDone(t) /\ Ends(t, "canceled")
  /\ UNCHANGED <<control, inventory, remote, faults>>

phaseTimesOut(t) ==
  /\ thread[t].pc \in {"waiting", "ready"}
  /\ Ends(t, "failed")
  /\ UNCHANGED <<control, inventory, remote, faults>>

-----------------------------------------------------------------------------
(* The operations of a repetition.                                         *)

OpsIn(t, states) == {q \in Peers : thread[t].ops[q] \in states}
Busy(t)          == OpsIn(t, {"placing", "placed", "calling", "backoff"})
Errored(t)       == OpsIn(t, {"failed", "canceled"})
Selected(t)      == Peers \ OpsIn(t, {"none"})

Pooled(p) == p.parallel /\ (p.parallelism # 1 \/ p.action = "publish")

Workers(t) ==
  LET p == Phase(t)
      count == Cardinality(Selected(t))
  IN IF ~Pooled(p) THEN 1
     ELSE IF p.parallelism = 0 \/ p.parallelism > count THEN count ELSE p.parallelism

(* An error cancels the operations of the other workers.                   *)
OpCtxDone(t) == CtxDone(t) \/ Errored(t) # {}

(* Joins go in order; the others were shuffled.                            *)
dispatch(t, q) ==
  /\ thread[t].pc = "work" /\ q \in OpsIn(t, {"todo"})
  /\ Phase(t).action = "join" => \A other \in OpsIn(t, {"todo"}) : q <= other
  /\ ~OpCtxDone(t)
  /\ Cardinality(Busy(t)) < Workers(t)
  /\ Set(t, [thread[t] EXCEPT !.ops[q] = IF Phase(t).action = "join" THEN "placing" ELSE "calling"])
  /\ UNCHANGED <<control, broken, inventory, remote, faults>>

OpEnds(t, q, result) ==
  /\ Set(t, [thread[t] EXCEPT !.ops[q] = result])
  /\ Failure(result)

(* Mutant: the first error to arrive is the error of the pool.             *)
firstError(t) ==
  IF OpsIn(t, {"canceled"}) # {} THEN "canceled"
  ELSE IF OpsIn(t, {"failed"}) # {} THEN "failed" ELSE "none"

(* What runOperations returns: a failure before the cancellations that     *)
(* follow from it.                                                         *)
operationsError(t) ==
  IF OpsIn(t, {"failed"}) # {} THEN "failed"
  ELSE IF \/ Errored(t) # {}
          \/ CtxDone(t) /\ (Pooled(Phase(t)) \/ OpsIn(t, {"todo"}) # {})
       THEN "canceled" ELSE "none"

(* Mutant: an error leaves the dispatcher waiting for a worker.            *)
dispatchedOnly(t) == OpsIn(t, {"todo"}) = {} \/ CtxDone(t)

dispatched(t) == OpsIn(t, {"todo"}) = {} \/ OpCtxDone(t)

(* Failed deletes joined with a cancellation count as a cancellation.      *)
runOperations(t) ==
  /\ thread[t].pc = "work"
  /\ Busy(t) = {} /\ dispatched(t)
  /\ LET err == operationsError(t)
     IN Ends(t, IF err = "none" /\ thread[t].stopErr THEN "failed" ELSE err)
  /\ UNCHANGED <<control, inventory, remote, faults>>

(* Joins.                                                                  *)

acquireAgent(t, q) ==
  /\ thread[t].ops[q] = "placing"
  /\ IF OpCtxDone(t)
     THEN OpEnds(t, q, "canceled") /\ UNCHANGED reserved
     ELSE \E a \in Candidates(t) :
            /\ reserved' = [reserved EXCEPT ![q] = a]
            /\ Set(t, [thread[t] EXCEPT !.ops[q] = "placed"]) /\ UNCHANGED broken
  /\ UNCHANGED <<control, nodes, participants, remote, faults>>

releaseReservation(q) == reserved' = [reserved EXCEPT ![q] = NoGoal]

rememberRunAgent(t, q) == participants' = participants \cup {reserved[q]}

(* The Agent is remembered before it is asked.                             *)
sendCreate(t, q) ==
  /\ thread[t].ops[q] = "placed"
  /\ \/ /\ ~OpCtxDone(t)
        /\ rememberRunAgent(t, q)
        /\ requests' = [requests EXCEPT ![q].st = "sent", ![q].to = reserved[q]]
        /\ Set(t, [thread[t] EXCEPT !.ops[q] = "calling"])
        /\ UNCHANGED <<broken, reserved, faults>>
     \/ /\ OpCtxDone(t)
        /\ rememberRunAgent(t, q)
        /\ OpEnds(t, q, "canceled") /\ releaseReservation(q)
        /\ UNCHANGED <<requests, faults>>
     \/ /\ Fault
        /\ OpEnds(t, q, "failed") /\ releaseReservation(q)
        /\ UNCHANGED <<participants, requests>>
  /\ UNCHANGED <<control, nodes, agents>>

agentCreates(q) ==
  LET a == requests[q].to
  IN /\ requests[q].st = "sent"
     /\ LET answer == IF requests[q].gen <= agents[a].fence THEN "refused"
                      ELSE IF Cardinality(agents[a].peers) >= agents[a].capacity THEN "full" ELSE "made"
        IN /\ requests' = [requests EXCEPT ![q].st = answer]
           /\ agents' = IF answer = "made" THEN [agents EXCEPT ![a].peers = @ \cup {q}] ELSE agents
     /\ UNCHANGED <<control, thread, broken, inventory, faults>>

(* A full Agent has not created the Peer: it may be placed again.          *)
createAnswered(t, q) ==
  /\ Is(t, "join", "work") /\ thread[t].ops[q] = "calling"
  /\ releaseReservation(q)
  /\ CASE requests[q].st = "made" ->
            /\ nodes' = [nodes EXCEPT ![q] = IF @ = "none" THEN "starting" ELSE @]
            /\ OpEnds(t, q, "ok") /\ UNCHANGED requests
       [] requests[q].st = "full" ->
            /\ Set(t, [thread[t] EXCEPT !.ops[q] = "backoff"])
            /\ requests' = [requests EXCEPT ![q].st = "new", ![q].to = NoGoal]
            /\ UNCHANGED <<nodes, broken>>
       [] OTHER -> FALSE
  /\ UNCHANGED <<control, participants, agents, faults>>

(* The request may still be on its way.                                    *)
createAbandoned(t, q) ==
  /\ Is(t, "join", "work") /\ thread[t].ops[q] = "calling"
  /\ \/ Fault /\ OpEnds(t, q, "failed")
     \/ OpCtxDone(t) /\ OpEnds(t, q, "canceled") /\ UNCHANGED faults
  /\ releaseReservation(q)
  /\ UNCHANGED <<control, nodes, participants, remote>>

backsOff(t, q) ==
  /\ thread[t].ops[q] = "backoff"
  /\ \/ Set(t, [thread[t] EXCEPT !.ops[q] = "placing"]) /\ UNCHANGED broken
     \/ OpCtxDone(t) /\ OpEnds(t, q, "canceled")
  /\ UNCHANGED <<control, inventory, remote, faults>>

(* Publications and leaves.                                                *)

(* What an operation that went wrong returns; a tolerated failure is       *)
(* recorded as an event of the run, if that can be written.                *)
phaseOperationError(t, q) ==
  IF OpCtxDone(t) THEN OpEnds(t, q, "canceled") /\ UNCHANGED faults
  ELSE IF Phase(t).onError = "continue"
  THEN \/ OpEnds(t, q, "ok") /\ UNCHANGED faults
       \/ Fault /\ OpEnds(t, q, "failed")
  ELSE OpEnds(t, q, "failed") /\ UNCHANGED faults

(* The cohort is captured when the publisher is still ready.               *)
capturePublishCohort(q) == nodes[q] = "ready"

proxyPublish(q) == q \in agents[requests[q].to].peers

publishes(t, q) ==
  /\ Is(t, "publish", "work") /\ thread[t].ops[q] = "calling"
  /\ IF capturePublishCohort(q) /\ proxyPublish(q)
     THEN OpEnds(t, q, "ok") /\ UNCHANGED faults
     ELSE phaseOperationError(t, q)
  /\ UNCHANGED <<control, inventory, remote>>

AgentStops(q) == agents' = [agents EXCEPT ![requests[q].to].peers = @ \ {q}]

leaves(t, q) ==
  /\ Is(t, "leave", "work") /\ thread[t].ops[q] = "calling"
  /\ AgentStops(q)
  /\ nodes' = [nodes EXCEPT ![q] = "stopping"]
  /\ OpEnds(t, q, "ok")
  /\ UNCHANGED <<control, reserved, participants, requests, faults>>

(* The answer is lost, or the caller gave up.  By default a leave attempts *)
(* every delete before it fails.                                           *)
callFails(t, q) ==
  /\ thread[t].pc = "work" /\ Phase(t).action \in Lenient /\ thread[t].ops[q] = "calling"
  /\ \/ Phase(t).action = "leave" /\ AgentStops(q)
     \/ UNCHANGED agents
  /\ \/ /\ OpCtxDone(t)
        /\ OpEnds(t, q, "canceled")
        /\ UNCHANGED faults
     \/ /\ Fault /\ ~OpCtxDone(t)
        /\ IF Phase(t).action = "leave" /\ Phase(t).onError = "fail"
           THEN Set(t, [thread[t] EXCEPT !.ops[q] = "ok", !.stopErr = TRUE]) /\ UNCHANGED broken
           ELSE OpEnds(t, q, IF Phase(t).onError = "continue" THEN "ok" ELSE "failed")
  /\ UNCHANGED <<control, inventory, requests>>

-----------------------------------------------------------------------------
(* stop-all.                                                               *)

stopAll(t) ==
  /\ Begins(t, "stop-all")
  /\ thread' = [cancelAll EXCEPT ![t].pc = "stopJobs"]
  /\ UNCHANGED <<control, broken, inventory, remote, faults>>

(* Mutant: the jobs are forgotten when they were told to stop.             *)
resetAnyway(t) == thread[t].pc = "stopJobs"

JobsAreOver(t) == thread[t].pc = "stopJobs" /\ AllDone(registered)

cleanupParticipants == IF participants = {} THEN Agents ELSE participants

(* waitDone and reset.                                                     *)
resetJobs(t) ==
  /\ JobsAreOver(t)
  /\ registered' = {}
  /\ Set(t, [thread[t] EXCEPT !.pc = "stopPeers", !.left = cleanupParticipants])
  /\ UNCHANGED <<plan, run, canceled, stopRequested, asyncErr, broken, inventory, remote, faults>>

jobsDoNotStop(t) ==
  /\ thread[t].pc = "stopJobs" /\ ~AllDone(registered)
  /\ Ends(t, "failed")
  /\ UNCHANGED <<control, inventory, remote, faults>>

(* The Agent puts up its fence and removes the Peers behind it.            *)
fenceGeneration(t, a) ==
  agents' = [agents EXCEPT ![a].fence = thread[t].gen,
                           ![a].peers = {q \in @ : requests[q].gen > thread[t].gen}]

stopRunGeneration(t, a) ==
  /\ thread[t].pc = "stopPeers" /\ a \in thread[t].left
  /\ \/ /\ fenceGeneration(t, a)
        /\ Set(t, [thread[t] EXCEPT !.left = @ \ {a}, !.stopped = @ \cup {a}])
        /\ UNCHANGED faults
     \/ /\ Fault
        /\ \/ fenceGeneration(t, a)
           \/ UNCHANGED agents
        /\ Set(t, [thread[t] EXCEPT !.left = @ \ {a}, !.stopErr = TRUE])
  /\ UNCHANGED <<control, broken, inventory, requests>>

(* What the Agent of a Peer reports of it.  A stop is not undone.          *)
NodeStatus(q) ==
  IF requests[q].st # "made" \/ nodes[q] = "failed" THEN nodes[q]
  ELSE IF q \notin agents[requests[q].to].peers
  THEN IF nodes[q] = "none" THEN "none" ELSE "stopped"
  ELSE IF nodes[q] = "stopping" THEN "stopping" ELSE "ready"

generationStopped(t) ==
  /\ thread[t].pc = "stopPeers" /\ thread[t].left = {}
  /\ nodes' = [q \in Peers |->
       IF /\ nodes[q] \in {"starting", "ready"} /\ requests[q].gen <= thread[t].gen
          /\ requests[q].to \in thread[t].stopped
       THEN "stopping" ELSE nodes[q]]
  /\ Set(t, [thread[t] EXCEPT !.pc = "refresh"])
  /\ UNCHANGED <<control, broken, reserved, participants, remote, faults>>

refreshAgentState(t) ==
  /\ thread[t].pc = "refresh"
  /\ \/ /\ nodes' = [q \in Peers |-> NodeStatus(q)]
        /\ Ends(t, IF thread[t].stopErr THEN "failed" ELSE "none")
        /\ UNCHANGED faults
     \/ /\ Fault
        /\ Ends(t, "failed")
        /\ UNCHANGED nodes
  /\ UNCHANGED <<control, reserved, participants, remote>>

-----------------------------------------------------------------------------
(* The scheduler.                                                          *)

Start(phase) ==
  [IdleThread EXCEPT !.pc = "top", !.phase = phase, !.gen = run.gen]

Advances == run' = [run EXCEPT !.index = @ + 1]

Leaves(err) == run' = [run EXCEPT !.pc = "exit", !.err = err]

enterPhase ==
  /\ run.pc = "loop" /\ run.index <= Len(Phases)
  /\ LET p == Phases[run.index]
     IN CASE canceled ->
               Leaves("canceled") /\ UNCHANGED <<thread, registered>>
          [] ~canceled /\ ShouldAwait(p) ->
               /\ run' = [run EXCEPT !.pc = "phase"]
               /\ Set(Main, Start(run.index)) /\ UNCHANGED registered
          [] ~canceled /\ ~ShouldAwait(p) /\ p.job \notin registered ->
               /\ registered' = registered \cup {p.job}
               /\ Set(p.job, Start(run.index)) /\ Advances
          [] OTHER ->
               Leaves("duplicate") /\ UNCHANGED <<thread, registered>>
  /\ UNCHANGED <<plan, canceled, stopRequested, asyncErr, broken, inventory, remote, faults>>

(* stop-all opens the next generation.                                     *)
phaseReturns ==
  /\ run.pc = "phase" /\ thread[Main].pc = "returned"
  /\ LET err == thread[Main].err
     IN run' = IF err # "none" THEN [run EXCEPT !.pc = "exit", !.err = err]
               ELSE [run EXCEPT !.pc = "loop", !.index = @ + 1,
                                !.gen = IF Phase(Main).action = "stop-all" THEN @ + 1 ELSE @]
  /\ Set(Main, IdleThread)
  /\ UNCHANGED <<plan, registered, canceled, stopRequested, asyncErr, broken, inventory, remote, faults>>

(* jobs.wait for all.                                                      *)
drains ==
  /\ run.pc = "loop" /\ run.index > Len(Phases)
  /\ \/ (plan.onExit = "cancel" \/ registered = {}) /\ Leaves("none")
     \/ /\ plan.onExit = "drain" /\ registered # {}
        /\ \/ \E err \in JobErrors(registered) : Leaves(err)
           \/ AllDone(registered) /\ JobErrors(registered) = {} /\ Leaves("none")
           \/ canceled /\ Leaves("canceled")
  /\ UNCHANGED <<plan, registered, canceled, stopRequested, asyncErr, thread, broken, inventory, remote, faults>>

exitScenario ==
  /\ run.pc = "exit"
  /\ canceled' = TRUE
  /\ IF run.err # "none" \/ plan.onExit = "cancel"
     THEN thread' = cancelAll /\ run' = [run EXCEPT !.pc = "stopJobs"]
     ELSE run' = [run EXCEPT !.pc = "sample"] /\ UNCHANGED thread
  /\ UNCHANGED <<plan, registered, stopRequested, asyncErr, broken, inventory, remote, faults>>

backgroundStopped ==
  /\ run.pc = "stopJobs"
  /\ \/ AllDone(registered) /\ run' = [run EXCEPT !.pc = "sample"]
     \/ ~AllDone(registered) /\ run' = [run EXCEPT !.pc = "sample", !.cleanupErr = TRUE]
  /\ UNCHANGED <<plan, registered, canceled, stopRequested, asyncErr, thread, broken, inventory, remote, faults>>

sampleFailures ==
  /\ run.pc = "sample"
  /\ run' = [run EXCEPT !.pc = "retire", !.background = asyncErr]
  /\ UNCHANGED <<plan, registered, canceled, stopRequested, asyncErr, thread, broken, inventory, remote, faults>>

(* A stop wins; a background failure explains a cancellation.              *)
retireHandle ==
  /\ run.pc = "retire"
  /\ run' = [run EXCEPT !.pc = "ended",
                        !.err = IF stopRequested THEN "canceled"
                                ELSE IF run.background /\ @ \in {"none", "canceled"} THEN "failed"
                                ELSE @]
  /\ UNCHANGED <<plan, registered, canceled, stopRequested, asyncErr, thread, broken, inventory, remote, faults>>

-----------------------------------------------------------------------------
(* The environment.                                                        *)

StopScenario ==
  /\ run.pc # "ended" /\ ~stopRequested
  /\ stopRequested' = TRUE /\ canceled' = TRUE
  /\ UNCHANGED <<plan, run, registered, asyncErr, thread, broken, inventory, remote, faults>>

(* The heartbeat that reports the override of a capacity.                  *)
capacityReported(a) ==
  /\ agents[a].reported # agents[a].capacity
  /\ agents' = [agents EXCEPT ![a].reported = agents[a].capacity]
  /\ UNCHANGED <<control, thread, broken, inventory, requests, faults>>

heartbeat(q) ==
  /\ NodeStatus(q) # nodes[q]
  /\ nodes' = [nodes EXCEPT ![q] = NodeStatus(q)]
  /\ UNCHANGED <<control, thread, broken, reserved, participants, remote, faults>>

peerFails(q) ==
  /\ requests[q].st = "made" /\ q \in agents[requests[q].to].peers
  /\ nodes[q] \in {"starting", "ready"}
  /\ Fault
  /\ AgentStops(q)
  /\ nodes' = [nodes EXCEPT ![q] = "failed"]
  /\ UNCHANGED <<control, thread, broken, reserved, participants, requests>>

Operation(t, q) ==
  \/ dispatch(t, q) \/ acquireAgent(t, q) \/ sendCreate(t, q)
  \/ createAnswered(t, q) \/ createAbandoned(t, q) \/ backsOff(t, q)
  \/ publishes(t, q) \/ leaves(t, q) \/ callFails(t, q)

Thread(t) ==
  \/ phaseRepeated(t) \/ rests(t) \/ runJoin(t) \/ selectBatchAgent(t)
  \/ runPublish(t) \/ runLeave(t) \/ waitsForJobs(t) \/ jobWaitReturns(t)
  \/ waitReady(t) \/ phaseTimesOut(t) \/ runOperations(t)
  \/ stopAll(t) \/ resetJobs(t) \/ jobsDoNotStop(t) \/ generationStopped(t)
  \/ refreshAgentState(t)
  \/ \E a \in Agents : stopRunGeneration(t, a)
  \/ jobReturns(t) \/ jobCloses(t)
  \/ \E q \in Peers : Operation(t, q)

runScenario ==
  \/ enterPhase \/ phaseReturns \/ drains \/ exitScenario \/ backgroundStopped
  \/ sampleFailures \/ retireHandle

Environment ==
  \/ StopScenario
  \/ \E q \in Peers : agentCreates(q) \/ heartbeat(q) \/ peerFails(q)
  \/ \E a \in Agents : capacityReported(a)

Next == runScenario \/ (\E t \in Threads : Thread(t)) \/ Environment

(* Goroutines run; an Agent need not answer.                               *)
Spec ==
  /\ Init /\ [][Next]_vars
  /\ WF_vars(runScenario)
  /\ \A t \in 0 .. MaxJob : WF_vars(t \in Threads /\ Thread(t))

-----------------------------------------------------------------------------
(* Properties.                                                             *)

(* What is kept has the shape the source gives it.                         *)
TypeOK ==
  /\ run.gen \in Nat /\ run.index \in Nat
  /\ registered \subseteq JobNames
  /\ nodes \in [Peers -> {"none", "starting", "ready", "stopping", "stopped", "failed"}]
  /\ reserved \in [Peers -> Agents \cup {NoGoal}]
  /\ participants \subseteq Agents
  /\ \A a \in Agents : agents[a].peers \subseteq Peers

(* Validation and execution agree on the names of jobs: no phase of a      *)
(* valid scenario waits for a job phaseJobs does not know, or starts one   *)
(* it still has, whatever stop-all has reset and however often phases are  *)
(* repeated (scenario.go Validate, jobs.go selectJobs and startJob).       *)
NamesResolve ==
  /\ run.err \notin {"unknown", "duplicate"}
  /\ \A t \in Threads : thread[t].err \notin {"unknown", "duplicate"}

(* A failure that no phase tolerates is in the result of the run, whatever *)
(* is canceled because of it and in whichever order the jobs come to rest; *)
(* and a run nobody stopped does not end as canceled (runner.go,           *)
(* recordAsyncFailure, runOperations and the end of runScenario).          *)
ResultsTellFailures ==
  run.pc = "ended" =>
    /\ broken => run.err = "failed" \/ run.cleanupErr \/ stopRequested
    /\ run.err = "canceled" => stopRequested

(* Once a stop-all is over, nothing of an earlier generation is at work:   *)
(* no job, no operation, and no Peer on any Agent, even from a create that *)
(* was still on its way (jobs.go reset, runner.go stopRunGeneration).      *)
EarlierGenerationsAreGone ==
  /\ \A t \in Threads : thread[t].pc \notin {"idle", "done"} => thread[t].gen = run.gen
  /\ \A a \in Agents : \A q \in agents[a].peers : requests[q].gen >= run.gen

(* A failure, or a stop, ends the run: no worker, dispatcher or wait is    *)
(* left behind waiting for another, even if no Agent answers any more.     *)
FailedRunsEnd == (broken \/ stopRequested) ~> run.pc = "ended"
=============================================================================
