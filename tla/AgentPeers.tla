----------------------------- MODULE AgentPeers -----------------------------
(***************************************************************************)
(* The Peer processes of one K-P2PLab Agent (internal/agent): admission of *)
(* a create request, the goroutine that drives Docker for each Peer, stop  *)
(* requests for one Peer, for a run generation and for the whole Agent,    *)
(* retries of failed container removals, shutdown, crash and the           *)
(* reconciliation of left-over containers at the next start.               *)
(*                                                                         *)
(* One action is one critical section of Server.mu, or one Docker command. *)
(* Every action of a goroutine may interleave with every other one.  The   *)
(* Docker daemon is external: a command may fail, and a command that was   *)
(* reported as failed may have taken effect, or may still take effect.     *)
(***************************************************************************)
EXTENDS Naturals, FiniteSets

CONSTANTS
  Nodes,          \* Peer (node) IDs; the Controller never reuses one
  Runs,           \* experiment run IDs
  MaxGeneration,  \* stands for the largest uint64, the fence of a full stop
  Capacities,     \* capacities the CLI or the Controller may configure
  Mortal,         \* nodes whose create request carries a lifetime
  Requests,       \* concurrent stop requests served by the HTTP API
  MaxFailures     \* bound: how often the removal of one container fails

ASSUME GenerationAssumption == MaxGeneration \in Nat \ {0}
ASSUME CapacityAssumption   == Capacities \subseteq Nat \ {0}
ASSUME FailuresAssumption   == MaxFailures \in Nat
ASSUME NodesAssumption      == IsFiniteSet(Nodes)

VARIABLES
  up,            \* "down", "reconciling" (startup cleanup) or "up"
  shuttingDown,  \* Server.shuttingDown
  capacity,      \* Server.capacityLocked()
  runFences,     \* Server.runFences; 0 stands for no entry
  processes,     \* Server.processes
  requests,      \* progress of each stop handler
  containers,    \* Docker: the container of each node
  lateCreates,   \* Docker: creates whose CLI gave up and that may still commit
  leftovers,     \* containers startup reconciliation has still to remove
  used,          \* node IDs that were ever admitted
  terminations,  \* measurement_terminated markers this instance queued per node
  \* Observations about the answers the Agent gave, for the properties only.
  acknowledged,  \* <<run, generation>> pairs a successful answer declared stopped
  cleanExit,     \* whether the last Agent exit was a shutdown without error
  peak           \* largest capacity since this instance started

vars == <<up, shuttingDown, capacity, runFences, processes, requests, containers,
          lateCreates, leftovers, used, terminations, acknowledged, cleanExit, peak>>

Generations == 1 .. MaxGeneration

States  == {"starting", "ready", "stopping", "stopped", "failed"}
Ended   == {"stopped", "failed"}
Closing == {"stopping", "stopped", "failed"}

(* Where the goroutine of a process stands.                                *)
Removing == {"discard", "remove", "retry"}
Steps    == {"config", "admission", "startup", "wait", "idle"} \cup Removing

NoProcess ==
  [present |-> FALSE, run |-> "none", gen |-> 0, state |-> "stopped", pc |-> "idle",
   exited |-> TRUE, cleanupErr |-> FALSE, containerID |-> FALSE, apiURL |-> FALSE,
   canceled |-> TRUE, runErr |-> FALSE, admitted |-> FALSE,
   attempt |-> 0]

NoRequest ==
  [phase |-> "idle", kind |-> "none", closes |-> {}, todo |-> {}, pending |-> {},
   failed |-> FALSE]

-----------------------------------------------------------------------------
(* A slot is occupied from admission until its container is confirmed gone. *)
Occupied(p) == p.present /\ (~p.exited \/ p.cleanupErr)

(* Mutant: Peers that are being stopped no longer count.                   *)
capacityUsedByUnstopped ==
  Cardinality({n \in Nodes : Occupied(processes[n]) /\ processes[n].state \notin Closing})

capacityUsedLocked == Cardinality({n \in Nodes : Occupied(processes[n])})

processSuccessfullyStopped(p) ==
  p.present /\ p.exited /\ ~p.cleanupErr /\ p.state = "stopped"

Retryable(p) == p.cleanupErr /\ p.containerID

(* finishProcess, and the deferred proc.cancel of runDockerProcess.        *)
finishProcess(p, runErr, cleanupErr) ==
  LET state == IF ~cleanupErr /\ (p.state = "stopping" \/ ~runErr)
               THEN "stopped" ELSE "failed"
  IN [p EXCEPT !.exited = TRUE, !.cleanupErr = cleanupErr, !.state = state,
               !.apiURL = @ /\ state = "failed", !.canceled = TRUE, !.pc = "idle"]

(* Mutant: the exit marker is queued whatever became of the container.     *)
queueTerminationAlways(n, cleanupErr) ==
  terminations' = [terminations EXCEPT ![n] = @ + 1]

(* The exit marker is queued only when the container is known to be gone.  *)
queueTermination(n, cleanupErr) ==
  terminations' = [terminations EXCEPT ![n] = IF cleanupErr THEN @ ELSE @ + 1]

(* Mutant: the retry forgets the earlier failure when it starts.           *)
retryForgetsFailure(p) ==
  [p EXCEPT !.exited = FALSE, !.state = "stopping", !.pc = "retry",
            !.attempt = @ + 1, !.cleanupErr = FALSE]

retryContainerCleanupLocked(p) ==
  [p EXCEPT !.exited = FALSE, !.state = "stopping", !.pc = "retry",
            !.attempt = @ + 1]

(* Mutant: the state is set, the process context is not canceled.          *)
MarkWithoutCancel(p) == [p EXCEPT !.state = "stopping"]

MarkStopping(p) == [p EXCEPT !.state = "stopping", !.canceled = TRUE]

(* The effect of stopNode on an existing process.                          *)
stopNodeEffect(p) ==
  IF p.state \in Ended
  THEN IF Retryable(p) THEN retryContainerCleanupLocked(p) ELSE p
  ELSE MarkStopping(p)

(* The effect of stopRunGeneration on each process of the fenced run.      *)
stopRunEffect(p) ==
  IF p.exited
  THEN IF Retryable(p) THEN retryContainerCleanupLocked(p) ELSE p
  ELSE IF p.state \in Closing THEN p ELSE MarkStopping(p)

-----------------------------------------------------------------------------
Init ==
  /\ up = "up"
  /\ shuttingDown = FALSE
  /\ capacity \in Capacities
  /\ runFences = [r \in Runs |-> 0]
  /\ processes = [n \in Nodes |-> NoProcess]
  /\ requests = [w \in Requests |-> NoRequest]
  /\ containers = [n \in Nodes |-> "none"]
  /\ lateCreates = {}
  /\ leftovers = {}
  /\ used = {}
  /\ terminations = [n \in Nodes |-> 0]
  /\ acknowledged = {}
  /\ cleanExit = FALSE
  /\ peak = capacity

Observations == <<acknowledged, cleanExit, peak>>
Daemon       == <<containers, lateCreates>>
Admission    == <<shuttingDown, capacity, runFences>>

-----------------------------------------------------------------------------
(* Mutant: the generation of the fence itself is still admitted.           *)
createAtFence(n, r, g) ==
  /\ up = "up"
  /\ n \notin used
  /\ ~shuttingDown
  /\ g >= runFences[r]
  /\ ~processes[n].present
  /\ capacityUsedLocked < capacity
  /\ processes' = [processes EXCEPT ![n] =
       [NoProcess EXCEPT !.present = TRUE, !.run = r, !.gen = g, !.state = "starting",
                         !.pc = "config", !.exited = FALSE, !.canceled = FALSE,
                         !.attempt = 1]]
  /\ used' = used \cup {n}
  /\ UNCHANGED <<up, Admission, requests, Daemon, leftovers, terminations, Observations>>

(* createNode up to the point where the slot is reserved: the fence, the   *)
(* duplicate and the capacity checks and the insertion share one lock.     *)
createNode(n, r, g) ==
  /\ up = "up"
  /\ n \notin used
  /\ ~shuttingDown
  /\ g > runFences[r]
  /\ ~processes[n].present
  /\ capacityUsedLocked < capacity
  /\ processes' = [processes EXCEPT ![n] =
       [NoProcess EXCEPT !.present = TRUE, !.run = r, !.gen = g, !.state = "starting",
                         !.pc = "config", !.exited = FALSE, !.canceled = FALSE,
                         !.attempt = 1]]
  /\ used' = used \cup {n}
  /\ UNCHANGED <<up, Admission, requests, Daemon, leftovers, terminations, Observations>>

(* Otherwise the create is refused and nothing changes.                    *)
createRefused(n, r, g) ==
  /\ up = "up"
  /\ shuttingDown \/ g <= runFences[r] \/ processes[n].present
       \/ capacityUsedLocked >= capacity
  /\ UNCHANGED vars

(* The rest of createNode writes the configuration without the lock, then  *)
(* createWithAdmission prepares the docker create command.  Both look at   *)
(* the process context and end the process if they fail.                   *)
writePeerConfig(n, ok) ==
  /\ processes[n].pc = "config"
  /\ IF ok /\ ~processes[n].canceled
     THEN /\ processes' = [processes EXCEPT ![n].pc = "admission"]
          /\ UNCHANGED terminations
     ELSE /\ processes' = [processes EXCEPT ![n] = finishProcess(@, TRUE, FALSE)]
          /\ queueTermination(n, FALSE)
  /\ UNCHANGED <<up, Admission, requests, Daemon, leftovers, used, Observations>>

(* docker create returned an ID.  It ignores cancellation while in flight; *)
(* the caller's context is looked at afterwards.                           *)
dockerCreateSucceeds(n) ==
  /\ processes[n].pc = "admission"
  /\ containers' = [containers EXCEPT ![n] = "created"]
  /\ processes' = [processes EXCEPT ![n] =
       IF @.canceled THEN [@ EXCEPT !.pc = "discard"]
       ELSE [@ EXCEPT !.pc = "startup", !.admitted = TRUE]]
  /\ UNCHANGED <<up, Admission, requests, lateCreates, leftovers, used, terminations,
                 Observations>>

(* docker create failed or hit its deadline: nothing was created, or it    *)
(* was but the ID is not known, or the daemon will commit it later.        *)
dockerCreateFails(n, created, late) ==
  /\ processes[n].pc = "admission"
  /\ ~(created /\ late)
  /\ containers' = IF created THEN [containers EXCEPT ![n] = "created"] ELSE containers
  /\ lateCreates' = IF late THEN lateCreates \cup {n} ELSE lateCreates
  /\ processes' = [processes EXCEPT ![n].pc = "discard"]
  /\ UNCHANGED <<up, Admission, requests, leftovers, used, terminations, Observations>>

daemonCommitsLate(n) ==
  /\ n \in lateCreates
  /\ lateCreates' = lateCreates \ {n}
  /\ containers' = [containers EXCEPT ![n] = "created"]
  /\ UNCHANGED <<up, Admission, processes, requests, leftovers, used, terminations,
                 Observations>>

(* docker cp and docker start.  A start whose CLI was canceled may still   *)
(* take effect, as long as the container is there.                         *)
dockerStart(n) ==
  /\ Occupied(processes[n])
  /\ processes[n].admitted
  /\ containers[n] = "created"
  /\ containers' = [containers EXCEPT ![n] = "running"]
  /\ UNCHANGED <<up, Admission, processes, requests, lateCreates, leftovers, used,
                 terminations, Observations>>

startupFails(n) ==
  /\ processes[n].pc = "startup"
  /\ processes' = [processes EXCEPT ![n].pc = "discard"]
  /\ UNCHANGED <<up, Admission, requests, Daemon, leftovers, used, terminations,
                 Observations>>

(* docker inspect found the address: runDockerProcess records the ID.      *)
containerReady(n) ==
  /\ processes[n].pc = "startup"
  /\ containers[n] \in {"running", "exited"}
  /\ ~processes[n].canceled
  /\ processes' = [processes EXCEPT ![n] =
       [@ EXCEPT !.pc = "wait", !.containerID = TRUE, !.apiURL = TRUE]]
  /\ UNCHANGED <<up, Admission, requests, Daemon, leftovers, used, terminations,
                 Observations>>

(* Mutant: only the end of the process makes a status report too late.     *)
updateNodeUntilExit(n) ==
  /\ up = "up"
  /\ processes[n].present
  /\ processes[n].admitted
  /\ ~processes[n].exited
  /\ processes[n].apiURL
  /\ processes' = [processes EXCEPT ![n].state = "ready"]
  /\ UNCHANGED <<up, Admission, requests, Daemon, leftovers, used, terminations,
                 Observations>>

(* A status report of the Peer arrives, possibly long after it was sent.   *)
updateNode(n) ==
  /\ up = "up"
  /\ processes[n].present
  /\ processes[n].admitted
  /\ ~processes[n].exited
  /\ processes[n].state \notin Closing
  /\ processes[n].apiURL
  /\ processes' = [processes EXCEPT ![n].state = "ready"]
  /\ UNCHANGED <<up, Admission, requests, Daemon, leftovers, used, terminations,
                 Observations>>

peerExits(n) ==
  /\ containers[n] = "running"
  /\ containers' = [containers EXCEPT ![n] = "exited"]
  /\ UNCHANGED <<up, Admission, processes, requests, lateCreates, leftovers, used,
                 terminations, Observations>>



(* docker wait returns: the Peer exited, the context was canceled, or the  *)
(* command itself failed.  The container is removed in every case.         *)
waitReturns(n, runErr) ==
  /\ processes[n].pc = "wait"
  /\ ~runErr => containers[n] = "exited"
  /\ processes' = [processes EXCEPT ![n] = [@ EXCEPT !.pc = "remove", !.runErr = runErr]]
  /\ UNCHANGED <<up, Admission, requests, Daemon, leftovers, used, terminations,
                 Observations>>

(* Mutant: a failed startup does not keep the target of its failed removal. *)
removeWithoutTarget(n, cleanupErr, gone) ==
  /\ processes[n].pc \in Removing
  /\ cleanupErr \/ gone
  /\ cleanupErr => processes[n].attempt <= MaxFailures
  /\ containers' = IF gone THEN [containers EXCEPT ![n] = "none"] ELSE containers
  /\ processes' = [processes EXCEPT ![n] = finishProcess(@, @.pc = "discard", cleanupErr)]
  /\ queueTermination(n, cleanupErr)
  /\ UNCHANGED <<up, Admission, requests, lateCreates, leftovers, used, Observations>>

(* docker rm --force, then finishProcess.  A command reported as failed    *)
(* may have removed the container.                                         *)
removeAndFinish(n, cleanupErr, gone) ==
  LET p == processes[n]
      runErr == CASE p.pc = "discard" -> TRUE
                  [] p.pc = "remove"  -> p.runErr
                  [] OTHER            -> FALSE
  IN
  /\ p.pc \in Removing
  /\ cleanupErr \/ gone
  /\ cleanupErr => p.attempt <= MaxFailures
  /\ containers' = IF gone THEN [containers EXCEPT ![n] = "none"] ELSE containers
  /\ processes' = [processes EXCEPT ![n] =
       [finishProcess(p, runErr, cleanupErr) EXCEPT
          !.containerID = p.containerID \/ (p.pc = "discard" /\ cleanupErr)]]
  /\ queueTermination(n, cleanupErr)
  /\ UNCHANGED <<up, Admission, requests, lateCreates, leftovers, used, Observations>>

-----------------------------------------------------------------------------
(* DELETE /nodes/{id}, and the same call made by a Peer's lifetime timer.  *)
stopNode(n) ==
  /\ up = "up"
  /\ processes[n].present
  /\ processes' = [processes EXCEPT ![n] = stopNodeEffect(@)]
  /\ UNCHANGED <<up, Admission, requests, Daemon, leftovers, used, terminations,
                 Observations>>

lifetimeExpires(n) ==
  /\ n \in Mortal
  /\ processes[n].admitted
  /\ ~processes[n].canceled
  /\ stopNode(n)

(* Mutant: the fence is one past the generation to be stopped.             *)
stopRunGenerationPast(w, r, g) ==
  /\ up = "up"
  /\ requests[w].phase = "idle"
  /\ runFences' = [runFences EXCEPT ![r] = IF g > @ THEN g + 1 ELSE @]
  /\ requests' = [requests EXCEPT ![w] =
       [NoRequest EXCEPT !.phase = "collect", !.kind = "run", !.closes = {<<r, g>>}]]
  /\ UNCHANGED <<up, shuttingDown, capacity, processes, Daemon, leftovers, used,
                 terminations, Observations>>

(* DELETE /runs/{run}/nodes?generation=g: fence first, then mark.          *)
stopRunGeneration(w, r, g) ==
  LET fence == IF g > runFences[r] THEN g ELSE runFences[r]
      Hit(n) == processes[n].present /\ processes[n].run = r /\ processes[n].gen <= fence
  IN
  /\ up = "up"
  /\ requests[w].phase = "idle"
  /\ runFences' = [runFences EXCEPT ![r] = fence]
  /\ processes' = [n \in Nodes |-> IF Hit(n) THEN stopRunEffect(processes[n])
                                             ELSE processes[n]]
  /\ requests' = [requests EXCEPT ![w] =
       [NoRequest EXCEPT !.phase = "collect", !.kind = "run", !.closes = {<<r, g>>}]]
  /\ UNCHANGED <<up, shuttingDown, capacity, Daemon, leftovers, used, terminations,
                 Observations>>

(* The process belongs to a generation the request is to close.            *)
Closes(q, p) == \E c \in q.closes : p.run = c[1] /\ p.gen <= c[2]

(* waitRunContainers takes the completion channel each process has now;    *)
(* waitStoppedContext takes the processes and re-reads their channels.     *)
collectPending(w) ==
  LET q == requests[w]
      Member(n) == processes[n].present /\ (q.kind = "run" => Closes(q, processes[n]))
  IN
  /\ q.phase = "collect"
  /\ requests' = [requests EXCEPT ![w] =
       [@ EXCEPT !.phase = "wait",
                 !.pending = {<<n, processes[n].attempt>> : n \in {m \in Nodes : Member(m)}}]]
  /\ UNCHANGED <<up, Admission, processes, Daemon, leftovers, used, terminations,
                 Observations>>

(* The done channel of attempt k is closed by finishProcess.               *)
DoneClosed(n, k) == processes[n].exited \/ processes[n].attempt > k

awaitContainer(w, n, k) ==
  /\ requests[w].phase = "wait"
  /\ <<n, k>> \in requests[w].pending
  /\ IF requests[w].kind = "run" THEN DoneClosed(n, k) ELSE processes[n].exited
  /\ requests' = [requests EXCEPT ![w] =
       [requests[w] EXCEPT !.pending = @ \ {<<n, k>>},
                           !.failed = @ \/ processes[n].cleanupErr]]
  /\ UNCHANGED <<up, Admission, processes, Daemon, leftovers, used, terminations,
                 Observations>>

answerRequest(w) ==
  /\ requests[w].phase = "wait"
  /\ requests[w].kind # "shutdown"
  /\ requests[w].pending = {}
  /\ requests' = [requests EXCEPT ![w] = NoRequest]
  /\ acknowledged' = IF requests[w].failed THEN acknowledged
                     ELSE acknowledged \cup requests[w].closes
  /\ UNCHANGED <<up, Admission, processes, Daemon, leftovers, used, terminations,
                 cleanExit, peak>>

(* Mutant: the handler waits without a deadline.                           *)
requestNeverTimesOut(w) == FALSE /\ UNCHANGED vars

(* The cleanup deadline, or a failed answer, ends a request without 202.   *)
requestTimesOut(w) ==
  /\ requests[w].phase = "wait"
  /\ requests[w].kind # "shutdown"
  /\ requests[w].pending # {}
  /\ requests' = [requests EXCEPT ![w] = NoRequest]
  /\ UNCHANGED <<up, Admission, processes, Daemon, leftovers, used, terminations,
                 Observations>>

(* DELETE /nodes closes every generation of the runs it finds.             *)
fenceAllRuns(w) ==
  LET found == {r \in Runs : \E n \in Nodes : processes[n].present /\ processes[n].run = r}
  IN
  /\ up = "up"
  /\ requests[w].phase = "idle"
  /\ runFences' = [r \in Runs |-> IF r \in found THEN MaxGeneration ELSE runFences[r]]
  /\ requests' = [requests EXCEPT ![w] =
       [NoRequest EXCEPT !.phase = "list", !.kind = "all",
                         !.closes = {<<r, MaxGeneration>> : r \in found}]]
  /\ UNCHANGED <<up, shuttingDown, capacity, processes, Daemon, leftovers, used,
                 terminations, Observations>>

(* Mutant: shutdown stops the Peers without closing admission.             *)
beginShutdownOpen(w) ==
  /\ up = "up"
  /\ ~shuttingDown
  /\ requests[w].phase = "idle"
  /\ requests' = [requests EXCEPT ![w] =
       [NoRequest EXCEPT !.phase = "list", !.kind = "shutdown"]]
  /\ UNCHANGED <<up, Admission, processes, Daemon, leftovers, used, terminations,
                 Observations>>

beginShutdown(w) ==
  /\ up = "up"
  /\ ~shuttingDown
  /\ requests[w].phase = "idle"
  /\ shuttingDown' = TRUE
  /\ requests' = [requests EXCEPT ![w] =
       [NoRequest EXCEPT !.phase = "list", !.kind = "shutdown"]]
  /\ UNCHANGED <<up, capacity, runFences, processes, Daemon, leftovers, used,
                 terminations, Observations>>

(* stopAll: the IDs are listed under the lock, then stopped one by one.    *)
stopAllList(w) ==
  /\ requests[w].phase = "list"
  /\ requests' = [requests EXCEPT ![w] =
       [@ EXCEPT !.phase = "stop", !.todo = {n \in Nodes : Occupied(processes[n])}]]
  /\ UNCHANGED <<up, Admission, processes, Daemon, leftovers, used, terminations,
                 Observations>>

stopAllNode(w, n) ==
  /\ requests[w].phase = "stop"
  /\ n \in requests[w].todo
  /\ requests' = [requests EXCEPT ![w].todo = @ \ {n}]
  /\ processes' = [processes EXCEPT ![n] = stopNodeEffect(@)]
  /\ UNCHANGED <<up, Admission, Daemon, leftovers, used, terminations, Observations>>

stopAllDone(w) ==
  /\ requests[w].phase = "stop"
  /\ requests[w].todo = {}
  /\ requests' = [requests EXCEPT ![w].phase = "collect"]
  /\ UNCHANGED <<up, Admission, processes, Daemon, leftovers, used, terminations,
                 Observations>>

(* X-KPL-Agent-Capacity in a register or heartbeat response.               *)
setCapacity(c) ==
  /\ up = "up"
  /\ capacity' = c
  /\ peak' = IF c > peak THEN c ELSE peak
  /\ UNCHANGED <<up, shuttingDown, runFences, processes, requests, Daemon, leftovers,
                 used, terminations, acknowledged, cleanExit>>

-----------------------------------------------------------------------------
(* The Agent process ends.  Containers survive it; a docker create it had  *)
(* in flight may still commit.                                             *)
AgentExits(clean) ==
  /\ up' = "down"
  /\ processes' = [n \in Nodes |-> NoProcess]
  /\ requests' = [w \in Requests |-> NoRequest]
  /\ runFences' = [r \in Runs |-> 0]
  /\ shuttingDown' = FALSE
  /\ lateCreates' = lateCreates \cup {n \in Nodes : processes[n].pc = "admission"}
  /\ leftovers' = {}
  /\ terminations' = [n \in Nodes |-> 0]
  /\ acknowledged' = {}
  /\ cleanExit' = clean
  /\ UNCHANGED <<capacity, containers, used, peak>>

crash == up # "down" /\ AgentExits(FALSE)

(* serve returns after waitStopped, which succeeded, failed or timed out.  *)
shutdownCompletes(w) ==
  /\ requests[w].phase = "wait"
  /\ requests[w].kind = "shutdown"
  /\ AgentExits(requests[w].pending = {} /\ ~requests[w].failed)

(* Mutant: docker ps lists only the containers that do not run.            *)
startIgnoringRunning ==
  /\ up = "down"
  /\ up' = "reconciling"
  /\ leftovers' = {n \in Nodes : containers[n] \in {"created", "exited"}}
  /\ capacity' \in Capacities
  /\ peak' = capacity'
  /\ cleanExit' = FALSE
  /\ UNCHANGED <<shuttingDown, runFences, processes, requests, Daemon, used,
                 terminations, acknowledged>>

(* serve: docker ps lists what the previous instance left.                 *)
startAgent ==
  /\ up = "down"
  /\ up' = "reconciling"
  /\ leftovers' = {n \in Nodes : containers[n] # "none"}
  /\ capacity' \in Capacities
  /\ peak' = capacity'
  /\ cleanExit' = FALSE
  /\ UNCHANGED <<shuttingDown, runFences, processes, requests, Daemon, used,
                 terminations, acknowledged>>

removeLeftover(n) ==
  /\ up = "reconciling"
  /\ n \in leftovers
  /\ leftovers' = leftovers \ {n}
  /\ containers' = [containers EXCEPT ![n] = "none"]
  /\ UNCHANGED <<up, Admission, processes, requests, lateCreates, used, terminations,
                 Observations>>

(* A failed removal makes serve return; the service manager restarts it.   *)
reconcileFails ==
  /\ up = "reconciling"
  /\ leftovers # {}
  /\ AgentExits(FALSE)

reconciled ==
  /\ up = "reconciling"
  /\ leftovers = {}
  /\ up' = "up"
  /\ UNCHANGED <<Admission, processes, requests, Daemon, leftovers, used, terminations,
                 Observations>>

-----------------------------------------------------------------------------
(* The goroutine of one process and the daemon's answers to it.            *)
ProcessStep(n) ==
  \/ \E ok \in BOOLEAN : writePeerConfig(n, ok)
  \/ dockerCreateSucceeds(n)
  \/ \E created, late \in BOOLEAN : dockerCreateFails(n, created, late)
  \/ dockerStart(n)
  \/ startupFails(n)
  \/ containerReady(n)
  \/ \E runErr \in BOOLEAN : waitReturns(n, runErr)
  \/ \E cleanupErr, gone \in BOOLEAN : removeAndFinish(n, cleanupErr, gone)

Environment(n) ==
  \/ \E r \in Runs, g \in Generations : createNode(n, r, g)
  \/ \E r \in Runs, g \in Generations : createRefused(n, r, g)
  \/ daemonCommitsLate(n)
  \/ updateNode(n)
  \/ peerExits(n)
  \/ stopNode(n)
  \/ lifetimeExpires(n)
  \/ removeLeftover(n)

(* The goroutine of one stop handler.                                      *)
RequestStep(w) ==
  \/ collectPending(w)
  \/ \E n \in Nodes, k \in 1 .. MaxFailures + 1 : awaitContainer(w, n, k)
  \/ answerRequest(w)
  \/ requestTimesOut(w)
  \/ stopAllList(w)
  \/ \E n \in Nodes : stopAllNode(w, n)
  \/ stopAllDone(w)
  \/ shutdownCompletes(w)

RequestArrives(w) ==
  \/ \E r \in Runs, g \in Generations : stopRunGeneration(w, r, g)
  \/ fenceAllRuns(w)
  \/ beginShutdown(w)

Next ==
  \/ \E n \in Nodes : ProcessStep(n) \/ Environment(n)
  \/ \E w \in Requests : RequestStep(w) \/ RequestArrives(w)
  \/ \E c \in Capacities : setCapacity(c)
  \/ crash
  \/ startAgent
  \/ reconcileFails
  \/ reconciled

Spec == Init /\ [][Next]_vars

(* Every Docker command has a deadline, except docker wait: that returns   *)
(* when the Peer has exited or the process context is canceled.            *)
ProcessProgress(n) ==
  /\ processes[n].pc = "wait" => processes[n].canceled \/ containers[n] = "exited"
  /\ ProcessStep(n)

(* The goroutines are scheduled, and every handler waits under a deadline. *)
Fairness ==
  /\ \A n \in Nodes : WF_vars(ProcessProgress(n))
  /\ \A w \in Requests : WF_vars(RequestStep(w))

FairSpec == Spec /\ Fairness

-----------------------------------------------------------------------------
Processes ==
  [present : BOOLEAN, run : Runs \cup {"none"}, gen : 0 .. MaxGeneration, state : States,
   pc : Steps, exited : BOOLEAN, cleanupErr : BOOLEAN, containerID : BOOLEAN,
   apiURL : BOOLEAN, canceled : BOOLEAN, runErr : BOOLEAN, admitted : BOOLEAN,
   attempt : Nat]

StopRequests ==
  [phase : {"idle", "list", "stop", "collect", "wait"},
   kind : {"none", "run", "all", "shutdown"},
   closes : SUBSET (Runs \X Generations), todo : SUBSET Nodes,
   pending : SUBSET (Nodes \X Nat), failed : BOOLEAN]

(* The values every variable of the Agent's peer table may have.           *)
TypeOK ==
  /\ up \in {"down", "reconciling", "up"}
  /\ shuttingDown \in BOOLEAN
  /\ capacity \in Nat
  /\ runFences \in [Runs -> 0 .. MaxGeneration]
  /\ processes \in [Nodes -> Processes]
  /\ requests \in [Requests -> StopRequests]
  /\ containers \in [Nodes -> {"none", "created", "running", "exited"}]
  /\ lateCreates \in SUBSET Nodes
  /\ leftovers \in SUBSET Nodes
  /\ used \in SUBSET Nodes
  /\ terminations \in [Nodes -> Nat]
  /\ acknowledged \in SUBSET (Runs \X Generations)
  /\ cleanExit \in BOOLEAN
  /\ peak \in Nat

(* Once a stop of a run generation was answered successfully, no Peer of   *)
(* that or an earlier generation runs or occupies a slot, and none appears *)
(* later: the "stop-all transaction boundary" of stopRunGeneration and     *)
(* waitRunContainers, whatever creates, retries and lifetimes overlap it.  *)
StoppedGenerationIsGone ==
  \A c \in acknowledged : \A n \in Nodes :
    (processes[n].present /\ processes[n].run = c[1] /\ processes[n].gen <= c[2])
      => ~Occupied(processes[n]) /\ containers[n] # "running"

(* While the Agent serves, every running container is charged to a slot:   *)
(* none runs on after its process was declared finished, and none of the   *)
(* previous instance's containers survived startup reconciliation.         *)
RunningPeersAreCharged ==
  up = "up" => \A n \in Nodes : containers[n] = "running" => Occupied(processes[n])

(* Never more containers run than the largest capacity in force since the  *)
(* Agent started (createNode's check and insertion are one lock section).  *)
CapacityIsRespected ==
  up = "up" => Cardinality({n \in Nodes : containers[n] = "running"}) <= peak

(* A failed removal keeps the container's ID, so that a later stop request *)
(* can retry it: otherwise its slot would be lost until the Agent restarts. *)
FailedCleanupIsRetryable ==
  \A n \in Nodes :
    processes[n].present /\ processes[n].cleanupErr => Retryable(processes[n])

(* Exactly one exit marker is queued for a Peer known to be gone, none for *)
(* one that may still be running, however often its removal was retried.   *)
OneTerminationPerPeer ==
  \A n \in Nodes : processes[n].present =>
    terminations[n] = IF Occupied(processes[n]) THEN 0 ELSE 1

(* A shutdown that reports no error leaves no Peer container running.      *)
CleanExitLeavesNoPeers ==
  up = "down" /\ cleanExit => \A n \in Nodes : containers[n] # "running"

(* A stop is final for the states the Agent reports: a late status report  *)
(* of the Peer never revives it, and a stopped node never changes again.   *)
StopIsFinal ==
  [][\A n \in Nodes : LET p == processes[n] q == processes'[n] IN
       p.present /\ q.present =>
         /\ p.state \in Closing => q.state \in Closing
         /\ processSuccessfullyStopped(p) => q = p]_vars

(* What the Controller may rely on: the peer table, with its goroutines,   *)
(* retries and answers, behaves like RunBarrier.  A Peer is live from its  *)
(* admission until its removal is confirmed.                               *)
LiveAs(n) ==
  IF Occupied(processes[n]) THEN <<processes[n].run, processes[n].gen>>
  ELSE IF containers[n] = "running" THEN <<"none", 0>> ELSE <<>>

Barrier == INSTANCE RunBarrier
             WITH live <- [n \in Nodes |-> LiveAs(n)], closed <- acknowledged

ImplementsRunBarrier == Barrier!BarrierSpec

(* A Peer that was asked to stop is removed, or its removal reported as    *)
(* failed, however its creation, its lifetime and other stops interleave.  *)
StopLeadsToExit ==
  \A n \in Nodes : processes[n].state = "stopping" ~> processes[n].exited

(* Every stop request is answered.                                         *)
RequestsAreAnswered ==
  \A w \in Requests : requests[w].phase # "idle" ~> requests[w].phase = "idle"
=============================================================================
