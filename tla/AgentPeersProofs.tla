-------------------------- MODULE AgentPeersProofs --------------------------
(***************************************************************************)
(* Proofs about AgentPeers: its type invariant; the invariants that make a *)
(* successful stop answer trustworthy; that a stop is final and that the   *)
(* configured capacity bounds the Peers that run; and that the peer table  *)
(* implements RunBarrier, which is all the Controller relies on.           *)
(***************************************************************************)
EXTENDS AgentPeers, FiniteSetTheorems, TLAPS

-----------------------------------------------------------------------------
(* What the process transformations preserve.                              *)

(* A node without a process and an idle request have the right fields.     *)
LEMMA NullRecordTypes ==
  NoProcess \in Processes /\ NoRequest \in StopRequests
BY GenerationAssumption DEF NoProcess, NoRequest, Processes, StopRequests, States, Steps,
                            Removing, Generations

(* finishProcess yields a process again.                                   *)
LEMMA FinishType ==
  ASSUME NEW p \in Processes, NEW runErr \in BOOLEAN, NEW cleanupErr \in BOOLEAN
  PROVE  finishProcess(p, runErr, cleanupErr) \in Processes
BY ZenonT(120) DEF finishProcess, Processes, States, Steps

(* So do a removal retry and the marking of a process that is to stop.     *)
LEMMA RetryType ==
  ASSUME NEW p \in Processes
  PROVE  retryContainerCleanupLocked(p) \in Processes
<1>1. p.attempt + 1 \in Nat
  BY DEF Processes
<1>2. "retry" \in Steps /\ "stopping" \in States
  BY DEF Steps, Removing, States
<1> QED
  BY <1>1, <1>2 DEF retryContainerCleanupLocked, Processes

(* Marking a process as stopping keeps it a process.                       *)
LEMMA MarkType ==
  ASSUME NEW p \in Processes
  PROVE  MarkStopping(p) \in Processes
BY DEF MarkStopping, Processes, States

(* So do stopNode and stopRunGeneration, whatever they find.               *)
LEMMA StopEffectTypes ==
  ASSUME NEW p \in Processes
  PROVE  stopNodeEffect(p) \in Processes /\ stopRunEffect(p) \in Processes
BY RetryType, MarkType DEF stopNodeEffect, stopRunEffect

(* A process whose goroutine moves on.                                     *)
LEMMA MoveTypes ==
  ASSUME NEW p \in Processes
  PROVE  /\ [p EXCEPT !.pc = "admission"] \in Processes
         /\ [p EXCEPT !.pc = "discard"] \in Processes
         /\ [p EXCEPT !.pc = "startup", !.admitted = TRUE] \in Processes
         /\ [p EXCEPT !.pc = "wait", !.containerID = TRUE, !.apiURL = TRUE] \in Processes
         /\ \A runErr \in BOOLEAN : [p EXCEPT !.pc = "remove", !.runErr = runErr] \in Processes
         /\ \A id \in BOOLEAN : [p EXCEPT !.containerID = id] \in Processes
         /\ [p EXCEPT !.state = "ready"] \in Processes
<1>1. {"admission", "discard", "startup", "wait", "remove"} \subseteq Steps /\ "ready" \in States
  BY DEF Steps, Removing, States
<1> QED
  BY <1>1 DEF Processes

-----------------------------------------------------------------------------
(* The type of the peer table is preserved by the goroutine of a process.  *)
LEMMA ProcessStepType ==
  ASSUME TypeOK, NEW n \in Nodes, ProcessStep(n)
  PROVE  TypeOK'
<1> USE DEF Admission, Daemon, Observations
<1> DEFINE p == processes[n]
<1>p. p \in Processes /\ processes \in [Nodes -> Processes]
  BY DEF TypeOK
<1>1. ASSUME NEW ok \in BOOLEAN, writePeerConfig(n, ok) PROVE TypeOK'
  <2>1. processes' \in [Nodes -> Processes]
    <3>1. CASE ok /\ ~p.canceled
      BY <1>p, <1>1, <3>1, MoveTypes DEF writePeerConfig
    <3>2. CASE ~(ok /\ ~p.canceled)
      <4>1. finishProcess(p, TRUE, FALSE) \in Processes
        BY <1>p, FinishType
      <4> QED BY <1>p, <1>1, <3>2, <4>1 DEF writePeerConfig
    <3> QED BY <3>1, <3>2
  <2>2. terminations' \in [Nodes -> Nat]
    <3>1. \/ terminations' = terminations
          \/ terminations' = [terminations EXCEPT ![n] = @ + 1]
      BY <1>1 DEF writePeerConfig, queueTermination
    <3> QED BY <3>1 DEF TypeOK
  <2> QED BY <1>1, <2>1, <2>2 DEF writePeerConfig, TypeOK
<1>2. ASSUME dockerCreateSucceeds(n) PROVE TypeOK'
  <2>1. processes' \in [Nodes -> Processes]
    BY <1>p, <1>2, MoveTypes DEF dockerCreateSucceeds
  <2> QED BY <1>2, <2>1 DEF dockerCreateSucceeds, TypeOK
<1>3. ASSUME NEW created \in BOOLEAN, NEW late \in BOOLEAN, dockerCreateFails(n, created, late)
      PROVE TypeOK'
  <2>1. processes' \in [Nodes -> Processes]
    BY <1>p, <1>3, MoveTypes DEF dockerCreateFails
  <2> QED BY <1>3, <2>1 DEF dockerCreateFails, TypeOK
<1>4. ASSUME dockerStart(n) PROVE TypeOK'
  BY <1>4 DEF dockerStart, TypeOK
<1>5. ASSUME startupFails(n) PROVE TypeOK'
  <2>1. processes' \in [Nodes -> Processes]
    BY <1>p, <1>5, MoveTypes DEF startupFails
  <2> QED BY <1>5, <2>1 DEF startupFails, TypeOK
<1>6. ASSUME containerReady(n) PROVE TypeOK'
  <2>1. processes' \in [Nodes -> Processes]
    BY <1>p, <1>6, MoveTypes DEF containerReady
  <2> QED BY <1>6, <2>1 DEF containerReady, TypeOK
<1>7. ASSUME NEW runErr \in BOOLEAN, waitReturns(n, runErr) PROVE TypeOK'
  <2>1. processes' \in [Nodes -> Processes]
    BY <1>p, <1>7, MoveTypes DEF waitReturns
  <2> QED BY <1>7, <2>1 DEF waitReturns, TypeOK
<1>8. ASSUME NEW cleanupErr \in BOOLEAN, NEW gone \in BOOLEAN,
             removeAndFinish(n, cleanupErr, gone)
      PROVE TypeOK'
  <2> DEFINE runErr == CASE p.pc = "discard" -> TRUE
                         [] p.pc = "remove"  -> p.runErr
                         [] OTHER            -> FALSE
             done == finishProcess(p, runErr, cleanupErr)
             id == p.containerID \/ (p.pc = "discard" /\ cleanupErr)
  <2>2. runErr \in BOOLEAN
    BY <1>p DEF Processes
  <2>3. done \in Processes
    BY <1>p, <2>2, FinishType
  <2>4. processes' = [processes EXCEPT ![n] = [done EXCEPT !.containerID = id]]
    BY <1>8 DEF removeAndFinish
  <2>5. processes' \in [Nodes -> Processes]
    <3> HIDE DEF done
    <3> id \in BOOLEAN
      BY <1>p DEF Processes
    <3> HIDE DEF id
    <3> QED BY <1>p, <2>3, <2>4, MoveTypes
  <2>6. /\ terminations' \in [Nodes -> Nat]
        /\ containers' \in [Nodes -> {"none", "created", "running", "exited"}]
    BY <1>8 DEF removeAndFinish, queueTermination, TypeOK
  <2> QED BY <1>8, <2>5, <2>6 DEF removeAndFinish, TypeOK
<1> QED
  BY <1>1, <1>2, <1>3, <1>4, <1>5, <1>6, <1>7, <1>8 DEF ProcessStep

(* ... by requests, Peers and the daemon,                                  *)
LEMMA EnvironmentType ==
  ASSUME TypeOK, NEW n \in Nodes, Environment(n)
  PROVE  TypeOK'
<1> USE DEF Admission, Daemon, Observations
<1> DEFINE p == processes[n]
<1>p. p \in Processes /\ processes \in [Nodes -> Processes]
  BY DEF TypeOK
<1>1. ASSUME NEW r \in Runs, NEW g \in Generations, createNode(n, r, g) PROVE TypeOK'
  <2> DEFINE q == [NoProcess EXCEPT
                     !.present = TRUE, !.run = r, !.gen = g, !.state = "starting",
                     !.pc = "config", !.exited = FALSE, !.canceled = FALSE, !.attempt = 1]
  <2>1. g \in 0 .. MaxGeneration
    BY GenerationAssumption DEF Generations
  <2>2. q \in Processes
    BY <2>1 DEF NoProcess, Processes, States, Steps
  <2>3. processes' = [processes EXCEPT ![n] = q]
    BY <1>1 DEF createNode
  <2> HIDE DEF q
  <2>4. processes' \in [Nodes -> Processes]
    BY <1>p, <2>2, <2>3
  <2> QED BY <1>1, <2>4 DEF createNode, TypeOK
<1>2. ASSUME NEW r \in Runs, NEW g \in Generations, createRefused(n, r, g) PROVE TypeOK'
  BY <1>2 DEF createRefused, vars, TypeOK
<1>3. ASSUME daemonCommitsLate(n) PROVE TypeOK'
  BY <1>3 DEF daemonCommitsLate, TypeOK
<1>4. ASSUME updateNode(n) PROVE TypeOK'
  <2>1. processes' \in [Nodes -> Processes]
    BY <1>p, <1>4, MoveTypes DEF updateNode
  <2> QED BY <1>4, <2>1 DEF updateNode, TypeOK
<1>5. ASSUME peerExits(n) PROVE TypeOK'
  BY <1>5 DEF peerExits, TypeOK
<1>6. ASSUME stopNode(n) PROVE TypeOK'
  <2>1. processes' \in [Nodes -> Processes]
    BY <1>p, <1>6, StopEffectTypes DEF stopNode
  <2> QED BY <1>6, <2>1 DEF stopNode, TypeOK
<1>7. ASSUME removeLeftover(n) PROVE TypeOK'
  BY <1>7 DEF removeLeftover, TypeOK
<1> QED
  BY <1>1, <1>2, <1>3, <1>4, <1>5, <1>6, <1>7 DEF Environment, lifetimeExpires

(* ... by the exit of the Agent,                                           *)
LEMMA AgentExitType ==
  ASSUME TypeOK, NEW clean \in BOOLEAN, AgentExits(clean)
  PROVE  TypeOK'
<1>1. processes' \in [Nodes -> Processes]
  BY NullRecordTypes DEF AgentExits
<1>2. requests' \in [Requests -> StopRequests]
  BY NullRecordTypes DEF AgentExits
<1>3. runFences' \in [Runs -> 0 .. MaxGeneration]
  BY GenerationAssumption DEF AgentExits
<1>4. terminations' \in [Nodes -> Nat]
  BY DEF AgentExits
<1> QED
  BY <1>1, <1>2, <1>3, <1>4 DEF AgentExits, TypeOK

(* ... and by the handlers of stop requests.                               *)
LEMMA RequestStepType ==
  ASSUME TypeOK, NEW w \in Requests, RequestStep(w)
  PROVE  TypeOK'
<1> USE DEF Admission, Daemon, Observations
<1> DEFINE q == requests[w]
<1>p. q \in StopRequests /\ requests \in [Requests -> StopRequests]
  BY DEF TypeOK
<1>f. /\ q.closes \in SUBSET (Runs \X Generations) /\ q.failed \in BOOLEAN
      /\ q.todo \in SUBSET Nodes /\ q.pending \in SUBSET (Nodes \X Nat)
  BY <1>p DEF StopRequests
<1>1. ASSUME collectPending(w) PROVE TypeOK'
  <2> DEFINE Member(n) == processes[n].present /\ (q.kind = "run" => Closes(q, processes[n]))
             pending == {<<n, processes[n].attempt>> : n \in {m \in Nodes : Member(m)}}
  <2>1. \A n \in Nodes : processes[n].attempt \in Nat
    BY DEF TypeOK, Processes
  <2>2. pending \in SUBSET (Nodes \X Nat)
    BY <2>1
  <2>3. requests' = [requests EXCEPT ![w] = [@ EXCEPT !.phase = "wait", !.pending = pending]]
    BY <1>1 DEF collectPending
  <2> HIDE DEF pending
  <2>4. [q EXCEPT !.phase = "wait", !.pending = pending] \in StopRequests
    BY <1>p, <2>2 DEF StopRequests
  <2>5. requests' \in [Requests -> StopRequests]
    BY <1>p, <2>3, <2>4
  <2> QED BY <1>1, <2>5 DEF collectPending, TypeOK
<1>2. ASSUME NEW n \in Nodes, NEW k \in 1 .. MaxFailures + 1, awaitContainer(w, n, k)
      PROVE TypeOK'
  <2> DEFINE next == [q EXCEPT !.pending = q.pending \ {<<n, k>>},
                               !.failed = q.failed \/ processes[n].cleanupErr]
  <2>1. processes[n].cleanupErr \in BOOLEAN
    BY DEF TypeOK, Processes
  <2>2. next \in StopRequests
    BY <1>p, <1>f, <2>1 DEF StopRequests
  <2>3. requests' = [requests EXCEPT ![w] = next]
    BY <1>2 DEF awaitContainer
  <2> HIDE DEF next
  <2>4. requests' \in [Requests -> StopRequests]
    BY <1>p, <2>2, <2>3
  <2> QED BY <1>2, <2>4 DEF awaitContainer, TypeOK
<1>3. ASSUME answerRequest(w) PROVE TypeOK'
  <2>1. requests' \in [Requests -> StopRequests]
    BY <1>p, <1>3, NullRecordTypes DEF answerRequest
  <2>2. acknowledged' \in SUBSET (Runs \X Generations)
    BY <1>f, <1>3 DEF answerRequest, TypeOK
  <2> QED BY <1>3, <2>1, <2>2 DEF answerRequest, TypeOK
<1>4. ASSUME requestTimesOut(w) PROVE TypeOK'
  <2>1. requests' \in [Requests -> StopRequests]
    BY <1>p, <1>4, NullRecordTypes DEF requestTimesOut
  <2> QED BY <1>4, <2>1 DEF requestTimesOut, TypeOK
<1>5. ASSUME stopAllList(w) PROVE TypeOK'
  <2> DEFINE todo == {n \in Nodes : Occupied(processes[n])}
  <2>1. requests' = [requests EXCEPT ![w] = [@ EXCEPT !.phase = "stop", !.todo = todo]]
    BY <1>5 DEF stopAllList
  <2>2. todo \in SUBSET Nodes
    OBVIOUS
  <2> HIDE DEF todo
  <2>3. [q EXCEPT !.phase = "stop", !.todo = todo] \in StopRequests
    BY <1>p, <2>2 DEF StopRequests
  <2>4. requests' \in [Requests -> StopRequests]
    BY <1>p, <2>1, <2>3
  <2> QED BY <1>5, <2>4 DEF stopAllList, TypeOK
<1>6. ASSUME NEW n \in Nodes, stopAllNode(w, n) PROVE TypeOK'
  <2>1. [q EXCEPT !.todo = @ \ {n}] \in StopRequests
    BY <1>p, <1>f DEF StopRequests
  <2>2. requests' \in [Requests -> StopRequests]
    BY <1>p, <1>6, <2>1 DEF stopAllNode
  <2>3. processes' \in [Nodes -> Processes]
    BY <1>6, StopEffectTypes DEF stopAllNode, TypeOK
  <2> QED BY <1>6, <2>2, <2>3 DEF stopAllNode, TypeOK
<1>7. ASSUME stopAllDone(w) PROVE TypeOK'
  <2>1. [q EXCEPT !.phase = "collect"] \in StopRequests
    BY <1>p DEF StopRequests
  <2>2. requests' \in [Requests -> StopRequests]
    BY <1>p, <1>7, <2>1 DEF stopAllDone
  <2> QED BY <1>7, <2>2 DEF stopAllDone, TypeOK
<1>8. ASSUME shutdownCompletes(w) PROVE TypeOK'
  BY <1>8, <1>f, AgentExitType DEF shutdownCompletes
<1> QED
  BY <1>1, <1>2, <1>3, <1>4, <1>5, <1>6, <1>7, <1>8 DEF RequestStep

(* The arrival of a stop request keeps the fences and requests well typed. *)
LEMMA RequestArrivesType ==
  ASSUME TypeOK, NEW w \in Requests, RequestArrives(w)
  PROVE  TypeOK'
<1> USE DEF Admission, Daemon, Observations
<1>p. requests \in [Requests -> StopRequests] /\ runFences \in [Runs -> 0 .. MaxGeneration]
  BY DEF TypeOK
<1>1. ASSUME NEW r \in Runs, NEW g \in Generations, stopRunGeneration(w, r, g) PROVE TypeOK'
  <2> DEFINE fence == IF g > runFences[r] THEN g ELSE runFences[r]
             Hit(n) == processes[n].present /\ processes[n].run = r /\ processes[n].gen <= fence
  <2>1. fence \in 0 .. MaxGeneration
    BY <1>p, GenerationAssumption DEF Generations
  <2>2. runFences' \in [Runs -> 0 .. MaxGeneration]
    BY <1>p, <1>1, <2>1 DEF stopRunGeneration
  <2>3. processes' = [n \in Nodes |-> IF Hit(n) THEN stopRunEffect(processes[n]) ELSE processes[n]]
    BY <1>1 DEF stopRunGeneration
  <2> HIDE DEF Hit
  <2>4. processes' \in [Nodes -> Processes]
    BY <2>3, StopEffectTypes DEF TypeOK
  <2>5. [NoRequest EXCEPT !.phase = "collect", !.kind = "run", !.closes = {<<r, g>>}]
          \in StopRequests
    <3> DEFINE closes == {<<r, g>>}
    <3>1. closes \in SUBSET (Runs \X Generations)
      OBVIOUS
    <3> HIDE DEF closes
    <3>2. [NoRequest EXCEPT !.phase = "collect", !.kind = "run", !.closes = closes]
            \in StopRequests
      BY <3>1 DEF NoRequest, StopRequests
    <3> QED BY <3>2 DEF closes
  <2>6. requests' \in [Requests -> StopRequests]
    BY <1>p, <1>1, <2>5 DEF stopRunGeneration
  <2> QED BY <1>1, <2>2, <2>4, <2>6 DEF stopRunGeneration, TypeOK
<1>2. ASSUME fenceAllRuns(w) PROVE TypeOK'
  <2> DEFINE found == {r \in Runs : \E n \in Nodes : processes[n].present /\ processes[n].run = r}
             all == {<<r, MaxGeneration>> : r \in found}
             q == [NoRequest EXCEPT !.phase = "list", !.kind = "all", !.closes = all]
  <2>1. runFences' \in [Runs -> 0 .. MaxGeneration]
    <3>1. runFences' = [r \in Runs |-> IF r \in found THEN MaxGeneration ELSE runFences[r]]
      BY <1>2 DEF fenceAllRuns
    <3> HIDE DEF found
    <3> QED BY <1>p, <3>1, GenerationAssumption
  <2>2. requests' = [requests EXCEPT ![w] = q]
    BY <1>2 DEF fenceAllRuns
  <2>3. all \subseteq Runs \X Generations
    BY GenerationAssumption DEF Generations
  <2>4. q \in StopRequests
    <3> HIDE DEF all
    <3> QED BY <2>3 DEF NoRequest, StopRequests
  <2>5. requests' \in [Requests -> StopRequests]
    <3> HIDE DEF q
    <3> QED BY <1>p, <2>2, <2>4
  <2> QED BY <1>2, <2>1, <2>5 DEF fenceAllRuns, TypeOK
<1>3. ASSUME beginShutdown(w) PROVE TypeOK'
  <2>1. [NoRequest EXCEPT !.phase = "list", !.kind = "shutdown"] \in StopRequests
    BY DEF NoRequest, StopRequests
  <2>2. requests' \in [Requests -> StopRequests]
    BY <1>p, <1>3, <2>1 DEF beginShutdown
  <2> QED BY <1>3, <2>2 DEF beginShutdown, TypeOK
<1> QED
  BY <1>1, <1>2, <1>3 DEF RequestArrives

(* The Agent starts well typed.                                            *)
LEMMA TypeInit == Init => TypeOK
<1> SUFFICES ASSUME Init PROVE TypeOK
  OBVIOUS
<1>1. /\ processes \in [Nodes -> Processes]
      /\ requests \in [Requests -> StopRequests]
  BY NullRecordTypes DEF Init
<1>2. capacity \in Nat /\ runFences \in [Runs -> 0 .. MaxGeneration]
  BY CapacityAssumption, GenerationAssumption DEF Init
<1> QED BY <1>1, <1>2 DEF Init, TypeOK

(* Every step keeps the types.                                             *)
LEMMA TypeStep == TypeOK /\ [Next]_vars => TypeOK'
<1> SUFFICES ASSUME TypeOK, [Next]_vars PROVE TypeOK'
  OBVIOUS
<1> USE DEF Admission, Daemon, Observations
<1>1. ASSUME NEW n \in Nodes, ProcessStep(n) \/ Environment(n) PROVE TypeOK'
  BY <1>1, ProcessStepType, EnvironmentType
<1>2. ASSUME NEW w \in Requests, RequestStep(w) \/ RequestArrives(w) PROVE TypeOK'
  BY <1>2, RequestStepType, RequestArrivesType
<1>3. ASSUME NEW c \in Capacities, setCapacity(c) PROVE TypeOK'
  BY <1>3, CapacityAssumption DEF setCapacity, TypeOK
<1>4. CASE crash \/ reconcileFails
  BY <1>4, AgentExitType DEF crash, reconcileFails
<1>5. CASE startAgent
  BY <1>5, CapacityAssumption DEF startAgent, TypeOK
<1>6. CASE reconciled
  BY <1>6 DEF reconciled, TypeOK
<1>7. CASE UNCHANGED vars
  BY <1>7 DEF vars, TypeOK
<1> QED
  BY <1>1, <1>2, <1>3, <1>4, <1>5, <1>6, <1>7 DEF Next

(* Every variable of the peer table keeps its type, for any number of      *)
(* nodes, runs, generations and concurrent stop requests.                  *)
THEOREM TypeCorrect == Spec => []TypeOK
BY TypeInit, TypeStep, PTL DEF Spec

-----------------------------------------------------------------------------
(***************************************************************************)
(* The inductive invariant.  It says, of each node, how the goroutine's    *)
(* position, the recorded failure, the container and the exit marker go    *)
(* together, and, of each stop request, that what it has still to confirm  *)
(* is either pending, or gone for good behind the fence.                   *)
(***************************************************************************)
NodeInv(n) ==
  LET p == processes[n] IN
  /\ p.present => up = "up" /\ n \in used
  /\ ~p.present => p.pc = "idle" /\ p.state \in Ended /\ ~p.cleanupErr /\ terminations[n] = 0
  /\ p.exited <=> p.pc = "idle"
  /\ p.cleanupErr => p.containerID
  /\ ~p.exited /\ ~p.cleanupErr => p.attempt <= 1
  /\ p.pc \in {"config", "admission"} => ~p.admitted /\ ~p.cleanupErr
  /\ p.pc \in {"wait", "remove", "retry"} => p.containerID
  /\ p.present => terminations[n] = IF Occupied(p) THEN 0 ELSE 1
  /\ containers[n] = "running" =>
       /\ up = "up" => Occupied(p) /\ p.admitted
       /\ up = "reconciling" => n \in leftovers
       /\ up = "down" => ~cleanExit
  /\ n \notin used => containers[n] # "running" /\ n \notin lateCreates

(* Nothing is served, and nothing was promised, while the Agent is down.   *)
ServingInv ==
  up # "up" => acknowledged = {} /\ \A w \in Requests : requests[w].phase = "idle"

(* What a request is to close, or closed, lies behind the fence.           *)
FenceInv ==
  /\ \A c \in acknowledged : c[2] <= runFences[c[1]]
  /\ \A w \in Requests : requests[w].phase # "idle" =>
       /\ \A c \in requests[w].closes : c[2] <= runFences[c[1]]
       /\ requests[w].kind = "shutdown" => shuttingDown

(* A node the answer of request q vouches for.                             *)
Covered(q, p) == p.present /\ (q.kind = "shutdown" \/ Closes(q, p))

WaitInv ==
  \A w \in Requests : requests[w].phase = "wait" =>
    \A n \in Nodes : Covered(requests[w], processes[n]) =>
      \/ \E k \in Nat : <<n, k>> \in requests[w].pending
      \/ requests[w].failed
      \/ ~Occupied(processes[n])

AckInv ==
  \A c \in acknowledged : \A n \in Nodes :
    (processes[n].present /\ processes[n].run = c[1] /\ processes[n].gen <= c[2])
      => ~Occupied(processes[n])

StopInv == ServingInv /\ FenceInv /\ WaitInv /\ AckInv

IInv == TypeOK /\ (\A n \in Nodes : NodeInv(n)) /\ StopInv

(* What finishProcess does to the fields the invariant is about.           *)
LEMMA FinishFacts ==
  ASSUME NEW p \in Processes, NEW runErr \in BOOLEAN, NEW cleanupErr \in BOOLEAN,
         NEW q, q = finishProcess(p, runErr, cleanupErr)
  PROVE  /\ q \in Processes
         /\ q.present = p.present /\ q.run = p.run /\ q.gen = p.gen
         /\ q.exited /\ q.pc = "idle" /\ (q.cleanupErr <=> cleanupErr)
         /\ q.containerID = p.containerID /\ q.admitted = p.admitted
         /\ q.attempt = p.attempt
<1>1. q \in Processes
  BY FinishType
<1> QED
  BY <1>1 DEF finishProcess, Processes

(* A stop request leaves a process what it is, or starts another removal   *)
(* of a container whose removal failed.                                    *)
Resumed(p, q) ==
  /\ q.present = p.present /\ q.run = p.run /\ q.gen = p.gen /\ q.admitted = p.admitted
  /\ q.cleanupErr = p.cleanupErr /\ q.containerID = p.containerID
  /\ \/ q.exited = p.exited /\ q.pc = p.pc /\ q.attempt = p.attempt
     \/ q.exited = FALSE /\ q.pc = "retry" /\ p.cleanupErr

(* stopNode and stopRunGeneration leave a process alone or resume it.      *)
LEMMA StopEffectFacts ==
  ASSUME NEW p \in Processes
  PROVE  Resumed(p, stopNodeEffect(p)) /\ Resumed(p, stopRunEffect(p))
<1>1. Resumed(p, p)
  BY DEF Resumed
<1>2. Resumed(p, MarkStopping(p))
  BY DEF Resumed, MarkStopping, Processes
<1>3. ASSUME Retryable(p) PROVE Resumed(p, retryContainerCleanupLocked(p))
  BY <1>3 DEF Resumed, retryContainerCleanupLocked, Processes, Retryable
<1> QED
  BY <1>1, <1>2, <1>3 DEF stopNodeEffect, stopRunEffect

(* A step that does not touch node m keeps its invariant.                  *)
LEMMA NodeFrame ==
  ASSUME NEW m \in Nodes, NodeInv(m), up' = up, cleanExit' = cleanExit,
         processes'[m] = processes[m], containers'[m] = containers[m],
         terminations'[m] = terminations[m], m \in leftovers => m \in leftovers',
         m \in used => m \in used', m \in lateCreates' => m \in lateCreates
  PROVE  NodeInv(m)'
BY DEF NodeInv, Occupied

(* A stop keeps the invariant of the node it hits.                         *)
LEMMA ResumedNode ==
  ASSUME TypeOK, NEW m \in Nodes, NodeInv(m), processes[m].present,
         Resumed(processes[m], processes'[m]),
         UNCHANGED <<up, cleanExit, containers, terminations, leftovers, used, lateCreates>>
  PROVE  NodeInv(m)'
BY DEF NodeInv, Occupied, Resumed, TypeOK, Processes

-----------------------------------------------------------------------------
(* A step of a Peer's goroutine keeps the invariant of every node.         *)
LEMMA ProcessStepNode ==
  ASSUME TypeOK, \A m \in Nodes : NodeInv(m), NEW n \in Nodes, ProcessStep(n)
  PROVE  \A m \in Nodes : NodeInv(m)'
<1> USE DEF Admission, Daemon, Observations
<1> DEFINE p == processes[n]
<1>p. /\ p \in Processes /\ processes \in [Nodes -> Processes]
      /\ containers \in [Nodes -> {"none", "created", "running", "exited"}]
      /\ terminations \in [Nodes -> Nat]
  BY DEF TypeOK
<1>b. /\ p.cleanupErr \in BOOLEAN /\ p.canceled \in BOOLEAN /\ p.attempt \in Nat
      /\ p.exited \in BOOLEAN /\ p.present \in BOOLEAN /\ p.admitted \in BOOLEAN
      /\ p.containerID \in BOOLEAN
  BY <1>p DEF Processes
<1>n. NodeInv(n)
  OBVIOUS
<1>o. ASSUME NEW m \in Nodes, m # n PROVE NodeInv(m)'
  <2>1. /\ processes'[m] = processes[m] /\ containers'[m] = containers[m]
        /\ terminations'[m] = terminations[m] /\ up' = up /\ cleanExit' = cleanExit
        /\ leftovers' = leftovers /\ used' = used /\ (m \in lateCreates' => m \in lateCreates)
    BY <1>p, <1>o DEF ProcessStep, writePeerConfig, queueTermination, dockerCreateSucceeds,
          dockerCreateFails, dockerStart, startupFails, containerReady, waitReturns,
          removeAndFinish
  <2> QED BY <1>o, <2>1, NodeFrame
<1>1. ASSUME NEW ok \in BOOLEAN, writePeerConfig(n, ok) PROVE NodeInv(n)'
  <2>1. CASE ok /\ ~p.canceled
    <3>1. /\ processes'[n] = [p EXCEPT !.pc = "admission"] /\ terminations' = terminations
          /\ p.pc = "config"
      BY <1>p, <1>1, <2>1 DEF writePeerConfig
    <3> QED BY <1>p, <1>n, <1>1, <3>1 DEF writePeerConfig, NodeInv, Occupied, Processes
  <2>2. CASE ~(ok /\ ~p.canceled)
    <3>1. /\ processes'[n] = finishProcess(p, TRUE, FALSE) /\ p.pc = "config"
          /\ terminations'[n] = terminations[n] + 1
          /\ UNCHANGED <<up, cleanExit, containers, leftovers, used, lateCreates>>
      BY <1>p, <1>1, <2>2 DEF writePeerConfig, queueTermination
    <3>2. /\ p.present /\ ~p.exited /\ ~p.cleanupErr /\ ~p.admitted /\ Occupied(p)
          /\ terminations[n] = 0 /\ up = "up" /\ containers[n] # "running"
      BY <1>n, <3>1 DEF NodeInv, Occupied
    <3>3. /\ processes'[n].present = p.present /\ processes'[n].exited
          /\ processes'[n].pc = "idle" /\ ~processes'[n].cleanupErr
      BY <1>p, <3>1, FinishFacts, ZenonT(120)
    <3>4. terminations'[n] = 1 /\ containers'[n] # "running" /\ n \in used /\ up' = "up"
      BY <1>n, <3>1, <3>2 DEF NodeInv
    <3> QED BY <3>1, <3>2, <3>3, <3>4 DEF NodeInv, Occupied
  <2> QED BY <2>1, <2>2
<1>2. ASSUME dockerCreateSucceeds(n) PROVE NodeInv(n)'
  <2>1. /\ \/ processes'[n] = [p EXCEPT !.pc = "discard"]
           \/ processes'[n] = [p EXCEPT !.pc = "startup", !.admitted = TRUE]
        /\ p.pc = "admission" /\ containers'[n] = "created"
        /\ UNCHANGED <<up, cleanExit, leftovers, used, terminations, lateCreates>>
    BY <1>p, <1>2 DEF dockerCreateSucceeds
  <2>2. /\ p.present /\ ~p.exited /\ ~p.cleanupErr /\ n \in used
        /\ terminations[n] = 0 /\ up = "up" /\ p.attempt <= 1
    BY <1>n, <2>1 DEF NodeInv, Occupied
  <2> DEFINE q == processes'[n]
  <2>3. /\ q.present /\ ~q.exited /\ ~q.cleanupErr /\ q.attempt = p.attempt
        /\ q.pc \in {"discard", "startup"}
    BY <1>p, <2>1, <2>2 DEF Processes
  <2> QED BY <2>1, <2>2, <2>3 DEF NodeInv, Occupied
<1>3. ASSUME NEW created \in BOOLEAN, NEW late \in BOOLEAN, dockerCreateFails(n, created, late)
      PROVE NodeInv(n)'
  <2>1. /\ processes'[n] = [p EXCEPT !.pc = "discard"] /\ p.pc = "admission"
        /\ containers'[n] \in {"created", containers[n]}
        /\ UNCHANGED <<up, cleanExit, leftovers, used, terminations>>
    BY <1>p, <1>3 DEF dockerCreateFails
  <2> QED BY <1>p, <1>n, <2>1 DEF NodeInv, Occupied, Processes
<1>4. ASSUME dockerStart(n) PROVE NodeInv(n)'
  <2>1. /\ Occupied(p) /\ p.admitted /\ containers'[n] = "running"
        /\ UNCHANGED <<up, cleanExit, leftovers, used, terminations, processes, lateCreates>>
    BY <1>p, <1>4 DEF dockerStart
  <2> QED BY <1>n, <2>1 DEF NodeInv, Occupied
<1>5. ASSUME startupFails(n) PROVE NodeInv(n)'
  <2>1. /\ processes'[n] = [p EXCEPT !.pc = "discard"] /\ p.pc = "startup"
        /\ UNCHANGED <<up, cleanExit, containers, leftovers, used, terminations, lateCreates>>
    BY <1>p, <1>5 DEF startupFails
  <2> QED BY <1>p, <1>n, <2>1 DEF NodeInv, Occupied, Processes
<1>6. ASSUME containerReady(n) PROVE NodeInv(n)'
  <2>1. /\ processes'[n] = [p EXCEPT !.pc = "wait", !.containerID = TRUE, !.apiURL = TRUE]
        /\ p.pc = "startup"
        /\ UNCHANGED <<up, cleanExit, containers, leftovers, used, terminations, lateCreates>>
    BY <1>p, <1>6 DEF containerReady
  <2> QED BY <1>p, <1>n, <2>1 DEF NodeInv, Occupied, Processes
<1>7. ASSUME NEW runErr \in BOOLEAN, waitReturns(n, runErr) PROVE NodeInv(n)'
  <2>1. /\ processes'[n] = [p EXCEPT !.pc = "remove", !.runErr = runErr] /\ p.pc = "wait"
        /\ UNCHANGED <<up, cleanExit, containers, leftovers, used, terminations, lateCreates>>
    BY <1>p, <1>7 DEF waitReturns
  <2> QED BY <1>p, <1>n, <2>1 DEF NodeInv, Occupied, Processes
<1>8. ASSUME NEW cleanupErr \in BOOLEAN, NEW gone \in BOOLEAN,
             removeAndFinish(n, cleanupErr, gone)
      PROVE NodeInv(n)'
  <2> DEFINE runErr == CASE p.pc = "discard" -> TRUE
                         [] p.pc = "remove"  -> p.runErr
                         [] OTHER            -> FALSE
             done == finishProcess(p, runErr, cleanupErr)
             id == p.containerID \/ (p.pc = "discard" /\ cleanupErr)
             q == processes'[n]
  <2>1. runErr \in BOOLEAN
    BY <1>p DEF Processes
  <2>2. done \in Processes
    BY <1>p, <2>1, FinishType
  <2>3. q = [done EXCEPT !.containerID = id]
    BY <1>p, <1>8 DEF removeAndFinish
  <2>4. /\ done.present = p.present /\ done.exited /\ done.pc = "idle"
        /\ (done.cleanupErr <=> cleanupErr) /\ done.admitted = p.admitted
    <3> HIDE DEF runErr
    <3> QED BY <1>p, <2>1, FinishFacts
  <2>5. /\ q.present = p.present /\ q.exited /\ q.pc = "idle"
        /\ (q.cleanupErr <=> cleanupErr) /\ q.admitted = p.admitted /\ q.containerID = id
    <3> HIDE DEF done, id
    <3> QED BY <2>2, <2>3, <2>4 DEF Processes
  <2>6. /\ p.pc \in {"discard", "remove", "retry"}
        /\ cleanupErr \/ gone
        /\ containers'[n] = IF gone THEN "none" ELSE containers[n]
        /\ terminations'[n] = IF cleanupErr THEN terminations[n] ELSE terminations[n] + 1
        /\ UNCHANGED <<up, cleanExit, leftovers, used, lateCreates>>
    BY <1>p, <1>8 DEF removeAndFinish, queueTermination, Removing
  <2>7. /\ p.present /\ ~p.exited /\ n \in used /\ up = "up" /\ terminations[n] = 0
        /\ containers[n] = "running" => p.admitted
    BY <1>n, <2>6 DEF NodeInv, Occupied
  <2>8. p.pc \in {"remove", "retry"} => p.containerID
    BY <1>n DEF NodeInv
  <2>9. cleanupErr => id
    BY <2>6, <2>8
  <2> HIDE DEF id
  <2> QED BY <2>5, <2>6, <2>7, <2>9 DEF NodeInv, Occupied
<1> QED
  BY <1>o, <1>1, <1>2, <1>3, <1>4, <1>5, <1>6, <1>7, <1>8 DEF ProcessStep

(* So do creates, Peers, the daemon and stops of a single node.            *)
LEMMA EnvironmentNode ==
  ASSUME TypeOK, \A m \in Nodes : NodeInv(m), NEW n \in Nodes, Environment(n)
  PROVE  \A m \in Nodes : NodeInv(m)'
<1> USE DEF Admission, Daemon, Observations
<1> DEFINE p == processes[n]
<1>p. /\ p \in Processes /\ processes \in [Nodes -> Processes]
      /\ containers \in [Nodes -> {"none", "created", "running", "exited"}]
      /\ terminations \in [Nodes -> Nat]
  BY DEF TypeOK
<1>n. NodeInv(n)
  OBVIOUS
<1>o. ASSUME NEW m \in Nodes, m # n PROVE NodeInv(m)'
  <2>1. /\ processes'[m] = processes[m] /\ containers'[m] = containers[m]
        /\ terminations'[m] = terminations[m] /\ up' = up /\ cleanExit' = cleanExit
        /\ (m \in leftovers => m \in leftovers') /\ (m \in used => m \in used')
        /\ (m \in lateCreates' => m \in lateCreates)
    BY <1>p, <1>o DEF Environment, createNode, createRefused, vars, daemonCommitsLate,
          updateNode, peerExits, stopNode, lifetimeExpires, removeLeftover
  <2> QED BY <1>o, <2>1, NodeFrame
<1>1. ASSUME NEW r \in Runs, NEW g \in Generations, createNode(n, r, g) PROVE NodeInv(n)'
  <2>1. processes'[n] = [NoProcess EXCEPT
          !.present = TRUE, !.run = r, !.gen = g, !.state = "starting", !.pc = "config",
          !.exited = FALSE, !.canceled = FALSE, !.attempt = 1]
    BY <1>p, <1>1 DEF createNode
  <2>2. /\ processes'[n].present /\ ~processes'[n].exited /\ processes'[n].pc = "config"
        /\ ~processes'[n].cleanupErr /\ ~processes'[n].admitted /\ processes'[n].attempt = 1
    BY <2>1 DEF NoProcess
  <2>3. /\ up' = "up" /\ n \in used' /\ ~p.present /\ n \notin used
        /\ UNCHANGED <<containers, terminations, lateCreates>>
    BY <1>1 DEF createNode
  <2>4. containers[n] # "running" /\ terminations[n] = 0
    BY <1>n, <2>3 DEF NodeInv
  <2> QED BY <2>2, <2>3, <2>4 DEF NodeInv, Occupied
<1>2. ASSUME NEW r \in Runs, NEW g \in Generations, createRefused(n, r, g) PROVE NodeInv(n)'
  BY <1>n, <1>2, NodeFrame DEF createRefused, vars
<1>3. ASSUME daemonCommitsLate(n) PROVE NodeInv(n)'
  <2>1. /\ n \in lateCreates /\ containers'[n] = "created" /\ n \notin lateCreates'
        /\ UNCHANGED <<up, cleanExit, leftovers, used, terminations, processes>>
    BY <1>p, <1>3 DEF daemonCommitsLate
  <2> QED BY <1>n, <2>1 DEF NodeInv, Occupied
<1>4. ASSUME updateNode(n) PROVE NodeInv(n)'
  <2>1. /\ processes'[n] = [p EXCEPT !.state = "ready"] /\ p.present
        /\ UNCHANGED <<up, cleanExit, containers, leftovers, used, terminations, lateCreates>>
    BY <1>p, <1>4 DEF updateNode
  <2> QED BY <1>p, <1>n, <2>1 DEF NodeInv, Occupied, Processes
<1>5. ASSUME peerExits(n) PROVE NodeInv(n)'
  <2>1. /\ containers[n] = "running" /\ containers'[n] = "exited"
        /\ UNCHANGED <<up, cleanExit, leftovers, used, terminations, processes, lateCreates>>
    BY <1>p, <1>5 DEF peerExits
  <2> QED BY <1>n, <2>1 DEF NodeInv, Occupied
<1>6. ASSUME stopNode(n) PROVE NodeInv(n)'
  <2>1. Resumed(p, processes'[n])
    BY <1>p, <1>6, StopEffectFacts DEF stopNode
  <2> QED BY <1>n, <1>6, <2>1, ResumedNode DEF stopNode
<1>7. ASSUME removeLeftover(n) PROVE NodeInv(n)'
  <2>1. /\ containers'[n] = "none"
        /\ UNCHANGED <<up, cleanExit, used, terminations, processes, lateCreates>>
    BY <1>p, <1>7 DEF removeLeftover
  <2> QED BY <1>n, <2>1 DEF NodeInv, Occupied
<1> QED
  BY <1>o, <1>1, <1>2, <1>3, <1>4, <1>5, <1>6, <1>7 DEF Environment, lifetimeExpires

(* So do the stop handlers.                                                *)
LEMMA RequestNode ==
  ASSUME TypeOK, \A m \in Nodes : NodeInv(m), NEW w \in Requests,
         RequestStep(w) \/ RequestArrives(w), ~shutdownCompletes(w)
  PROVE  \A m \in Nodes : NodeInv(m)'
<1> USE DEF Admission, Daemon, Observations
<1> SUFFICES ASSUME NEW m \in Nodes PROVE NodeInv(m)'
  OBVIOUS
<1>p. processes \in [Nodes -> Processes] /\ NodeInv(m) /\ processes[m] \in Processes
  BY DEF TypeOK
<1>u. UNCHANGED <<up, cleanExit, containers, terminations, leftovers, used, lateCreates>>
  BY DEF RequestStep, RequestArrives, collectPending, awaitContainer, answerRequest,
         requestTimesOut, stopAllList, stopAllNode, stopAllDone, stopRunGeneration,
         fenceAllRuns, beginShutdown
<1> DEFINE Effect == \/ processes'[m] = processes[m]
                     \/ processes'[m] = stopNodeEffect(processes[m])
                     \/ processes'[m] = stopRunEffect(processes[m]) /\ processes[m].present
<1>1. Effect
  <2>1. ASSUME NEW n \in Nodes, stopAllNode(w, n) PROVE Effect
    BY <1>p, <2>1 DEF stopAllNode
  <2>2. ASSUME NEW r \in Runs, NEW g \in Generations, stopRunGeneration(w, r, g) PROVE Effect
    BY <2>2 DEF stopRunGeneration
  <2>3. CASE ~(\E n \in Nodes : stopAllNode(w, n))
             /\ ~(\E r \in Runs, g \in Generations : stopRunGeneration(w, r, g))
    <3>1. processes' = processes
      BY <2>3 DEF RequestStep, RequestArrives, collectPending, awaitContainer, answerRequest,
                  requestTimesOut, stopAllList, stopAllDone, fenceAllRuns, beginShutdown
    <3> QED BY <3>1
  <2> QED BY <2>1, <2>2, <2>3
<1>2. CASE processes'[m] = processes[m]
  BY <1>p, <1>u, <1>2, NodeFrame
<1>3. CASE processes'[m] = stopNodeEffect(processes[m]) /\ processes[m].present
  BY <1>p, <1>u, <1>3, StopEffectFacts, ResumedNode
<1>4. CASE processes'[m] = stopRunEffect(processes[m]) /\ processes[m].present
  BY <1>p, <1>u, <1>4, StopEffectFacts, ResumedNode
<1>5. ~processes[m].present => stopNodeEffect(processes[m]) = processes[m]
  BY <1>p DEF NodeInv, stopNodeEffect, Retryable
<1> QED
  BY <1>1, <1>2, <1>3, <1>4, <1>5

(* The exit of the Agent.                                                  *)
LEMMA AgentExitNode ==
  ASSUME TypeOK, \A m \in Nodes : NodeInv(m), NEW clean \in BOOLEAN, AgentExits(clean),
         clean => \A m \in Nodes : containers[m] # "running"
  PROVE  \A m \in Nodes : NodeInv(m)'
<1> SUFFICES ASSUME NEW m \in Nodes PROVE NodeInv(m)'
  OBVIOUS
<1>1. /\ processes'[m] = NoProcess /\ up' = "down" /\ (cleanExit' <=> clean)
      /\ terminations'[m] = 0 /\ containers' = containers /\ used' = used
      /\ lateCreates' = lateCreates \cup {n \in Nodes : processes[n].pc = "admission"}
  BY DEF AgentExits
<1>2. m \notin used => containers[m] # "running" /\ m \notin lateCreates'
  BY <1>1 DEF NodeInv
<1> QED
  BY <1>1, <1>2 DEF NodeInv, NoProcess, Occupied, Ended

-----------------------------------------------------------------------------
(* A process keeps its run and generation, and a slot that was released is *)
(* never taken again by the same process.                                  *)
Released(p, q) ==
  /\ q.present = p.present
  /\ p.present => q.run = p.run /\ q.gen = p.gen /\ (Occupied(q) => Occupied(p))

(* A stop never takes a slot.                                              *)
LEMMA ResumedReleased ==
  ASSUME NEW p \in Processes, NEW q, Resumed(p, q)
  PROVE  Released(p, q)
BY DEF Resumed, Released, Occupied, Processes

(* A Peer's goroutine never takes a slot either: only createNode does.     *)
LEMMA ProcessStepReleased ==
  ASSUME TypeOK, NEW n \in Nodes, NodeInv(n), ProcessStep(n)
  PROVE  \A m \in Nodes : Released(processes[m], processes'[m])
<1> USE DEF Admission, Daemon, Observations
<1> SUFFICES ASSUME NEW m \in Nodes PROVE Released(processes[m], processes'[m])
  OBVIOUS
<1> DEFINE p == processes[n]
<1>p. p \in Processes /\ processes \in [Nodes -> Processes] /\ processes[m] \in Processes
  BY DEF TypeOK
<1>1. CASE m # n
  <2>1. processes'[m] = processes[m]
    BY <1>p, <1>1 DEF ProcessStep, writePeerConfig, dockerCreateSucceeds,
          dockerCreateFails, dockerStart, startupFails, containerReady, waitReturns,
          removeAndFinish
  <2> QED BY <2>1 DEF Released
<1>2. CASE dockerStart(n)
  BY <1>2 DEF dockerStart, Released
<1>3. CASE m = n /\ ~dockerStart(n)
  <2>1. p.pc # "idle"
    BY <1>3 DEF ProcessStep, writePeerConfig, dockerCreateSucceeds, dockerCreateFails,
          startupFails, containerReady, waitReturns, removeAndFinish, Removing
  <2>2. Occupied(p)
    BY <2>1 DEF NodeInv, Occupied
  <2> DEFINE Kept(q) == q.present = p.present /\ q.run = p.run /\ q.gen = p.gen
  <2>3. Kept(processes'[n])
    <3>1. ASSUME NEW ok \in BOOLEAN, writePeerConfig(n, ok) PROVE Kept(processes'[n])
      <4>1. \/ processes'[n] = [p EXCEPT !.pc = "admission"]
            \/ processes'[n] = finishProcess(p, TRUE, FALSE)
        BY <1>p, <3>1 DEF writePeerConfig
      <4>2. CASE processes'[n] = [p EXCEPT !.pc = "admission"]
        BY <1>p, <4>2 DEF Processes
      <4>3. CASE processes'[n] = finishProcess(p, TRUE, FALSE)
        <5>1. TRUE \in BOOLEAN /\ FALSE \in BOOLEAN
          OBVIOUS
        <5>2. finishProcess(p, TRUE, FALSE).present = p.present
          BY <1>p, <5>1, FinishFacts, ZenonT(120)
        <5>3. finishProcess(p, TRUE, FALSE).run = p.run
          BY <1>p, <5>1, FinishFacts, ZenonT(120)
        <5>4. finishProcess(p, TRUE, FALSE).gen = p.gen
          BY <1>p, <5>1, FinishFacts, ZenonT(120)
        <5> QED BY <4>3, <5>2, <5>3, <5>4
      <4> QED BY <4>1, <4>2, <4>3
    <3>2. ASSUME dockerCreateSucceeds(n) PROVE Kept(processes'[n])
      BY <1>p, <3>2 DEF dockerCreateSucceeds, Processes
    <3>3. ASSUME NEW c \in BOOLEAN, NEW l \in BOOLEAN, dockerCreateFails(n, c, l) PROVE Kept(processes'[n])
      BY <1>p, <3>3 DEF dockerCreateFails, Processes
    <3>4. ASSUME startupFails(n) PROVE Kept(processes'[n])
      BY <1>p, <3>4 DEF startupFails, Processes
    <3>5. ASSUME containerReady(n) PROVE Kept(processes'[n])
      BY <1>p, <3>5 DEF containerReady, Processes
    <3>6. ASSUME NEW runErr \in BOOLEAN, waitReturns(n, runErr) PROVE Kept(processes'[n])
      BY <1>p, <3>6 DEF waitReturns, Processes
    <3>7. ASSUME NEW cleanupErr \in BOOLEAN, NEW gone \in BOOLEAN,
                 removeAndFinish(n, cleanupErr, gone)
          PROVE Kept(processes'[n])
      <4> DEFINE runErr == CASE p.pc = "discard" -> TRUE
                             [] p.pc = "remove"  -> p.runErr
                             [] OTHER            -> FALSE
                 done == finishProcess(p, runErr, cleanupErr)
                 id == p.containerID \/ (p.pc = "discard" /\ cleanupErr)
      <4>1. runErr \in BOOLEAN
        BY <1>p DEF Processes
      <4>2. processes'[n] = [done EXCEPT !.containerID = id]
        BY <1>p, <3>7 DEF removeAndFinish
      <4> HIDE DEF runErr, id
      <4>3. /\ done \in Processes /\ done.present = p.present
            /\ done.run = p.run /\ done.gen = p.gen
        BY <1>p, <4>1, FinishFacts
      <4> HIDE DEF done
      <4> QED BY <4>2, <4>3 DEF Processes
    <3> QED
      BY <1>3, <3>1, <3>2, <3>3, <3>4, <3>5, <3>6, <3>7 DEF ProcessStep
  <2> QED BY <1>3, <2>2, <2>3 DEF Released
<1> QED
  BY <1>1, <1>2, <1>3

(* The stop invariant survives a step that only releases slots.            *)
LEMMA StopFrame ==
  ASSUME StopInv, UNCHANGED <<up, acknowledged, requests, runFences, shuttingDown>>,
         \A m \in Nodes : Released(processes[m], processes'[m])
  PROVE  StopInv'
<1>1. ServingInv' /\ FenceInv'
  BY DEF StopInv, ServingInv, FenceInv
<1>2. WaitInv'
  <2> SUFFICES ASSUME NEW w \in Requests, requests[w].phase = "wait", NEW n \in Nodes,
                      Covered(requests[w], processes'[n])
               PROVE  \/ \E k \in Nat : <<n, k>> \in requests[w].pending
                      \/ requests[w].failed
                      \/ ~Occupied(processes'[n])
    BY DEF WaitInv
  <2>1. Covered(requests[w], processes[n])
    BY DEF Released, Covered, Closes
  <2> QED BY <2>1 DEF StopInv, WaitInv, Released, Covered
<1>3. AckInv'
  BY DEF StopInv, AckInv, Released
<1> QED
  BY <1>1, <1>2, <1>3 DEF StopInv

(* A create that passed the fence is of no generation declared stopped.    *)
LEMMA CreateStop ==
  ASSUME TypeOK, StopInv, NEW n \in Nodes, NEW r \in Runs, NEW g \in Generations,
         createNode(n, r, g)
  PROVE  StopInv'
<1> USE DEF Admission, Daemon, Observations
<1>1. /\ processes'[n].run = r /\ processes'[n].gen = g /\ ~shuttingDown /\ g > runFences[r]
      /\ \A m \in Nodes : m # n => processes'[m] = processes[m]
      /\ UNCHANGED <<up, acknowledged, requests, runFences, shuttingDown>>
  BY DEF createNode, TypeOK, NoProcess
<1>2. runFences[r] \in Nat /\ g \in Nat
  BY DEF TypeOK, Generations
<1>3. ServingInv' /\ FenceInv'
  BY <1>1 DEF StopInv, ServingInv, FenceInv
<1>4. AckInv'
  <2> SUFFICES ASSUME NEW c \in acknowledged, NEW m \in Nodes, processes'[m].present,
                      processes'[m].run = c[1], processes'[m].gen <= c[2]
               PROVE  ~Occupied(processes'[m])
    BY <1>1 DEF AckInv
  <2>1. c[2] <= runFences[c[1]] /\ c[2] \in Nat
    BY DEF StopInv, FenceInv, TypeOK, Generations
  <2>2. m # n
    BY <1>1, <1>2, <2>1
  <2> QED BY <1>1, <2>2 DEF StopInv, AckInv
<1>5. WaitInv'
  <2> SUFFICES ASSUME NEW w \in Requests, requests[w].phase = "wait", NEW m \in Nodes,
                      Covered(requests[w], processes'[m])
               PROVE  \/ \E k \in Nat : <<m, k>> \in requests[w].pending
                      \/ requests[w].failed
                      \/ ~Occupied(processes'[m])
    BY <1>1 DEF WaitInv
  <2>1. requests[w].kind # "shutdown"
    BY <1>1 DEF StopInv, FenceInv
  <2>2. PICK c \in requests[w].closes : processes'[m].run = c[1] /\ processes'[m].gen <= c[2]
    BY <2>1 DEF Covered, Closes
  <2>3. c[2] <= runFences[c[1]] /\ c[2] \in Nat
    BY <2>2 DEF StopInv, FenceInv, TypeOK, StopRequests, Generations
  <2>4. m # n
    BY <1>1, <1>2, <2>2, <2>3
  <2> QED BY <1>1, <2>4 DEF StopInv, WaitInv
<1> QED
  BY <1>3, <1>4, <1>5 DEF StopInv

(* An Agent that exits forgets its fences and its answers together.        *)
LEMMA AgentExitStop ==
  ASSUME NEW clean, AgentExits(clean)
  PROVE  StopInv'
<1>1. acknowledged' = {} /\ \A w \in Requests : requests'[w].phase = "idle"
  BY DEF AgentExits, NoRequest
<1> QED
  BY <1>1 DEF StopInv, ServingInv, FenceInv, WaitInv, AckInv

(* A step of request w only has to answer for w itself.                    *)
LEMMA RequestFrame ==
  ASSUME TypeOK, StopInv, NEW w \in Requests, up' = up, acknowledged' = acknowledged,
         shuttingDown => shuttingDown', up = "up" \/ requests[w].phase # "idle",
         runFences' \in [Runs -> 0 .. MaxGeneration],
         \A r \in Runs : runFences[r] <= runFences'[r],
         \A v \in Requests : v # w => requests'[v] = requests[v],
         \A m \in Nodes : Released(processes[m], processes'[m]),
         requests'[w].phase # "idle" =>
           /\ \A c \in requests'[w].closes : c[2] <= runFences'[c[1]]
           /\ requests'[w].kind = "shutdown" => shuttingDown',
         requests'[w].phase = "wait" =>
           \A n \in Nodes : Covered(requests'[w], processes'[n]) =>
             \/ \E k \in Nat : <<n, k>> \in requests'[w].pending
             \/ requests'[w].failed
             \/ ~Occupied(processes'[n])
  PROVE  StopInv'
<1>u. up = "up"
  BY DEF StopInv, ServingInv
<1>f. ASSUME NEW c \in Runs \X Generations, c[2] <= runFences[c[1]]
      PROVE  c[2] <= runFences'[c[1]]
  <2>1. /\ c[1] \in Runs /\ c[2] \in Nat /\ runFences[c[1]] \in Nat /\ runFences'[c[1]] \in Nat
        /\ runFences[c[1]] <= runFences'[c[1]]
    BY DEF TypeOK, Generations
  <2> QED BY <1>f, <2>1
<1>1. ServingInv'
  BY <1>u DEF ServingInv
<1>2. FenceInv'
  <2>1. \A c \in acknowledged : c[2] <= runFences'[c[1]]
    BY <1>f DEF StopInv, FenceInv, TypeOK
  <2>2. ASSUME NEW v \in Requests, v # w, requests[v].phase # "idle"
        PROVE  /\ \A c \in requests[v].closes : c[2] <= runFences'[c[1]]
               /\ requests[v].kind = "shutdown" => shuttingDown'
    <3>1. requests[v].closes \in SUBSET (Runs \X Generations)
      BY DEF TypeOK, StopRequests
    <3> QED BY <1>f, <2>2, <3>1 DEF StopInv, FenceInv
  <2> QED BY <2>1, <2>2 DEF FenceInv
<1>3. WaitInv'
  <2>1. ASSUME NEW v \in Requests, v # w, requests[v].phase = "wait", NEW n \in Nodes,
               Covered(requests[v], processes'[n])
        PROVE  \/ \E k \in Nat : <<n, k>> \in requests[v].pending
               \/ requests[v].failed
               \/ ~Occupied(processes'[n])
    <3>1. Covered(requests[v], processes[n])
      BY <2>1 DEF Released, Covered, Closes
    <3> QED BY <2>1, <3>1 DEF StopInv, WaitInv, Released, Covered
  <2> QED BY <2>1 DEF WaitInv
<1>4. AckInv'
  BY DEF StopInv, AckInv, Released
<1> QED
  BY <1>1, <1>2, <1>3, <1>4 DEF StopInv

(* The handlers keep the stop invariant: fence, mark, collect and wait.    *)
LEMMA RequestStop ==
  ASSUME TypeOK, \A m \in Nodes : NodeInv(m), StopInv, NEW w \in Requests,
         RequestStep(w) \/ RequestArrives(w), ~shutdownCompletes(w)
  PROVE  StopInv'
<1> USE DEF Admission, Daemon, Observations
<1> DEFINE q == requests[w]
           q1 == requests'[w]
<1>p. /\ q \in StopRequests /\ requests \in [Requests -> StopRequests]
      /\ processes \in [Nodes -> Processes]
      /\ runFences \in [Runs -> 0 .. MaxGeneration]
  BY DEF TypeOK
<1>t. /\ runFences \in [Runs -> 0 .. MaxGeneration]
      /\ \A r \in Runs : runFences[r] <= runFences[r]
  BY <1>p, GenerationAssumption
<1>r. \A m \in Nodes : Released(processes[m], processes[m])
  BY DEF Released
<1>f. q.phase # "idle" => /\ \A c \in q.closes : c[2] <= runFences[c[1]]
                          /\ q.kind = "shutdown" => shuttingDown
  BY DEF StopInv, FenceInv
<1>1. ASSUME collectPending(w) PROVE StopInv'
  <2> DEFINE Member(n) == processes[n].present /\ (q.kind = "run" => Closes(q, processes[n]))
             pending == {<<n, processes[n].attempt>> : n \in {m \in Nodes : Member(m)}}
  <2>1. /\ UNCHANGED <<up, acknowledged, shuttingDown, runFences, processes>>
        /\ q.phase = "collect"
        /\ \A v \in Requests : v # w => requests'[v] = requests[v]
    BY <1>p, <1>1 DEF collectPending
  <2>2. q1 = [q EXCEPT !.phase = "wait", !.pending = pending]
    BY <1>p, <1>1 DEF collectPending
  <2>3. ASSUME NEW n \in Nodes, Covered(q, processes[n])
        PROVE  \/ \E k \in Nat : <<n, k>> \in pending
    <3>1. Member(n) /\ processes[n].attempt \in Nat
      BY <1>p, <2>3 DEF Covered, Processes
    <3> QED BY <3>1
  <2> HIDE DEF pending
  <2>4. /\ q1.phase = "wait" /\ q1.kind = q.kind /\ q1.closes = q.closes
        /\ q1.pending = pending
    BY <1>p, <2>2 DEF StopRequests
  <2>5. \A n \in Nodes : Covered(q1, processes[n]) => Covered(q, processes[n])
    BY <2>4 DEF Covered, Closes
  <2>6. \A n \in Nodes : Covered(q1, processes'[n]) => \E k \in Nat : <<n, k>> \in q1.pending
    BY <2>1, <2>3, <2>4, <2>5
  <2> QED BY <1>t, <1>r, <1>f, <2>1, <2>4, <2>6, RequestFrame
<1>2. ASSUME NEW n \in Nodes, NEW k \in 1 .. MaxFailures + 1, awaitContainer(w, n, k)
      PROVE StopInv'
  <2> DEFINE p == processes[n]
             failed == q.failed \/ p.cleanupErr
  <2>1. /\ UNCHANGED <<up, acknowledged, shuttingDown, runFences, processes>>
        /\ q.phase = "wait"
        /\ \A v \in Requests : v # w => requests'[v] = requests[v]
    BY <1>p, <1>2 DEF awaitContainer
  <2>2. q1 = [q EXCEPT !.pending = q.pending \ {<<n, k>>}, !.failed = failed]
    BY <1>p, <1>2 DEF awaitContainer
  <2>3. /\ q1.phase = "wait" /\ q1.kind = q.kind /\ q1.closes = q.closes
        /\ q1.pending = q.pending \ {<<n, k>>} /\ (q1.failed <=> q.failed \/ p.cleanupErr)
    <3>1. q1.failed = failed
      BY <1>p, <2>2 DEF StopRequests
    <3> HIDE DEF failed
    <3>2. /\ q1.phase = q.phase /\ q1.kind = q.kind /\ q1.closes = q.closes
          /\ q1.pending = q.pending \ {<<n, k>>}
      BY <1>p, <2>2 DEF StopRequests
    <3> QED BY <2>1, <3>1, <3>2 DEF failed
  <2>4. p.present /\ ~p.cleanupErr => ~Occupied(p)
    <3>1. p.exited \/ p.attempt > k
      BY <1>2 DEF awaitContainer, DoneClosed
    <3>2. p.attempt > k => ~(p.attempt <= 1)
      BY <1>p, FailuresAssumption DEF Processes
    <3> QED BY <3>1, <3>2 DEF NodeInv, Occupied
  <2>5. ASSUME NEW m \in Nodes, Covered(q1, processes[m])
        PROVE  \/ \E j \in Nat : <<m, j>> \in q1.pending
               \/ q1.failed
               \/ ~Occupied(processes[m])
    <3>1. Covered(q, processes[m])
      BY <2>3, <2>5 DEF Covered, Closes
    <3>2. CASE m = n
      BY <2>3, <2>4, <3>1, <3>2 DEF Covered
    <3>3. CASE m # n
      BY <2>1, <2>3, <3>1, <3>3 DEF StopInv, WaitInv
    <3> QED BY <3>2, <3>3
  <2> QED BY <1>t, <1>r, <1>f, <2>1, <2>3, <2>5, RequestFrame
<1>3. ASSUME answerRequest(w) PROVE StopInv'
  <2>1. /\ UNCHANGED <<up, shuttingDown, runFences, processes>>
        /\ q.phase = "wait" /\ q.pending = {} /\ q1.phase = "idle"
        /\ \A v \in Requests : v # w => requests'[v] = requests[v]
        /\ acknowledged' = IF q.failed THEN acknowledged ELSE acknowledged \cup q.closes
    BY <1>p, <1>3 DEF answerRequest, NoRequest
  <2>2. up = "up"
    BY <2>1 DEF StopInv, ServingInv
  <2>3. FenceInv'
    BY <1>f, <2>1 DEF StopInv, FenceInv
  <2>4. WaitInv'
    BY <2>1 DEF StopInv, WaitInv
  <2>5. AckInv'
    <3> SUFFICES ASSUME NEW c \in acknowledged', NEW n \in Nodes, processes[n].present,
                        processes[n].run = c[1], processes[n].gen <= c[2]
                 PROVE  ~Occupied(processes[n])
      BY <2>1 DEF AckInv
    <3>1. CASE c \in acknowledged
      BY <3>1 DEF StopInv, AckInv
    <3>2. CASE c \in q.closes /\ ~q.failed
      <4>1. Covered(q, processes[n])
        BY <3>2 DEF Covered, Closes
      <4> QED BY <2>1, <3>2, <4>1 DEF StopInv, WaitInv
    <3> QED BY <2>1, <3>1, <3>2
  <2> QED BY <2>1, <2>2, <2>3, <2>4, <2>5 DEF StopInv, ServingInv
<1>4. ASSUME requestTimesOut(w) PROVE StopInv'
  <2>1. /\ UNCHANGED <<up, acknowledged, shuttingDown, runFences, processes>>
        /\ q.phase = "wait" /\ q1.phase = "idle"
        /\ \A v \in Requests : v # w => requests'[v] = requests[v]
    BY <1>p, <1>4 DEF requestTimesOut, NoRequest
  <2> QED BY <1>t, <1>r, <2>1, RequestFrame
<1>5. ASSUME stopAllList(w) PROVE StopInv'
  <2> DEFINE todo == {n \in Nodes : Occupied(processes[n])}
  <2>1. /\ UNCHANGED <<up, acknowledged, shuttingDown, runFences, processes>>
        /\ q.phase = "list"
        /\ \A v \in Requests : v # w => requests'[v] = requests[v]
        /\ q1 = [q EXCEPT !.phase = "stop", !.todo = todo]
    BY <1>p, <1>5 DEF stopAllList
  <2> HIDE DEF todo
  <2>2. q1.phase = "stop" /\ q1.kind = q.kind /\ q1.closes = q.closes
    BY <1>p, <2>1 DEF StopRequests
  <2> QED BY <1>t, <1>r, <1>f, <2>1, <2>2, RequestFrame
<1>6. ASSUME NEW n \in Nodes, stopAllNode(w, n) PROVE StopInv'
  <2>1. /\ UNCHANGED <<up, acknowledged, shuttingDown, runFences>>
        /\ q.phase = "stop"
        /\ \A v \in Requests : v # w => requests'[v] = requests[v]
        /\ q1 = [q EXCEPT !.todo = q.todo \ {n}]
        /\ \A m \in Nodes : m # n => processes'[m] = processes[m]
        /\ processes'[n] = stopNodeEffect(processes[n])
    BY <1>p, <1>6 DEF stopAllNode
  <2>2. q1.phase = "stop" /\ q1.kind = q.kind /\ q1.closes = q.closes
    BY <1>p, <2>1 DEF StopRequests
  <2>3. \A m \in Nodes : Released(processes[m], processes'[m])
    BY <1>p, <1>r, <2>1, StopEffectFacts, ResumedReleased
  <2> QED BY <1>t, <1>f, <2>1, <2>2, <2>3, RequestFrame
<1>7. ASSUME stopAllDone(w) PROVE StopInv'
  <2>1. /\ UNCHANGED <<up, acknowledged, shuttingDown, runFences, processes>>
        /\ q.phase = "stop"
        /\ \A v \in Requests : v # w => requests'[v] = requests[v]
        /\ q1 = [q EXCEPT !.phase = "collect"]
    BY <1>p, <1>7 DEF stopAllDone
  <2>2. q1.phase = "collect" /\ q1.kind = q.kind /\ q1.closes = q.closes
    BY <1>p, <2>1 DEF StopRequests
  <2> QED BY <1>t, <1>r, <1>f, <2>1, <2>2, RequestFrame
<1>8. ASSUME NEW r \in Runs, NEW g \in Generations, stopRunGeneration(w, r, g) PROVE StopInv'
  <2> DEFINE fence == IF g > runFences[r] THEN g ELSE runFences[r]
  <2>1. /\ UNCHANGED <<up, acknowledged, shuttingDown>> /\ up = "up"
        /\ \A v \in Requests : v # w => requests'[v] = requests[v]
        /\ runFences' = [runFences EXCEPT ![r] = fence]
        /\ q1 = [NoRequest EXCEPT !.phase = "collect", !.kind = "run", !.closes = {<<r, g>>}]
        /\ \A m \in Nodes : \/ processes'[m] = processes[m]
                            \/ processes'[m] = stopRunEffect(processes[m])
    BY <1>p, <1>8 DEF stopRunGeneration
  <2>2. q1.phase = "collect" /\ q1.kind = "run" /\ q1.closes = {<<r, g>>}
    BY <2>1 DEF NoRequest
  <2>3. /\ fence \in 0 .. MaxGeneration /\ g <= fence /\ runFences[r] <= fence
    BY <1>p, GenerationAssumption DEF Generations
  <2> HIDE DEF fence
  <2>4. /\ runFences' \in [Runs -> 0 .. MaxGeneration]
        /\ \A s \in Runs : runFences[s] <= runFences'[s]
        /\ \A c \in q1.closes : c[2] <= runFences'[c[1]]
    BY <1>p, <1>t, <2>1, <2>2, <2>3
  <2>5. \A m \in Nodes : Released(processes[m], processes'[m])
    BY <1>p, <1>r, <2>1, StopEffectFacts, ResumedReleased
  <2> QED BY <2>1, <2>2, <2>4, <2>5, RequestFrame
<1>9. ASSUME fenceAllRuns(w) PROVE StopInv'
  <2> DEFINE found == {r \in Runs : \E n \in Nodes : processes[n].present /\ processes[n].run = r}
             all == {<<r, MaxGeneration>> : r \in found}
  <2>1. /\ UNCHANGED <<up, acknowledged, shuttingDown, processes>> /\ up = "up"
        /\ \A v \in Requests : v # w => requests'[v] = requests[v]
        /\ runFences' = [r \in Runs |-> IF r \in found THEN MaxGeneration ELSE runFences[r]]
        /\ q1 = [NoRequest EXCEPT !.phase = "list", !.kind = "all", !.closes = all]
    BY <1>p, <1>9 DEF fenceAllRuns
  <2>2. \A r \in Runs : /\ runFences[r] <= runFences'[r]
                        /\ runFences'[r] \in 0 .. MaxGeneration
                        /\ r \in found => runFences'[r] = MaxGeneration
    <3> HIDE DEF found
    <3> QED BY <1>p, <2>1, GenerationAssumption
  <2>3. runFences' \in [Runs -> 0 .. MaxGeneration]
    <3> HIDE DEF found
    <3> QED BY <2>1, <2>2
  <2>4. \A c \in all : c[2] <= runFences'[c[1]]
    BY <2>2, GenerationAssumption
  <2> HIDE DEF all
  <2>5. q1.phase = "list" /\ q1.kind = "all" /\ q1.closes = all
    BY <2>1 DEF NoRequest
  <2> QED BY <1>r, <2>1, <2>2, <2>3, <2>4, <2>5, RequestFrame
<1>10. ASSUME beginShutdown(w) PROVE StopInv'
  <2>1. /\ UNCHANGED <<up, acknowledged, runFences, processes>> /\ up = "up" /\ shuttingDown'
        /\ \A v \in Requests : v # w => requests'[v] = requests[v]
        /\ q1 = [NoRequest EXCEPT !.phase = "list", !.kind = "shutdown"]
    BY <1>p, <1>10 DEF beginShutdown
  <2>2. q1.phase = "list" /\ q1.closes = {}
    BY <2>1 DEF NoRequest
  <2> QED BY <1>t, <1>r, <2>1, <2>2, RequestFrame
<1> QED
  BY <1>1, <1>2, <1>3, <1>4, <1>5, <1>6, <1>7, <1>8, <1>9, <1>10
     DEF RequestStep, RequestArrives

(* A shutdown that found nothing pending and no failure leaves no Peer.    *)
LEMMA CleanShutdown ==
  ASSUME TypeOK, \A m \in Nodes : NodeInv(m), StopInv, NEW w \in Requests,
         requests[w].phase = "wait", requests[w].kind = "shutdown",
         requests[w].pending = {}, ~requests[w].failed
  PROVE  \A m \in Nodes : containers[m] # "running"
<1> SUFFICES ASSUME NEW m \in Nodes, containers[m] = "running" PROVE FALSE
  OBVIOUS
<1>1. up = "up"
  BY DEF StopInv, ServingInv
<1>2. Occupied(processes[m])
  BY <1>1 DEF NodeInv
<1>3. Covered(requests[w], processes[m])
  BY <1>2 DEF Covered, Occupied
<1> QED
  BY <1>2, <1>3 DEF StopInv, WaitInv

(* The invariant holds initially and is preserved by every step.           *)
LEMMA InductiveInit == Init => IInv
<1> SUFFICES ASSUME Init PROVE IInv
  OBVIOUS
<1>1. \A n \in Nodes : NodeInv(n)
  BY DEF Init, NodeInv, NoProcess, Occupied, Ended
<1>2. StopInv
  BY DEF Init, StopInv, ServingInv, FenceInv, WaitInv, AckInv, NoRequest
<1> QED
  BY <1>1, <1>2, TypeInit DEF IInv

(* Every step preserves the inductive invariant.                           *)
LEMMA InductiveStep == IInv /\ [Next]_vars => IInv'
<1> SUFFICES ASSUME IInv, [Next]_vars PROVE IInv'
  OBVIOUS
<1> USE DEF Admission, Daemon, Observations
<1>i. TypeOK /\ (\A m \in Nodes : NodeInv(m)) /\ StopInv
  BY DEF IInv
<1>t. TypeOK'
  BY <1>i, TypeStep
<1>g. (\A m \in Nodes : NodeInv(m)') /\ StopInv' => IInv'
  BY <1>t DEF IInv
<1>1. ASSUME NEW n \in Nodes, ProcessStep(n) PROVE IInv'
  <2>1. UNCHANGED <<up, acknowledged, requests, runFences, shuttingDown>>
    BY <1>1 DEF ProcessStep, writePeerConfig, dockerCreateSucceeds,
          dockerCreateFails, dockerStart, startupFails, containerReady, waitReturns,
          removeAndFinish
  <2>2. StopInv'
    BY <1>i, <1>1, <2>1, ProcessStepReleased, StopFrame
  <2> QED BY <1>i, <1>g, <1>1, <2>2, ProcessStepNode
<1>2. ASSUME NEW n \in Nodes, Environment(n) PROVE IInv'
  <2>1. ASSUME NEW r \in Runs, NEW g \in Generations, createNode(n, r, g) PROVE StopInv'
    BY <1>i, <2>1, CreateStop
  <2>2. ASSUME ~\E r \in Runs, g \in Generations : createNode(n, r, g) PROVE StopInv'
    <3>1. UNCHANGED <<up, acknowledged, requests, runFences, shuttingDown>>
      BY <1>2, <2>2 DEF Environment, createRefused, vars, daemonCommitsLate, updateNode,
            peerExits, stopNode, lifetimeExpires, removeLeftover
    <3>2. processes \in [Nodes -> Processes]
      BY <1>i DEF TypeOK
    <3>3. \A m \in Nodes : Released(processes[m], processes'[m])
      <4>1. CASE stopNode(n)
        <5>1. /\ \A m \in Nodes : m # n => processes'[m] = processes[m]
              /\ processes'[n] = stopNodeEffect(processes[n])
          BY <3>2, <4>1 DEF stopNode
        <5>2. Released(processes[n], processes'[n])
          BY <3>2, <5>1, StopEffectFacts, ResumedReleased
        <5> QED BY <5>1, <5>2 DEF Released
      <4>2. CASE updateNode(n)
        BY <3>2, <4>2 DEF updateNode, Released, Occupied, Processes
      <4>3. CASE processes' = processes
        BY <4>3 DEF Released
      <4> QED
        BY <1>2, <2>2, <4>1, <4>2, <4>3 DEF Environment, createRefused, vars,
              daemonCommitsLate, peerExits, lifetimeExpires, removeLeftover
    <3> QED BY <1>i, <3>1, <3>3, StopFrame
  <2>3. StopInv'
    BY <2>1, <2>2
  <2> QED BY <1>i, <1>g, <1>2, <2>3, EnvironmentNode
<1>3. ASSUME NEW w \in Requests, RequestStep(w) \/ RequestArrives(w), ~shutdownCompletes(w)
      PROVE IInv'
  BY <1>i, <1>g, <1>3, RequestNode, RequestStop
<1>4. ASSUME NEW clean \in BOOLEAN, AgentExits(clean),
             clean => \A m \in Nodes : containers[m] # "running"
      PROVE IInv'
  BY <1>i, <1>g, <1>4, AgentExitNode, AgentExitStop
<1>5. ASSUME NEW w \in Requests, shutdownCompletes(w) PROVE IInv'
  <2> DEFINE clean == requests[w].pending = {} /\ ~requests[w].failed
  <2>1. clean \in BOOLEAN /\ AgentExits(clean)
    BY <1>5 DEF shutdownCompletes
  <2>2. clean => \A m \in Nodes : containers[m] # "running"
    BY <1>i, <1>5, CleanShutdown DEF shutdownCompletes
  <2> HIDE DEF clean
  <2> QED BY <1>4, <2>1, <2>2
<1>6. CASE crash \/ reconcileFails
  <2>1. AgentExits(FALSE)
    BY <1>6 DEF crash, reconcileFails
  <2> QED BY <1>4, <2>1
<1>7. ASSUME NEW c \in Capacities, setCapacity(c) PROVE IInv'
  <2>1. /\ \A m \in Nodes : NodeInv(m)'
    BY <1>i, <1>7, NodeFrame DEF setCapacity
  <2>2. StopInv'
    BY <1>i, <1>7, StopFrame DEF setCapacity, Released
  <2> QED BY <1>g, <2>1, <2>2
<1>8. CASE startAgent
  <2>1. /\ up = "down" /\ up' = "reconciling" /\ ~cleanExit'
        /\ leftovers' = {n \in Nodes : containers[n] # "none"}
        /\ UNCHANGED <<processes, containers, lateCreates, used, terminations,
                       requests, acknowledged, runFences, shuttingDown>>
    BY <1>8 DEF startAgent
  <2>2. \A m \in Nodes : NodeInv(m)'
    BY <1>i, <2>1 DEF NodeInv, Occupied
  <2>3. StopInv'
    BY <1>i, <2>1 DEF StopInv, ServingInv, FenceInv, WaitInv, AckInv, Covered, Closes
  <2> QED BY <1>g, <2>2, <2>3
<1>9. CASE reconciled
  <2>1. /\ up = "reconciling" /\ up' = "up" /\ leftovers = {}
        /\ UNCHANGED <<processes, containers, lateCreates, used, terminations, cleanExit,
                       leftovers, requests, acknowledged, runFences, shuttingDown>>
    BY <1>9 DEF reconciled
  <2>2. \A m \in Nodes : NodeInv(m)'
    BY <1>i, <2>1 DEF NodeInv, Occupied
  <2>3. StopInv'
    BY <1>i, <2>1 DEF StopInv, ServingInv, FenceInv, WaitInv, AckInv, Covered, Closes
  <2> QED BY <1>g, <2>2, <2>3
<1>10. CASE UNCHANGED vars
  <2>1. \A m \in Nodes : NodeInv(m)'
    BY <1>i, <1>10, NodeFrame DEF vars
  <2>2. StopInv'
    BY <1>i, <1>10, StopFrame DEF vars, Released
  <2> QED BY <1>g, <2>1, <2>2
<1> QED
  BY <1>1, <1>2, <1>3, <1>5, <1>6, <1>7, <1>8, <1>9, <1>10 DEF Next

(* The inductive invariant: what each node's goroutine may have done, what *)
(* an Agent that does not serve has left, how far each stop handler got,   *)
(* and that what is fenced and no longer waited for is gone.               *)
THEOREM Inductive == Spec => []IInv
BY InductiveInit, InductiveStep, PTL DEF Spec

(* Once a stop was answered successfully, its Peers are gone for good, for *)
(* any number of nodes, runs, generations, requests and removal failures.  *)
THEOREM StopBarrier == Spec => []StoppedGenerationIsGone
<1>1. IInv => StoppedGenerationIsGone
  <2> SUFFICES ASSUME IInv, NEW c \in acknowledged, NEW n \in Nodes, processes[n].present,
                      processes[n].run = c[1], processes[n].gen <= c[2]
               PROVE  ~Occupied(processes[n]) /\ containers[n] # "running"
    BY DEF StoppedGenerationIsGone
  <2>1. ~Occupied(processes[n])
    BY DEF IInv, StopInv, AckInv
  <2> QED BY <2>1 DEF IInv, NodeInv
<1> QED
  BY <1>1, Inductive, PTL

(* While the Agent serves, no container runs uncharged.                    *)
THEOREM ChargedPeers == Spec => []RunningPeersAreCharged
<1>1. IInv => RunningPeersAreCharged
  BY DEF IInv, NodeInv, RunningPeersAreCharged
<1> QED
  BY <1>1, Inductive, PTL

(* A failed removal can always be retried.                                 *)
THEOREM RetryableCleanup == Spec => []FailedCleanupIsRetryable
<1>1. IInv => FailedCleanupIsRetryable
  BY DEF IInv, NodeInv, FailedCleanupIsRetryable, Retryable
<1> QED
  BY <1>1, Inductive, PTL

(* Each Peer that is gone left exactly one exit marker.                    *)
THEOREM SingleTermination == Spec => []OneTerminationPerPeer
<1>1. IInv => OneTerminationPerPeer
  BY DEF IInv, NodeInv, OneTerminationPerPeer
<1> QED
  BY <1>1, Inductive, PTL

(* A shutdown without error leaves no Peer behind.                         *)
THEOREM CleanExit == Spec => []CleanExitLeavesNoPeers
<1>1. IInv => CleanExitLeavesNoPeers
  BY DEF IInv, NodeInv, CleanExitLeavesNoPeers
<1> QED
  BY <1>1, Inductive, PTL

-----------------------------------------------------------------------------
(* A step that takes a process from p to q revives no stop.                *)
Settled(p, q) ==
  /\ p.state \in Closing => q.state \in Closing
  /\ processSuccessfullyStopped(p) => q = p

(* A stop request settles whatever it hits.                                *)
LEMMA StopEffectsSettle ==
  ASSUME NEW p \in Processes
  PROVE  Settled(p, stopNodeEffect(p)) /\ Settled(p, stopRunEffect(p))
<1>1. MarkStopping(p).state \in Closing /\ retryContainerCleanupLocked(p).state \in Closing
  BY DEF MarkStopping, retryContainerCleanupLocked, Processes, Closing
<1>2. processSuccessfullyStopped(p) => ~Retryable(p) /\ p.state \in Ended /\ p.exited
  BY DEF processSuccessfullyStopped, Retryable, Ended
<1> QED
  BY <1>1, <1>2 DEF Settled, stopNodeEffect, stopRunEffect

(* So does the goroutine of a process, which ends before its exit counts.  *)
LEMMA ProcessStepSettles ==
  ASSUME TypeOK, NEW n \in Nodes, NodeInv(n), ProcessStep(n)
  PROVE  \A m \in Nodes : Settled(processes[m], processes'[m])
<1> USE DEF Admission, Daemon, Observations
<1> DEFINE p == processes[n]
           q == processes'[n]
<1>p. p \in Processes /\ processes \in [Nodes -> Processes]
  BY DEF TypeOK
<1>1. \A m \in Nodes : m # n => processes'[m] = processes[m]
  BY <1>p DEF ProcessStep, writePeerConfig, dockerCreateSucceeds, dockerCreateFails,
        dockerStart, startupFails, containerReady, waitReturns, removeAndFinish
<1>2. CASE dockerStart(n)
  BY <1>2 DEF dockerStart, Settled
<1>3. CASE ~dockerStart(n)
  <2>1. p.pc # "idle"
    BY <1>3 DEF ProcessStep, writePeerConfig, dockerCreateSucceeds, dockerCreateFails,
          startupFails, containerReady, waitReturns, removeAndFinish, Removing
  <2>2. ~processSuccessfullyStopped(p)
    BY <2>1 DEF NodeInv, processSuccessfullyStopped
  <2>3. ASSUME NEW runErr \in BOOLEAN, NEW cleanupErr \in BOOLEAN
        PROVE  finishProcess(p, runErr, cleanupErr).state \in Closing
    BY <1>p DEF finishProcess, Processes, Closing
  <2> DEFINE Finished == \E runErr, cleanupErr \in BOOLEAN :
                           q.state = finishProcess(p, runErr, cleanupErr).state
  <2>4. q.state = p.state \/ Finished
    <3>1. ASSUME NEW ok \in BOOLEAN, writePeerConfig(n, ok) PROVE q.state = p.state \/ Finished
      <4>1. \/ q = [p EXCEPT !.pc = "admission"]
            \/ q = finishProcess(p, TRUE, FALSE)
        BY <1>p, <3>1 DEF writePeerConfig
      <4> QED BY <1>p, <4>1 DEF Processes
    <3>2. ASSUME dockerCreateSucceeds(n) PROVE q.state = p.state
      BY <1>p, <3>2 DEF dockerCreateSucceeds, Processes
    <3>3. ASSUME NEW c \in BOOLEAN, NEW l \in BOOLEAN, dockerCreateFails(n, c, l)
          PROVE  q.state = p.state
      BY <1>p, <3>3 DEF dockerCreateFails, Processes
    <3>4. ASSUME startupFails(n) \/ containerReady(n) PROVE q.state = p.state
      BY <1>p, <3>4, ZenonT(30) DEF startupFails, containerReady, Processes
    <3>5. ASSUME NEW runErr \in BOOLEAN, waitReturns(n, runErr) PROVE q.state = p.state
      BY <1>p, <3>5 DEF waitReturns, Processes
    <3>6. ASSUME NEW cleanupErr \in BOOLEAN, NEW gone \in BOOLEAN,
                 removeAndFinish(n, cleanupErr, gone)
          PROVE  Finished
      <4> DEFINE runErr == CASE p.pc = "discard" -> TRUE
                             [] p.pc = "remove"  -> p.runErr
                             [] OTHER            -> FALSE
                 done == finishProcess(p, runErr, cleanupErr)
                 id == p.containerID \/ (p.pc = "discard" /\ cleanupErr)
      <4>1. runErr \in BOOLEAN
        BY <1>p DEF Processes
      <4>2. q = [done EXCEPT !.containerID = id]
        BY <1>p, <3>6 DEF removeAndFinish
      <4> HIDE DEF runErr, id
      <4>3. done \in Processes
        BY <1>p, <4>1, FinishType
      <4>4. q.state = done.state
        <5> HIDE DEF done
        <5> QED BY <4>2, <4>3 DEF Processes
      <4> QED BY <4>1, <4>4
    <3> QED
      BY <1>3, <3>1, <3>2, <3>3, <3>4, <3>5, <3>6 DEF ProcessStep
  <2> QED BY <1>1, <2>2, <2>3, <2>4 DEF Settled
<1> QED
  BY <1>2, <1>3

(* Every step settles the processes that are there before and after it.    *)
LEMMA StepSettles ==
  ASSUME IInv, [Next]_vars, NEW m \in Nodes,
         processes[m].present, processes'[m].present
  PROVE  Settled(processes[m], processes'[m])
<1> USE DEF Admission, Daemon, Observations
<1>p. /\ TypeOK /\ \A n \in Nodes : NodeInv(n)
      /\ processes[m] \in Processes /\ processes \in [Nodes -> Processes]
  BY DEF IInv, TypeOK
<1>0. processes'[m] = processes[m] => Settled(processes[m], processes'[m])
  BY DEF Settled
<1>1. ASSUME NEW n \in Nodes, ProcessStep(n) PROVE Settled(processes[m], processes'[m])
  BY <1>p, <1>1, ProcessStepSettles
<1>2. ASSUME NEW n \in Nodes, Environment(n) PROVE Settled(processes[m], processes'[m])
  <2>1. CASE stopNode(n)
    BY <1>0, <1>p, <2>1, StopEffectsSettle DEF stopNode
  <2>2. CASE updateNode(n)
    BY <1>0, <1>p, <2>2 DEF updateNode, Settled, processSuccessfullyStopped
  <2>3. ASSUME NEW r \in Runs, NEW g \in Generations, createNode(n, r, g)
        PROVE  processes'[m] = processes[m]
    BY <1>p, <2>3 DEF createNode
  <2>4. CASE processes' = processes
    BY <1>0, <2>4
  <2> QED
    BY <1>0, <1>2, <2>1, <2>2, <2>3, <2>4 DEF Environment, createRefused, vars,
          daemonCommitsLate, peerExits, lifetimeExpires, removeLeftover
<1>3. ASSUME NEW w \in Requests, RequestStep(w) \/ RequestArrives(w)
      PROVE  Settled(processes[m], processes'[m])
  <2>1. ASSUME NEW n \in Nodes, stopAllNode(w, n) PROVE Settled(processes[m], processes'[m])
    BY <1>0, <1>p, <2>1, StopEffectsSettle DEF stopAllNode
  <2>2. ASSUME NEW r \in Runs, NEW g \in Generations, stopRunGeneration(w, r, g)
        PROVE  Settled(processes[m], processes'[m])
    <3>1. processes'[m] \in {stopRunEffect(processes[m]), processes[m]}
      BY <2>2 DEF stopRunGeneration
    <3> QED BY <1>0, <1>p, <3>1, StopEffectsSettle
  <2>3. CASE shutdownCompletes(w)
    BY <2>3 DEF shutdownCompletes, AgentExits, NoProcess
  <2>4. CASE processes' = processes
    BY <1>0, <2>4
  <2> QED
    BY <1>3, <2>1, <2>2, <2>3, <2>4 DEF RequestStep, RequestArrives, collectPending,
          awaitContainer, answerRequest, requestTimesOut, stopAllList, stopAllDone,
          fenceAllRuns, beginShutdown
<1>4. CASE crash \/ reconcileFails
  BY <1>4 DEF crash, reconcileFails, AgentExits, NoProcess
<1>5. CASE processes' = processes
  BY <1>0, <1>5
<1> QED
  BY <1>1, <1>2, <1>3, <1>4, <1>5 DEF Next, setCapacity, startAgent, reconciled, vars

(* A late status report never revives a Peer that was asked to stop, and a *)
(* node reported as stopped never changes again, whatever stops, retries,  *)
(* lifetimes and reports overlap.                                          *)
THEOREM StopsAreFinal == Spec => StopIsFinal
<1>1. IInv /\ [Next]_vars => [\A n \in Nodes : LET p == processes[n] q == processes'[n] IN
         p.present /\ q.present =>
           /\ p.state \in Closing => q.state \in Closing
           /\ processSuccessfullyStopped(p) => q = p]_vars
  BY StepSettles DEF Settled
<1> QED
  BY <1>1, Inductive, PTL DEF Spec, StopIsFinal
-----------------------------------------------------------------------------
(* A stop handler resumes processes or leaves them alone; it never admits  *)
(* one and never gives up a slot.                                          *)
LEMMA RequestResumes ==
  ASSUME TypeOK, \A m \in Nodes : NodeInv(m), NEW w \in Requests,
         RequestStep(w) \/ RequestArrives(w), ~shutdownCompletes(w)
  PROVE  \A m \in Nodes : Resumed(processes[m], processes'[m])
<1> SUFFICES ASSUME NEW m \in Nodes PROVE Resumed(processes[m], processes'[m])
  OBVIOUS
<1>p. processes \in [Nodes -> Processes] /\ processes[m] \in Processes
  BY DEF TypeOK
<1>0. Resumed(processes[m], processes[m])
  BY DEF Resumed
<1>1. ASSUME NEW n \in Nodes, stopAllNode(w, n) PROVE Resumed(processes[m], processes'[m])
  <2>1. processes'[m] \in {stopNodeEffect(processes[m]), processes[m]}
    BY <1>p, <1>1 DEF stopAllNode
  <2> QED BY <1>0, <1>p, <2>1, StopEffectFacts
<1>2. ASSUME NEW r \in Runs, NEW g \in Generations, stopRunGeneration(w, r, g)
      PROVE  Resumed(processes[m], processes'[m])
  <2>1. processes'[m] \in {stopRunEffect(processes[m]), processes[m]}
    BY <1>2 DEF stopRunGeneration
  <2> QED BY <1>0, <1>p, <2>1, StopEffectFacts
<1>3. CASE ~(\E n \in Nodes : stopAllNode(w, n))
           /\ ~(\E r \in Runs, g \in Generations : stopRunGeneration(w, r, g))
  <2>1. processes' = processes
    BY <1>3 DEF RequestStep, RequestArrives, collectPending, awaitContainer, answerRequest,
                requestTimesOut, stopAllList, stopAllDone, fenceAllRuns, beginShutdown
  <2> QED BY <1>0, <2>1
<1> QED
  BY <1>1, <1>2, <1>3

(* A resumed process keeps its slot, or keeps having none.                 *)
LEMMA ResumedOccupied ==
  ASSUME NEW p, NEW q, Resumed(p, q)
  PROVE  Occupied(q) <=> Occupied(p)
BY DEF Resumed, Occupied

(* Apart from a create, what Peers, the daemon and single stops do to the  *)
(* processes takes no slot and gives none up.                              *)
LEMMA EnvironmentOccupied ==
  ASSUME TypeOK, NEW n \in Nodes, Environment(n),
         ~\E r \in Runs, g \in Generations : createNode(n, r, g)
  PROVE  \A m \in Nodes : /\ Released(processes[m], processes'[m])
                          /\ processes'[m].run = processes[m].run
                          /\ processes'[m].gen = processes[m].gen
                          /\ Occupied(processes'[m]) <=> Occupied(processes[m])
<1> SUFFICES ASSUME NEW m \in Nodes
             PROVE  /\ processes'[m].run = processes[m].run
                    /\ processes'[m].gen = processes[m].gen
                    /\ processes'[m].present = processes[m].present
                    /\ Occupied(processes'[m]) <=> Occupied(processes[m])
  BY DEF Released
<1>p. processes \in [Nodes -> Processes] /\ processes[m] \in Processes
  BY DEF TypeOK
<1>1. CASE stopNode(n)
  <2>1. processes'[m] \in {stopNodeEffect(processes[m]), processes[m]}
    BY <1>p, <1>1 DEF stopNode
  <2>2. CASE processes'[m] = stopNodeEffect(processes[m])
    <3>1. Resumed(processes[m], processes'[m])
      BY <1>p, <2>2, StopEffectFacts
    <3> QED BY <3>1, ResumedOccupied DEF Resumed
  <2> QED BY <2>1, <2>2
<1>2. CASE updateNode(n)
  BY <1>p, <1>2 DEF updateNode, Occupied, Processes
<1>3. CASE processes' = processes
  BY <1>3
<1> QED
  BY <1>1, <1>2, <1>3 DEF Environment, createRefused, vars, daemonCommitsLate, peerExits,
        lifetimeExpires, removeLeftover, Daemon, Observations, Admission

-----------------------------------------------------------------------------
(***************************************************************************)
(* Capacity.  createNode admits below the capacity of the moment, which    *)
(* the Controller may lower under the Peers that are already there: what   *)
(* stays true is that the occupied slots never exceed the largest capacity *)
(* this Agent process had.                                                 *)
(***************************************************************************)
CapacityInv ==
  /\ capacity <= peak
  /\ up = "up" => capacityUsedLocked <= peak

(* The occupied slots are finitely many.                                   *)
LEMMA UsedIsFinite ==
  /\ IsFiniteSet({n \in Nodes : Occupied(processes[n])})
  /\ capacityUsedLocked \in Nat
BY NodesAssumption, FS_Subset, FS_CardinalityType DEF capacityUsedLocked

(* No more slots are occupied after a step that takes none.                *)
LEMMA ReleasedIsBounded ==
  ASSUME TypeOK, CapacityInv, up' = up, capacity' = capacity, peak' = peak,
         \A m \in Nodes : Released(processes[m], processes'[m])
  PROVE  CapacityInv'
<1> DEFINE U == {n \in Nodes : Occupied(processes[n])}
           V == {n \in Nodes : Occupied(processes'[n])}
<1>1. V \subseteq U
  BY DEF Released, Occupied
<1>2. IsFiniteSet(U) /\ IsFiniteSet(V) /\ Cardinality(V) <= Cardinality(U)
  BY <1>1, UsedIsFinite, FS_Subset
<1>3. Cardinality(U) \in Nat /\ Cardinality(V) \in Nat /\ peak \in Nat
  BY <1>2, FS_CardinalityType DEF TypeOK
<1> QED
  BY <1>2, <1>3 DEF CapacityInv, capacityUsedLocked

(* The slots stay within the largest capacity so far, at every step.       *)
LEMMA CapacityStep == IInv /\ CapacityInv /\ [Next]_vars => CapacityInv'
<1> SUFFICES ASSUME IInv, CapacityInv, [Next]_vars PROVE CapacityInv'
  OBVIOUS
<1> USE DEF Admission, Daemon, Observations
<1>p. /\ TypeOK /\ \A n \in Nodes : NodeInv(n)
      /\ processes \in [Nodes -> Processes] /\ capacity \in Nat /\ peak \in Nat
  BY DEF IInv, TypeOK
<1>s. \A m \in Nodes : Released(processes[m], processes[m])
  BY DEF Released
<1>1. ASSUME NEW n \in Nodes, ProcessStep(n) PROVE CapacityInv'
  <2>1. UNCHANGED <<up, capacity, peak>>
    BY <1>1 DEF ProcessStep, writePeerConfig, dockerCreateSucceeds, dockerCreateFails,
          dockerStart, startupFails, containerReady, waitReturns, removeAndFinish
  <2> QED BY <1>p, <1>1, <2>1, ProcessStepReleased, ReleasedIsBounded
<1>2. ASSUME NEW n \in Nodes, NEW r \in Runs, NEW g \in Generations, createNode(n, r, g)
      PROVE  CapacityInv'
  <2> DEFINE U == {m \in Nodes : Occupied(processes[m])}
             V == {m \in Nodes : Occupied(processes'[m])}
  <2>1. /\ UNCHANGED <<up, capacity, peak>> /\ Cardinality(U) < capacity
        /\ \A m \in Nodes : m # n => processes'[m] = processes[m]
    BY <1>p, <1>2 DEF createNode, capacityUsedLocked
  <2>2. V \subseteq U \cup {n}
    BY <2>1
  <2>3. IsFiniteSet(U) /\ Cardinality(U) \in Nat
    BY UsedIsFinite DEF capacityUsedLocked
  <2>4. IsFiniteSet(U \cup {n}) /\ Cardinality(U \cup {n}) <= Cardinality(U) + 1
    BY <2>3, FS_AddElement
  <2>5. Cardinality(V) <= Cardinality(U \cup {n}) /\ Cardinality(V) \in Nat
        /\ Cardinality(U \cup {n}) \in Nat
    BY <2>2, <2>4, FS_Subset, FS_CardinalityType
  <2>6. Cardinality(V) <= peak
    <3> HIDE DEF U, V
    <3> QED BY <1>p, <2>1, <2>3, <2>4, <2>5 DEF CapacityInv
  <2> QED BY <2>1, <2>6 DEF CapacityInv, capacityUsedLocked
<1>3. ASSUME NEW n \in Nodes, Environment(n),
             ~\E r \in Runs, g \in Generations : createNode(n, r, g)
      PROVE  CapacityInv'
  <2>1. UNCHANGED <<up, capacity, peak>>
    BY <1>3 DEF Environment, createRefused, vars, daemonCommitsLate, updateNode, peerExits,
          stopNode, lifetimeExpires, removeLeftover
  <2> QED BY <1>p, <1>3, <2>1, EnvironmentOccupied, ReleasedIsBounded
<1>4. ASSUME NEW w \in Requests, RequestStep(w) \/ RequestArrives(w), ~shutdownCompletes(w)
      PROVE  CapacityInv'
  <2>1. UNCHANGED <<up, capacity, peak>>
    BY <1>4 DEF RequestStep, RequestArrives, collectPending, awaitContainer, answerRequest,
          requestTimesOut, stopAllList, stopAllNode, stopAllDone, stopRunGeneration,
          fenceAllRuns, beginShutdown
  <2>2. \A m \in Nodes : Released(processes[m], processes'[m])
    BY <1>p, <1>4, RequestResumes, ResumedReleased
  <2> QED BY <1>p, <2>1, <2>2, ReleasedIsBounded
<1>5. ASSUME NEW clean, AgentExits(clean) PROVE CapacityInv'
  BY <1>5 DEF AgentExits, CapacityInv
<1>6. ASSUME NEW c \in Capacities, setCapacity(c) PROVE CapacityInv'
  <2>1. c \in Nat /\ capacityUsedLocked \in Nat
    BY CapacityAssumption, UsedIsFinite
  <2>2. /\ up' = up /\ capacity' = c /\ peak' = IF c > peak THEN c ELSE peak
        /\ capacityUsedLocked' = capacityUsedLocked
    BY <1>6 DEF setCapacity, capacityUsedLocked
  <2> QED BY <1>p, <2>1, <2>2 DEF CapacityInv
<1>7. CASE startAgent
  BY <1>7, CapacityAssumption DEF startAgent, CapacityInv
<1>8. CASE reconciled
  <2>1. {n \in Nodes : Occupied(processes'[n])} = {}
    BY <1>p, <1>8 DEF reconciled, NodeInv, Occupied
  <2>2. capacityUsedLocked' = 0
    BY <2>1, FS_EmptySet DEF capacityUsedLocked
  <2> QED BY <1>p, <1>8, <2>2 DEF reconciled, CapacityInv
<1>9. CASE UNCHANGED vars
  BY <1>p, <1>s, <1>9, ReleasedIsBounded DEF vars
<1> QED
  BY <1>1, <1>2, <1>3, <1>4, <1>5, <1>6, <1>7, <1>8, <1>9
     DEF Next, crash, reconcileFails, shutdownCompletes

(* No interleaving of creates, removals, retries and capacity changes runs *)
(* more Peers than the largest capacity in force since the Agent started,  *)
(* for any number of nodes and any capacities.                             *)
THEOREM CapacityBound == Spec => []CapacityIsRespected
<1>1. Init => CapacityInv
  <2> SUFFICES ASSUME Init PROVE CapacityInv
    OBVIOUS
  <2>1. {n \in Nodes : Occupied(processes[n])} = {}
    BY DEF Init, NoProcess, Occupied
  <2>2. capacityUsedLocked = 0 /\ capacity \in Nat /\ peak = capacity
    BY <2>1, FS_EmptySet, CapacityAssumption DEF Init, capacityUsedLocked
  <2> QED BY <2>2 DEF CapacityInv
<1>2. IInv /\ CapacityInv => CapacityIsRespected
  <2> SUFFICES ASSUME IInv, CapacityInv, up = "up"
               PROVE  Cardinality({n \in Nodes : containers[n] = "running"}) <= peak
    BY DEF CapacityIsRespected
  <2> DEFINE U == {n \in Nodes : Occupied(processes[n])}
             R == {n \in Nodes : containers[n] = "running"}
  <2>1. R \subseteq U
    BY DEF IInv, NodeInv
  <2>2. IsFiniteSet(U) /\ Cardinality(R) <= Cardinality(U)
    BY <2>1, UsedIsFinite, FS_Subset
  <2>3. Cardinality(R) \in Nat /\ Cardinality(U) \in Nat /\ peak \in Nat
    BY <2>1, <2>2, FS_Subset, FS_CardinalityType DEF IInv, TypeOK
  <2>4. Cardinality(U) <= peak
    BY DEF CapacityInv, capacityUsedLocked
  <2> HIDE DEF U, R
  <2>5. Cardinality(R) <= peak
    BY <2>2, <2>3, <2>4
  <2> QED BY <2>5 DEF R
<1> QED
  BY <1>1, <1>2, CapacityStep, Inductive, PTL DEF Spec
-----------------------------------------------------------------------------
(***************************************************************************)
(* Refinement.  Every step of the Agent is a step of RunBarrier or leaves  *)
(* it alone: a create admits, a confirmed removal (or the end of an        *)
(* orphan) leaves, a successful stop answer closes, an exit restarts.      *)
(***************************************************************************)

(* A Peer in a slot belongs to its run, one that runs without a slot is an *)
(* orphan, and there is nothing else.                                      *)
LEMMA LiveCases ==
  ASSUME NEW n \in Nodes
  PROVE  /\ Occupied(processes[n]) => LiveAs(n) = <<processes[n].run, processes[n].gen>>
         /\ ~Occupied(processes[n]) /\ containers[n] = "running" => LiveAs(n) = <<"none", 0>>
         /\ ~Occupied(processes[n]) /\ containers[n] # "running" => LiveAs(n) = <<>>
         /\ Occupied(processes[n]) \/ containers[n] = "running" => LiveAs(n) # <<>>
BY DEF LiveAs

(* A step after which nobody is live who was not live before, as the same  *)
(* member, is a departure or a stutter of the barrier.                     *)
LEMMA DepartureRefines ==
  ASSUME NEW n \in Nodes, acknowledged' = acknowledged,
         \A m \in Nodes : m # n => LiveAs(m)' = LiveAs(m),
         LiveAs(n)' \in {LiveAs(n), <<>>}
  PROVE  [Barrier!BarrierNext]_(Barrier!barrierVars)
<1> DEFINE live == [m \in Nodes |-> LiveAs(m)]
<1>1. CASE LiveAs(n)' = LiveAs(n)
  <2>1. live' = live
    BY <1>1
  <2> QED BY <2>1 DEF Barrier!barrierVars
<1>2. CASE LiveAs(n)' = <<>> /\ LiveAs(n) # <<>>
  <2>1. live' = [live EXCEPT ![n] = <<>>]
    BY <1>2
  <2>2. Barrier!Leave(n)
    BY <1>2, <2>1 DEF Barrier!Leave, Barrier!Absent
  <2> QED BY <2>2 DEF Barrier!BarrierNext
<1> QED
  BY <1>1, <1>2

(* A step that leaves every slot and every running container alone.        *)
LEMMA StutterRefines ==
  ASSUME acknowledged' = acknowledged,
         \A m \in Nodes : LiveAs(m)' = LiveAs(m)
  PROVE  [Barrier!BarrierNext]_(Barrier!barrierVars)
BY DEF Barrier!barrierVars
(* A node whose process and container keep what the barrier looks at.      *)
LEMMA SameLive ==
  ASSUME NEW m \in Nodes, Occupied(processes'[m]) <=> Occupied(processes[m]),
         processes'[m].run = processes[m].run, processes'[m].gen = processes[m].gen,
         containers'[m] = "running" <=> containers[m] = "running"
  PROVE  LiveAs(m)' = LiveAs(m)
BY DEF LiveAs

(* The goroutine of a Peer keeps it in the barrier or takes it out.        *)
LEMMA ProcessStepRefines ==
  ASSUME IInv, IInv', NEW n \in Nodes, ProcessStep(n)
  PROVE  [Barrier!BarrierNext]_(Barrier!barrierVars)
<1> USE DEF Admission, Daemon, Observations
<1>p. /\ TypeOK /\ NodeInv(n) /\ NodeInv(n)' /\ processes \in [Nodes -> Processes]
      /\ containers \in [Nodes -> {"none", "created", "running", "exited"}]
  BY DEF IInv, TypeOK
<1>1. /\ \A m \in Nodes : m # n => processes'[m] = processes[m] /\ containers'[m] = containers[m]
      /\ acknowledged' = acknowledged /\ up' = up
  BY <1>p DEF ProcessStep, writePeerConfig, dockerCreateSucceeds, dockerCreateFails,
        dockerStart, startupFails, containerReady, waitReturns, removeAndFinish
<1>2. \A m \in Nodes : m # n => LiveAs(m)' = LiveAs(m)
  BY <1>1, SameLive
<1>3. Occupied(processes[n])
  <2>1. Occupied(processes[n]) \/ processes[n].pc # "idle"
    BY DEF ProcessStep, writePeerConfig, dockerCreateSucceeds, dockerCreateFails,
           dockerStart, startupFails, containerReady, waitReturns, removeAndFinish, Removing
  <2> QED BY <1>p, <2>1 DEF NodeInv, Occupied
<1>4. up = "up"
  BY <1>p, <1>3 DEF NodeInv, Occupied
<1>5. Released(processes[n], processes'[n])
  BY <1>p, ProcessStepReleased
<1>6. CASE Occupied(processes'[n])
  <2>1. LiveAs(n)' = LiveAs(n)
    BY <1>3, <1>5, <1>6 DEF LiveAs, Released, Occupied
  <2> QED BY <1>1, <1>2, <2>1, DepartureRefines
<1>7. CASE ~Occupied(processes'[n])
  <2>1. containers'[n] # "running"
    BY <1>p, <1>1, <1>4, <1>7 DEF NodeInv
  <2>2. LiveAs(n)' = <<>>
    BY <1>7, <2>1 DEF LiveAs
  <2> QED BY <1>1, <1>2, <2>2, DepartureRefines
<1> QED
  BY <1>6, <1>7

(* Only a generation that was not closed is admitted.                      *)
LEMMA CreateRefines ==
  ASSUME IInv, NEW n \in Nodes, NEW r \in Runs, NEW g \in Generations, createNode(n, r, g)
  PROVE  [Barrier!BarrierNext]_(Barrier!barrierVars)
<1> USE DEF Admission, Daemon, Observations
<1> DEFINE live == [m \in Nodes |-> LiveAs(m)]
<1>p. /\ TypeOK /\ NodeInv(n) /\ processes \in [Nodes -> Processes]
  BY DEF IInv, TypeOK
<1>1. /\ up = "up" /\ ~processes[n].present /\ g > runFences[r]
      /\ \A m \in Nodes : m # n => processes'[m] = processes[m]
      /\ processes'[n].present /\ ~processes'[n].exited
      /\ processes'[n].run = r /\ processes'[n].gen = g
      /\ UNCHANGED <<containers, acknowledged>>
  BY <1>p DEF createNode, NoProcess
<1>2. \A m \in Nodes : m # n => LiveAs(m)' = LiveAs(m)
  BY <1>1, SameLive
<1>3. LiveAs(n) = <<>> /\ LiveAs(n)' = <<r, g>>
  BY <1>p, <1>1 DEF NodeInv, Occupied, LiveAs
<1>4. live[n] = <<>> /\ live' = [live EXCEPT ![n] = <<r, g>>]
  BY <1>2, <1>3
<1>5. ~\E c \in acknowledged : r = c[1] /\ g <= c[2]
  <2> SUFFICES ASSUME NEW c \in acknowledged, r = c[1], g <= c[2] PROVE FALSE
    OBVIOUS
  <2>1. c[2] <= runFences[r] /\ c[2] \in Nat /\ g \in Nat /\ runFences[r] \in Nat
    BY DEF IInv, StopInv, FenceInv, TypeOK, Generations
  <2> QED BY <1>1, <2>1
<1>6. Barrier!Admit(n, r, g)
  BY <1>1, <1>4, <1>5 DEF Barrier!Admit, Barrier!Absent
<1> QED
  BY <1>6 DEF Barrier!BarrierNext, Generations

(* Peers, the daemon and single stops only ever end an orphan.             *)
LEMMA EnvironmentRefines ==
  ASSUME IInv, NEW n \in Nodes, Environment(n)
  PROVE  [Barrier!BarrierNext]_(Barrier!barrierVars)
<1> USE DEF Admission, Daemon, Observations
<1>p. /\ TypeOK /\ containers \in [Nodes -> {"none", "created", "running", "exited"}]
  BY DEF IInv, TypeOK
<1>1. CASE \E r \in Runs, g \in Generations : createNode(n, r, g)
  BY <1>1, CreateRefines
<1>2. CASE ~\E r \in Runs, g \in Generations : createNode(n, r, g)
  <2>1. \A m \in Nodes : /\ processes'[m].run = processes[m].run
                         /\ processes'[m].gen = processes[m].gen
                         /\ Occupied(processes'[m]) <=> Occupied(processes[m])
    BY <1>p, <1>2, EnvironmentOccupied
  <2>2. /\ acknowledged' = acknowledged
        /\ \A m \in Nodes : m # n => containers'[m] = containers[m]
        /\ containers'[n] = containers[n] \/ containers'[n] # "running"
    BY <1>p, <1>2 DEF Environment, createRefused, vars, daemonCommitsLate, updateNode,
          peerExits, stopNode, lifetimeExpires, removeLeftover
  <2>3. \A m \in Nodes : m # n => LiveAs(m)' = LiveAs(m)
    BY <2>1, <2>2, SameLive
  <2>4. LiveAs(n)' \in {LiveAs(n), <<>>}
    BY <2>1, <2>2 DEF LiveAs
  <2> QED BY <2>2, <2>3, <2>4, DepartureRefines
<1> QED
  BY <1>1, <1>2

(* A successful answer closes generations none of whose Peers is left; all *)
(* other steps of a stop handler are invisible.                            *)
LEMMA RequestRefines ==
  ASSUME IInv, IInv', NEW w \in Requests, RequestStep(w) \/ RequestArrives(w),
         ~shutdownCompletes(w)
  PROVE  [Barrier!BarrierNext]_(Barrier!barrierVars)
<1> USE DEF Admission, Daemon, Observations
<1> DEFINE live == [m \in Nodes |-> LiveAs(m)]
<1>p. /\ TypeOK /\ \A m \in Nodes : NodeInv(m)
  BY DEF IInv
<1>1. containers' = containers
  BY DEF RequestStep, RequestArrives, collectPending, awaitContainer, answerRequest,
         requestTimesOut, stopAllList, stopAllNode, stopAllDone, stopRunGeneration,
         fenceAllRuns, beginShutdown
<1>2. \A m \in Nodes : LiveAs(m)' = LiveAs(m)
  BY <1>p, <1>1, RequestResumes, ResumedOccupied, SameLive DEF Resumed
<1>3. CASE answerRequest(w) /\ ~requests[w].failed
  <2> DEFINE pairs == requests[w].closes
  <2>1. /\ requests[w].phase = "wait" /\ acknowledged' = acknowledged \cup pairs
        /\ UNCHANGED <<processes, containers, up>>
    BY <1>3 DEF answerRequest
  <2>2. up = "up" /\ pairs \in SUBSET (Runs \X (1 .. MaxGeneration))
    BY <2>1 DEF IInv, StopInv, ServingInv, TypeOK, StopRequests, Generations
  <2>3. ASSUME NEW c \in pairs, NEW n \in Nodes,
               LiveAs(n) # <<>>, LiveAs(n)[1] = c[1], LiveAs(n)[2] <= c[2]
        PROVE  FALSE
    <3>1. Occupied(processes[n])
      BY <1>p, <2>2, <2>3 DEF LiveAs, NodeInv
    <3>2. processes[n].present /\ processes[n].run = c[1] /\ processes[n].gen <= c[2]
      BY <2>3, <3>1 DEF LiveAs, Occupied
    <3>3. c \in acknowledged'
      BY <2>1
    <3>4. AckInv'
      BY DEF IInv, StopInv
    <3> QED BY <2>1, <3>1, <3>2, <3>3, <3>4 DEF AckInv
  <2>4. live' = live
    BY <1>2
  <2>5. \A c \in pairs : \A n \in Nodes :
          ~(live[n] # <<>> /\ live[n][1] = c[1] /\ live[n][2] <= c[2])
    BY <2>3
  <2>6. Barrier!Close(pairs)
    BY <2>1, <2>4, <2>5 DEF Barrier!Close, Barrier!Within, Barrier!Absent
  <2> QED BY <2>2, <2>6 DEF Barrier!BarrierNext
<1>4. CASE ~(answerRequest(w) /\ ~requests[w].failed)
  <2>1. acknowledged' = acknowledged
    BY <1>4 DEF RequestStep, RequestArrives, collectPending, awaitContainer, answerRequest,
         requestTimesOut, stopAllList, stopAllNode, stopAllDone, stopRunGeneration,
         fenceAllRuns, beginShutdown
  <2> QED BY <1>2, <2>1, StutterRefines
<1> QED
  BY <1>3, <1>4

(* The Agent forgets its Peers and its answers: what runs is orphaned.     *)
LEMMA AgentExitRefines ==
  ASSUME NEW clean, AgentExits(clean)
  PROVE  [Barrier!BarrierNext]_(Barrier!barrierVars)
<1> DEFINE live == [m \in Nodes |-> LiveAs(m)]
           survivors == {m \in Nodes : containers[m] = "running"}
<1>1. \A m \in Nodes : LiveAs(m)' = IF m \in survivors THEN <<"none", 0>> ELSE <<>>
  BY DEF AgentExits, LiveAs, NoProcess, Occupied
<1>2. survivors \in SUBSET {m \in Nodes : live[m] # <<>>}
  BY LiveCases
<1>3. live' = [m \in Nodes |-> IF m \in survivors THEN <<"none", 0>> ELSE <<>>]
  BY <1>1
<1>4. acknowledged' = {}
  BY DEF AgentExits
<1>5. Barrier!Restart
  <2> HIDE DEF survivors
  <2> QED BY <1>2, <1>3, <1>4 DEF Barrier!Restart, Barrier!Absent, Barrier!Orphan
<1> QED
  BY <1>5 DEF Barrier!BarrierNext

(* Every step of the Agent is a step of the barrier or a stutter.          *)
LEMMA StepRefines ==
  IInv /\ IInv' /\ [Next]_vars => [Barrier!BarrierNext]_(Barrier!barrierVars)
<1> SUFFICES ASSUME IInv, IInv', [Next]_vars
             PROVE  [Barrier!BarrierNext]_(Barrier!barrierVars)
  OBVIOUS
<1> USE DEF Admission, Daemon, Observations
<1>1. ASSUME NEW n \in Nodes, ProcessStep(n) \/ Environment(n)
      PROVE  [Barrier!BarrierNext]_(Barrier!barrierVars)
  BY <1>1, ProcessStepRefines, EnvironmentRefines
<1>2. ASSUME NEW w \in Requests, RequestStep(w) \/ RequestArrives(w), ~shutdownCompletes(w)
      PROVE  [Barrier!BarrierNext]_(Barrier!barrierVars)
  BY <1>2, RequestRefines
<1>3. ASSUME NEW clean, AgentExits(clean) PROVE [Barrier!BarrierNext]_(Barrier!barrierVars)
  BY <1>3, AgentExitRefines
<1>4. CASE UNCHANGED <<processes, containers, acknowledged>>
  BY <1>4, SameLive, StutterRefines
<1> QED
  BY <1>1, <1>2, <1>3, <1>4 DEF Next, setCapacity, startAgent, reconciled, vars, crash,
        reconcileFails, shutdownCompletes

(* The peer table with its goroutines, retries, stop handlers, crashes and *)
(* reconciliation implements the abstract barrier of RunBarrier.           *)
THEOREM Refinement == Spec => ImplementsRunBarrier
<1>1. Init => Barrier!BarrierInit
  <2> SUFFICES ASSUME Init PROVE Barrier!BarrierInit
    OBVIOUS
  <2>1. \A m \in Nodes : LiveAs(m) = <<>>
    BY DEF Init, NoProcess, Occupied, LiveAs
  <2>2. [m \in Nodes |-> LiveAs(m)] = [m \in Nodes |-> <<>>]
    BY <2>1
  <2> QED BY <2>2 DEF Init, Barrier!BarrierInit, Barrier!Absent
<1> QED
  BY <1>1, StepRefines, Inductive, PTL DEF Spec, ImplementsRunBarrier, Barrier!BarrierSpec
=============================================================================
