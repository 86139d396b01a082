----------------------------- MODULE RunLifecycle -----------------------------
(***************************************************************************)
(* One execution of a batch of runs in the Controller: the scheduler       *)
(* goroutine of internal/controller/repeat.go (runRepeatedScenarios) and   *)
(* runner.go (runScenario), stop requests, and everybody else who writes   *)
(* the record of a run: run_integrity.go (rememberRunAgent,                *)
(* recordRunWriteError, retryFailedRunWrites) and updateExperiment.        *)
(*                                                                         *)
(* The record exists twice, in state.experiments and in experiment.json.   *)
(* Writers of the file hold persistMu over a read of the record, a write   *)
(* to disk and an update of memory; the record in memory is guarded by     *)
(* state.mu only, which they release in between.  Each section under one   *)
(* of the two locks is an action here, and so is each write to disk.       *)
(***************************************************************************)
EXTENDS Naturals, Sequences, FiniteSets

CONSTANTS
  MaxRepetitions,  \* runs of the largest batch, maxScenarioRepetitions
  MaxAgents,       \* bound: Agents that join one run
  MaxFaults        \* bound: failed writes, phases and cleanups

ASSUME RepetitionsAssumption == MaxRepetitions \in Nat \ {0}
ASSUME BoundsAssumption      == {MaxAgents, MaxFaults} \subseteq Nat

VARIABLES
  experiments,      \* state.experiments: the records of the batch in memory
  saved,            \* experiment.json of each run
  failedRunWrites,  \* state.failedRunWrites
  persistMu,        \* the write to disk in progress, or Free
  unreported,       \* runs with a failed event write not yet recorded
  canceled,         \* the context of the batch is canceled
  cancels,          \* runs with a cancellation handle in Server.cancels
  peers,            \* runs with Peers
  pc,               \* where the scheduler is
  current,          \* its iteration
  run,              \* the local variables of runScenario
  faults,           \* faults so far
  stopped,          \* runs a stop was accepted for, by where they were then
  hurt              \* runs with a recorded write error, and runs a join dropped one of

recordVars == <<experiments, saved, failedRunWrites, persistMu>>
schedVars  == <<pc, current, run>>
vars == <<recordVars, schedVars, unreported, canceled, cancels, peers, faults, stopped, hurt>>

(* Experiment.Repetitions, and the iterations.                             *)
Repetitions == Len(experiments)
Runs        == DOMAIN experiments

States     == {"queued", "running", "completed", "failed", "canceled"}
Terminal   == {"completed", "failed", "canceled"}
DataStates == {"pending", "collecting", "complete", "incomplete"}

(* The fields of model.Experiment that decide how a run is presented.      *)
Experiment == [state : States, stopRequested : BOOLEAN, integrityError : BOOLEAN,
               dataState : DataStates, agents : 0 .. MaxAgents]

Queued == [state |-> "queued", stopRequested |-> FALSE, integrityError |-> FALSE,
           dataState |-> "pending", agents |-> 0]

Free == [op |-> "none", run |-> 1, image |-> Queued, next |-> "admit"]

(* runErr, cleanupErr, dataErr, integrity and whether a stop-all was done. *)
NoErrors == [err |-> "none", cleanup |-> FALSE, data |-> FALSE, integrity |-> FALSE,
             watched |-> FALSE, stopAll |-> FALSE]

Init ==
  /\ \E count \in 1 .. MaxRepetitions : experiments = [i \in 1 .. count |-> Queued]
  /\ saved = experiments
  /\ failedRunWrites = {}
  /\ persistMu = Free
  /\ unreported = {}
  /\ canceled = FALSE
  /\ cancels = Runs
  /\ peers = {}
  /\ pc = "admit" /\ current = 1 /\ run = NoErrors
  /\ faults = 0
  /\ stopped = [cancelable |-> {}, waiting |-> {}]
  /\ hurt = [recorded |-> {}, dropped |-> {}]

FaultsLeft == faults < MaxFaults
Fault == FaultsLeft /\ faults' = faults + 1

-----------------------------------------------------------------------------
(* Writing a record.                                                       *)

WithError(e) ==
  [e EXCEPT !.integrityError = TRUE, !.dataState = "incomplete",
            !.state = IF @ = "completed" THEN "failed" ELSE @]

(* Mutant: the run is not listed for another write.                        *)
HurtUnlisted(i) ==
  /\ experiments' = [experiments EXCEPT ![i] = WithError(@)]
  /\ UNCHANGED failedRunWrites
  /\ hurt' = [hurt EXCEPT !.recorded = @ \cup {i}]

(* recordRunWriteError, under state.mu.                                    *)
Hurt(i) ==
  /\ experiments' = [experiments EXCEPT ![i] = WithError(@)]
  /\ failedRunWrites' = failedRunWrites \cup {i}
  /\ hurt' = [hurt EXCEPT !.recorded = @ \cup {i}]

(* updateExperiment takes persistMu and changes the record in memory; the  *)
(* write of this image follows.                                            *)
updateExperiment(i, e, next) ==
  /\ persistMu.op = "none"
  /\ experiments' = [experiments EXCEPT ![i] = e]
  /\ persistMu' = [op |-> "update", run |-> i, image |-> e, next |-> next]
  /\ pc' = "writing"

(* The write of a scheduler step succeeds, and its lock is released.       *)
updatePersisted ==
  /\ persistMu.op \in {"update", "result"}
  /\ saved' = [saved EXCEPT ![persistMu.run] = persistMu.image]
  /\ persistMu' = Free
  /\ pc' = persistMu.next
  /\ UNCHANGED <<experiments, failedRunWrites, unreported, canceled, cancels, peers, current,
                 run, faults, stopped, hurt>>

(* It fails: memory keeps the update and the write is retried later.       *)
updateFails ==
  /\ persistMu.op = "update"
  /\ Fault
  /\ Hurt(persistMu.run)
  /\ persistMu' = Free
  /\ pc' = persistMu.next
  /\ UNCHANGED <<saved, unreported, canceled, cancels, peers, current, run, stopped>>

(* rememberRunAgent: the record is read under persistMu, written with the  *)
(* new Agent, and only then put back into memory.                          *)
rememberRunAgent ==
  /\ pc = "running"
  /\ persistMu.op = "none"
  /\ experiments[current].agents < MaxAgents
  /\ persistMu' = [op |-> "remember", run |-> current, next |-> "running",
                   image |-> [experiments[current] EXCEPT !.agents = @ + 1]]
  /\ UNCHANGED <<experiments, saved, failedRunWrites, schedVars, unreported, canceled, cancels,
                 peers, faults, stopped, hurt>>

(* The create that follows adds a Peer.                                    *)
agentRemembered ==
  /\ persistMu.op = "remember"
  /\ saved' = [saved EXCEPT ![persistMu.run] = persistMu.image]
  /\ experiments' = [experiments EXCEPT ![persistMu.run] = persistMu.image]
  /\ peers' = peers \cup {persistMu.run}
  /\ persistMu' = Free
  /\ hurt' = IF experiments[persistMu.run].integrityError /\ ~persistMu.image.integrityError
             THEN [hurt EXCEPT !.dropped = @ \cup {persistMu.run}] ELSE hurt
  /\ UNCHANGED <<failedRunWrites, schedVars, unreported, canceled, cancels, faults, stopped>>

(* The join fails, and with it the run.                                    *)
rememberFails ==
  /\ persistMu.op = "remember"
  /\ Fault
  /\ persistMu' = Free
  /\ run' = [run EXCEPT !.err = "failed"]
  /\ pc' = "retire"
  /\ UNCHANGED <<experiments, saved, failedRunWrites, current, unreported, canceled, cancels,
                 peers, stopped, hurt>>

(* An event of the run cannot be written; appendRunEvents has released     *)
(* persistMu when it records that.                                         *)
eventWriteFails(i) ==
  /\ persistMu.op = "none"
  /\ i <= current
  /\ pc # "admit"
  /\ Fault
  /\ unreported' = unreported \cup {i}
  /\ UNCHANGED <<recordVars, schedVars, canceled, cancels, peers, stopped, hurt>>

recordRunWriteError(i) ==
  /\ i \in unreported
  /\ unreported' = unreported \ {i}
  /\ Hurt(i)
  /\ UNCHANGED <<saved, persistMu, schedVars, canceled, cancels, peers, faults, stopped>>

(* retryFailedRunWrites: the record is read under persistMu, written, and  *)
(* then taken off the list.                                                *)
retryFailedRunWrites(i) ==
  /\ persistMu.op = "none"
  /\ i \in failedRunWrites
  /\ persistMu' = [op |-> "retry", run |-> i, image |-> experiments[i], next |-> pc]
  /\ UNCHANGED <<experiments, saved, failedRunWrites, schedVars, unreported, canceled, cancels,
                 peers, faults, stopped, hurt>>

retryPersisted ==
  /\ persistMu.op = "retry"
  /\ saved' = [saved EXCEPT ![persistMu.run] = persistMu.image]
  /\ failedRunWrites' = failedRunWrites \ {persistMu.run}
  /\ persistMu' = Free
  /\ UNCHANGED <<experiments, schedVars, unreported, canceled, cancels, peers, faults, stopped, hurt>>

retryFails ==
  /\ persistMu.op = "retry"
  /\ Fault
  /\ persistMu' = Free
  /\ UNCHANGED <<experiments, saved, failedRunWrites, schedVars, unreported, canceled, cancels,
                 peers, stopped, hurt>>

-----------------------------------------------------------------------------
(* Stop requests.                                                          *)

(* Mutant: a single run can be stopped until its batch is gone.            *)
CancellableInBatch(i) == pc # "done"

(* A member of a batch can be stopped until the scheduler has exited, a    *)
(* single run only while its handle is there.                              *)
Cancellable(i) ==
  /\ pc # "done"
  /\ Repetitions <= 1 => i \in cancels

(* startScenarioRepeated holds cancelMu until the first run is running.    *)
Admitted == pc # "admit" /\ ~(pc = "writing" /\ persistMu.next = "next")

(* An accepted stop marks the members that have not finished and cancels   *)
(* the whole batch.  A refused one changes nothing.                        *)
StopScenario(i) ==
  LET open == {j \in Runs : experiments[j].state \in {"running", "queued"}} IN
  /\ Admitted
  /\ Cancellable(i)
  /\ experiments' = [j \in Runs |-> IF j \in open
       THEN [experiments[j] EXCEPT !.stopRequested = TRUE] ELSE experiments[j]]
  /\ canceled' = TRUE
  /\ stopped' = [cancelable |-> stopped.cancelable \cup
                                 (IF Repetitions <= 1 THEN {i} ELSE cancels \cap open),
                 waiting |-> stopped.waiting \cup
                             {j \in Runs : experiments[j].state = "queued"}]
  /\ UNCHANGED <<saved, failedRunWrites, persistMu, schedVars, unreported, cancels, peers,
                 faults, hurt>>

-----------------------------------------------------------------------------
(* The scheduler.                                                          *)

(* startScenarioRepeated starts the first run itself.                      *)
admit ==
  /\ pc = "admit"
  /\ updateExperiment(1, [experiments[1] EXCEPT !.state = "running"], "next")
  /\ UNCHANGED <<saved, failedRunWrites, current, run, unreported, canceled, cancels, peers,
                 faults, stopped, hurt>>

(* The loop of runRepeatedScenarios looks at the context first.            *)
nextIteration ==
  /\ pc = "next"
  /\ pc' = IF canceled THEN "cancelRest"
           ELSE IF experiments[current].state = "queued" THEN "start" ELSE "begin"
  /\ run' = NoErrors
  /\ UNCHANGED <<recordVars, current, unreported, canceled, cancels, peers, faults, stopped, hurt>>

(* Storage is full for too long: the remaining iterations are canceled.    *)
waitRunStorageFails ==
  /\ pc = "start"
  /\ canceled \/ FaultsLeft
  /\ faults' = IF canceled THEN faults ELSE faults + 1
  /\ pc' = "cancelRest"
  /\ UNCHANGED <<recordVars, current, run, unreported, canceled, cancels, peers, stopped, hurt>>

startRun ==
  /\ pc = "start"
  /\ updateExperiment(current, [experiments[current] EXCEPT !.state = "running"], "begin")
  /\ UNCHANGED <<saved, failedRunWrites, current, run, unreported, canceled, cancels, peers,
                 faults, stopped, hurt>>

(* runScenario.                                                            *)
runScenario ==
  /\ pc = "begin"
  /\ updateExperiment(current, [experiments[current] EXCEPT !.dataState = "collecting"], "enter")
  /\ UNCHANGED <<saved, failedRunWrites, current, run, unreported, canceled, cancels, peers,
                 faults, stopped, hurt>>

(* No phase begins under a canceled context.                               *)
enterPhases ==
  /\ pc = "enter"
  /\ IF canceled
     THEN pc' = "retire" /\ run' = [run EXCEPT !.err = "canceled"]
     ELSE pc' = "running" /\ UNCHANGED run
  /\ UNCHANGED <<recordVars, current, unreported, canceled, cancels, peers, faults, stopped, hurt>>

(* A create on an Agent the record has already.                            *)
createNode ==
  /\ pc = "running"
  /\ experiments[current].agents > 0
  /\ peers' = peers \cup {current}
  /\ UNCHANGED <<recordVars, schedVars, unreported, canceled, cancels, faults, stopped, hurt>>

(* A stop-all phase removes the Peers of the run.                          *)
stopAllPhase ==
  /\ pc = "running"
  /\ persistMu.op # "remember"
  /\ run' = [run EXCEPT !.stopAll = TRUE]
  /\ peers' = peers \ {current}
  /\ UNCHANGED <<recordVars, pc, current, unreported, canceled, cancels, faults, stopped, hurt>>

(* The last Peers of a run leave, by a phase or at the end of their life.  *)
peersLeave(i) ==
  /\ i \in peers
  /\ peers' = peers \ {i}
  /\ UNCHANGED <<recordVars, schedVars, unreported, canceled, cancels, faults, stopped, hurt>>

(* watchRunStorage sees the recorded error and cancels the scenario.       *)
watchRunStorage ==
  /\ pc = "running"
  /\ experiments[current].integrityError
  /\ ~run.watched
  /\ run' = [run EXCEPT !.watched = TRUE]
  /\ UNCHANGED <<recordVars, pc, current, unreported, canceled, cancels, peers, faults, stopped, hurt>>

(* The phases are over: done, interrupted by a cancellation, or failed.    *)
phasesEnd(err) ==
  /\ pc = "running"
  /\ persistMu.op # "remember"
  /\ CASE err = "none"     -> UNCHANGED faults
       [] err = "canceled" -> (canceled \/ run.watched) /\ UNCHANGED faults
       [] err = "failed"   -> Fault
  /\ run' = [run EXCEPT !.err = err]
  /\ pc' = "retire"
  /\ UNCHANGED <<recordVars, current, unreported, canceled, cancels, peers, stopped, hurt>>

(* Background jobs do not stop in time after their cancellation.           *)
jobsNotStopped ==
  /\ pc = "retire"
  /\ ~run.cleanup
  /\ Fault
  /\ run' = [run EXCEPT !.cleanup = TRUE]
  /\ UNCHANGED <<recordVars, pc, current, unreported, canceled, cancels, peers, stopped, hurt>>

(* Under cancelMu: a stop has won, or it will find no handle.              *)
retireHandle ==
  /\ pc = "retire"
  /\ cancels' = cancels \ {current}
  /\ run' = [run EXCEPT !.err = IF canceled THEN "canceled" ELSE @]
  /\ pc' = "cleanup"
  /\ UNCHANGED <<recordVars, current, unreported, canceled, peers, faults, stopped, hurt>>

(* A single run whose Peers were all stopped by a stop-all phase.          *)
Closed == run.stopAll /\ current \notin peers

(* Mutant: only runs that failed are cleaned up.                           *)
NeedsCleanupOnError == run.err # "none"

NeedsCleanup == run.err # "none" \/ run.cleanup \/ Repetitions > 1

(* Peers are fenced and removed, and the telemetry is drained.  A closed   *)
(* single run is only drained, and one that ended well is left alone.      *)
cleanup(outcome) ==
  /\ pc = "cleanup"
  /\ CASE outcome = "ok" ->
            /\ peers' = IF NeedsCleanup THEN peers \ {current} ELSE peers
            /\ UNCHANGED <<run, faults>>
       [] outcome = "notStopped" ->
            /\ NeedsCleanup
            /\ Fault
            /\ run' = [run EXCEPT !.cleanup = TRUE]
            /\ peers' \in {peers, peers \ {current}}
       [] outcome = "notDrained" ->
            /\ NeedsCleanup \/ (Closed /\ Repetitions = 1)
            /\ Fault
            /\ run' = [run EXCEPT !.data = TRUE]
            /\ peers' = peers \ {current}
  /\ pc' = "flush"
  /\ UNCHANGED <<recordVars, current, unreported, canceled, cancels, stopped, hurt>>

(* The last observation and the sync of the logs.                          *)
flushRunSources ==
  /\ pc = "flush"
  /\ pc' = "sample"
  /\ UNCHANGED <<recordVars, current, run, unreported, canceled, cancels, peers, faults, stopped, hurt>>

flushFails ==
  /\ pc = "flush"
  /\ Fault
  /\ Hurt(current)
  /\ run' = [run EXCEPT !.data = TRUE]
  /\ pc' = "sample"
  /\ UNCHANGED <<saved, persistMu, current, unreported, canceled, cancels, peers, stopped>>

(* The recorded error is read under state.mu, before the final update.     *)
sampleIntegrity ==
  /\ pc = "sample"
  /\ run' = [run EXCEPT !.integrity = experiments[current].integrityError]
  /\ pc' = "final"
  /\ UNCHANGED <<recordVars, current, unreported, canceled, cancels, peers, faults, stopped, hurt>>

ResultErr == run.err # "none" \/ run.cleanup \/ run.data \/ run.integrity

FinalState ==
  IF ~ResultErr THEN "completed"
  ELSE IF run.err = "canceled" /\ ~run.integrity THEN "canceled" ELSE "failed"

(* A single run that ended well keeps its Peers, and collects from them,   *)
(* unless it has stopped them all.                                         *)
Retained(e) ==
  /\ ~ResultErr /\ Repetitions = 1 /\ e.agents > 0
  /\ ~Closed

finishRun ==
  LET e == experiments[current]
      final == [e EXCEPT !.state = FinalState, !.integrityError = @ \/ run.data,
        !.dataState = IF Retained(e) THEN "collecting"
                      ELSE IF run.data \/ e.integrityError \/ run.cleanup THEN "incomplete"
                      ELSE "complete"]
  IN /\ pc = "final"
     /\ updateExperiment(current, final, "result")
     /\ UNCHANGED <<saved, failedRunWrites, current, run, unreported, canceled, cancels, peers,
                    faults, stopped, hurt>>

(* The result of a repeated run is written again, and decides whether the  *)
(* batch goes on.                                                          *)
checkResult ==
  LET done == experiments[current].state = "completed" IN
  /\ pc = "result"
  /\ persistMu.op = "none"
  /\ IF Repetitions > 1
     THEN /\ persistMu' = [op |-> "result", run |-> current, image |-> experiments[current],
                           next |-> IF done THEN "advance" ELSE "cancelRest"]
          /\ pc' = "writing"
     ELSE /\ pc' = IF done THEN "advance" ELSE "cancelRest"
          /\ UNCHANGED persistMu
  /\ current' = IF done THEN current ELSE current + 1
  /\ canceled' = (canceled \/ ~done)
  /\ UNCHANGED <<experiments, saved, failedRunWrites, run, unreported, cancels, peers, faults,
                 stopped, hurt>>

(* An unsaved result fails the run: the record goes back into memory as it *)
(* was read, and the error with it.                                        *)
resultNotPersisted ==
  /\ persistMu.op = "result"
  /\ Fault
  /\ experiments' = [experiments EXCEPT
       ![persistMu.run] = WithError([persistMu.image EXCEPT !.state = "failed"])]
  /\ failedRunWrites' = failedRunWrites \cup {persistMu.run}
  /\ hurt' = [hurt EXCEPT !.recorded = @ \cup {persistMu.run}]
  /\ persistMu' = Free
  /\ canceled' = TRUE
  /\ current' = persistMu.run + 1
  /\ pc' = "cancelRest"
  /\ UNCHANGED <<saved, run, unreported, cancels, peers, stopped>>

(* Mutant: the index is not advanced.                                      *)
advanceSame ==
  /\ pc = "advance"
  /\ pc' = IF Repetitions = 1 THEN "cancelRest" ELSE "next"
  /\ UNCHANGED <<recordVars, run, current, cancels, unreported, canceled, peers, faults, stopped,
                 hurt>>

(* After the last iteration there is none left to cancel.                  *)
advance ==
  /\ pc = "advance"
  /\ pc' = IF current = Repetitions THEN "cancelRest" ELSE "next"
  /\ current' = current + 1
  /\ UNCHANGED <<recordVars, run, unreported, canceled, cancels, peers, faults, stopped, hurt>>

(* cancelQueuedIterations, one update after the other.                     *)
cancelQueuedIteration ==
  /\ pc = "cancelRest"
  /\ current <= Repetitions
  /\ updateExperiment(current, [experiments[current] EXCEPT !.state = "canceled"], "cancelRest")
  /\ current' = current + 1
  /\ UNCHANGED <<saved, failedRunWrites, run, unreported, canceled, cancels, peers, faults,
                 stopped, hurt>>

schedulerExits ==
  /\ pc = "cancelRest"
  /\ current > Repetitions
  /\ pc' = "done"
  /\ cancels' = {}
  /\ canceled' = TRUE
  /\ UNCHANGED <<recordVars, current, run, unreported, peers, faults, stopped, hurt>>

-----------------------------------------------------------------------------
SchedulerStep ==
  \/ admit
  \/ nextIteration
  \/ waitRunStorageFails
  \/ startRun
  \/ runScenario
  \/ enterPhases
  \/ \E err \in {"none", "canceled", "failed"} : phasesEnd(err)
  \/ jobsNotStopped
  \/ retireHandle
  \/ \E outcome \in {"ok", "notStopped", "notDrained"} : cleanup(outcome)
  \/ flushRunSources
  \/ flushFails
  \/ sampleIntegrity
  \/ finishRun
  \/ checkResult
  \/ advance
  \/ cancelQueuedIteration
  \/ schedulerExits

WriteStep ==
  \/ updatePersisted
  \/ updateFails
  \/ resultNotPersisted
  \/ agentRemembered
  \/ rememberFails
  \/ retryPersisted
  \/ retryFails

Next ==
  \/ SchedulerStep
  \/ WriteStep
  \/ rememberRunAgent
  \/ createNode
  \/ stopAllPhase
  \/ watchRunStorage
  \/ \E i \in Runs : \/ StopScenario(i)
                     \/ peersLeave(i)
                     \/ eventWriteFails(i)
                     \/ recordRunWriteError(i)
                     \/ retryFailedRunWrites(i)

Spec == Init /\ [][Next]_vars

(* The scheduler and the writers are goroutines that always run; phases    *)
(* and cleanups have deadlines, and a full disk gets space again.          *)
FairSpec == Spec /\ WF_vars(SchedulerStep) /\ WF_vars(WriteStep)

-----------------------------------------------------------------------------
(* The values every variable may have.                                     *)
TypeOK ==
  /\ Repetitions \in 1 .. MaxRepetitions
  /\ experiments \in [Runs -> Experiment]
  /\ saved \in [Runs -> Experiment]
  /\ failedRunWrites \subseteq Runs /\ unreported \subseteq Runs 
  /\ hurt.recorded \subseteq Runs /\ hurt.dropped \subseteq Runs
  /\ persistMu.op \in {"none", "update", "result", "remember", "retry"}
  /\ persistMu.run \in Runs /\ persistMu.image \in Experiment
  /\ canceled \in BOOLEAN
  /\ cancels \subseteq Runs /\ peers \subseteq Runs
  /\ current \in 1 .. Repetitions + 1
  /\ run.err \in {"none", "canceled", "failed"}
  /\ faults \in 0 .. MaxFaults
  /\ stopped.cancelable \subseteq Runs /\ stopped.waiting \subseteq Runs

(* A stop that found the handle of an unfinished run has won: the run is   *)
(* canceled or failed, however far its phases were.  A single run refuses  *)
(* the stop instead once it is being finalized.                            *)
StoppedRunsDoNotComplete ==
  \A i \in stopped.cancelable : experiments[i].state # "completed"

(* An iteration that had not started when a stop was accepted never gets a *)
(* Peer, also when the scheduler was just about to start it.               *)
StoppedIterationsHaveNoPeers == peers \cap stopped.waiting = {}

(* Peers of two iterations never exist at the same time.                   *)
OneRunAtATime == Cardinality(peers) <= 1

(* Iterations share neither the fleet nor an accepted stop.                *)
IterationsDoNotOverlap == StoppedIterationsHaveNoPeers /\ OneRunAtATime

(* Memory never loses a recorded write error.                              *)
RecordedErrorsAreKept == \A i \in hurt.recorded : experiments[i].integrityError

(* A run with a recorded write error is never shown as completed.          *)
RecordedErrorsFailTheRun ==
  \A i \in Runs : experiments[i].integrityError => experiments[i].state # "completed"

(* When the scheduler has exited, a recorded error that is not on disk is  *)
(* still on the list of writes to repeat; unless a join had dropped an     *)
(* error of that run from memory, which RecordedErrorsAreKept is about.    *)
RecordedErrorsReachTheDisk ==
  pc = "done" =>
    \A i \in Runs \ hurt.dropped : experiments[i].integrityError /\ ~saved[i].integrityError =>
      i \in failedRunWrites

(* Every batch ends, with an outcome for each of its runs.                 *)
BatchesEnd == <>(pc = "done" /\ \A i \in Runs : experiments[i].state \in Terminal)
=============================================================================
