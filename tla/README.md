# TLA+ models of K-P2PLab

K-P2PLab runs peer-to-peer experiments: a **Controller** schedules scenario
runs over a fleet of **Agents**, each Agent runs **Peers** (libp2p nodes) in
Docker containers, and telemetry flows back from the Peers through their Agent
to the Controller's durable event log. This directory models the parts in which
processes, messages and crashes interleave, checks them with TLC on small
instances and proves the most important properties with TLAPS for all of them.

## 1. The system

| Part | State | Operations | Hard because |
|------|-------|------------|--------------|
| Agent peer table (`internal/agent/agent.go`, `container.go`, `docker.go`) | `processes`, `runFences`, `shuttingDown`, capacity; the containers of the Docker daemon | create, status report, stop of a Peer / a run generation / everything, lifetime, removal and retry, shutdown, startup reconciliation | one goroutine per Peer, several stop handlers, Docker commands that fail after taking effect, crashes |
| Agent heartbeats (`heartbeat.go`) | acknowledged exits, registration flag, one POST in flight | register, heartbeat in batches, status answer | answers lost or late, Controller restarts |
| Agent telemetry (`agent.go` 830-960, `telemetry_spool.go`, `run_drain.go`) | queue, batch in flight, exit markers, spool segments and their acknowledgments on disk | enqueue, flush, acknowledge, drain, replay at start | crash between any two steps, partial acknowledgment, duplicates |
| Controller fleet state (`state.go`, `runner.go`, `agent_capacity.go`) | `agents`, `agentSnapshots`, `nodes`, `reservations` | registration, heartbeat, status refresh, reserve, create, record, release, stop, lease expiry | reports cross in flight, create answers outlive instances |
| Controller event log (`state.go` 356-498, `run_metrics.go`) | `events.jsonl`, the identities seen | append per run, de-duplicate | write errors, batches of several runs, restarts |
| Runs and batches (`runner.go`, `jobs.go`, `repeat.go`, `resume.go`, `batch_*.go`, `submissions.go`) | experiments, generations, batch journal | submit, schedule, phases, stop, resume, append | journal and memory must agree after a crash |
| Phases and background jobs (`runner.go` 150-820 and 1230-1426, `jobs.go`, `internal/scenario`) | the phases, named jobs, operations in flight, the first failure of a job | join, publish, leave, waits, stop-all, end of the run | jobs and operations end in any order, fail and are canceled at once; a stop-all meets creates on their way |
| Run archive and storage (`run_archive*.go`, `run_storage.go`) | logs and files of a run on the local disk and in an external store, its index, the worker's queue | seal, rotate, upload, remove, import, capture, delete | readers, late writes, deletions and crashes between any two steps; the store fails |
| Analyses and downloads (`analysis_jobs.go`, `batch_analysis.go`, `results.go`) | jobs, slots, artifacts, sizes measured, flights | analyse a run or a batch, cancel, download, delete | work without locks over files that change; requests share work that fails |
| Delivery metrics (`run_metrics_window.go`, `internal/peer/telemetry.go`) | sequence ranges and sessions, the Peer's event queue and clock | measure, queue, drop, synchronize; join ranges, judge a pair | events lost, dropped, late and reordered; clocks that are off |
| Peer (`internal/peer`), the rest | libp2p host, its options | publish, discover | third-party protocols |
| Model, distribution, netem, auth, web UI, CLI | configuration | parsing, sampling, rendering | mostly sequential |

The Controller calls the Agents over HTTP (create, stop, status, drain); Agents
post registrations, heartbeats and telemetry to the Controller; Peers post
status and telemetry to their Agent. Nothing is shared but these messages and,
inside a process, the state behind a mutex.

### What makes each part correct

* **Agent peer table.** A successful stop of a run generation means that none of
  its Peers runs, occupies a slot or appears later, although creates, lifetimes,
  other stops and retried removals are in progress. Every running container is
  charged to a slot. A failed removal can be retried. A removed Peer leaves one
  exit marker. Every stop ends, every request is answered.
* **Fleet state.** Whatever order reports, create answers and stops arrive in, and
  whoever restarts, the Controller never forgets capacity it knows is in use,
  never leaks a reservation, never revives what it recorded as ended, never lists
  a node as live that its Agent does not have, never places one node twice.
* **Telemetry.** What the Agent has acknowledged is durable at every point a crash
  may hit, reaches the log of its run, in source order, and once as long as the
  Controller remembers what it logged. A successful drain means a complete log.
* **Runs.** An accepted stop wins over a scenario that is ending well. Iterations
  do not overlap. An iteration that was waiting when the batch was stopped never
  creates a Peer. Every run gets an outcome, every batch ends, and a run whose
  results could not be written is not presented as complete.
* **Admission and recovery.** A batch is admitted entirely or not at
  all, what was committed survives a crash, an iteration has one current run, a
  repeated submission starts nothing twice, a run ID is executed once.
* **Phases.** A scenario that was accepted never waits for a job that does not
  exist. After a stop-all nothing of before is at work on any Agent. A failure
  that no phase tolerates is in the outcome, whatever else was canceled because
  of it. A run that fails or is stopped ends, though no Agent answers.
* **Archive.** What a reader captures is what had been persisted, wherever its
  parts are by then. Local data is removed only when the store has it, is never
  forgotten by the worker, and a deleted run does not come back.
* **Analyses and downloads.** An analysis that is shown as current is one of the
  present bytes. The announced length is that of the body. Nobody waits for work
  that has ended. Work under way does not undo a deletion.
* **Delivery metrics.** "Missed", "on time" and "departed" are true of the
  receiver, and are not reversed by events that arrive later.

## 2. Modules

| Module | Models | Checked by | Composes |
|--------|--------|-----------|----------|
| `AgentPeers` | The Agent's peer table over an external Docker daemon | `MCAgentPeers` | refines `RunBarrier` |
| `RunBarrier` | The promise behind a stop of a run generation | `agent_overlap` | |
| `AgentPeersProofs` | Theorems about `AgentPeers`, with its refinement of `RunBarrier` | TLAPS | extends `AgentPeers` |
| `ControllerFleet` | Agents, network and Controller: reports, reservations, creates, stops | `MCControllerFleet` | the Peer states of `AgentPeers`, abstracted |
| `ControllerFleetProofs` | Theorems about `ControllerFleet` | TLAPS | extends `ControllerFleet` |
| `TelemetryDelivery` | Peers, Agent queue and spool, Controller log | `MCTelemetryDelivery` | the exit markers of `AgentPeers` |
| `TelemetryDeliveryProofs` | Theorems about `TelemetryDelivery` | TLAPS | extends `TelemetryDelivery` |
| `RunLifecycle` | The scheduler of one batch, stops, and the writers of run records | `MCRunLifecycle` | uses the barrier and the drain as its cleanup step |
| `RunLifecycleProofs` | Theorems about `RunLifecycle` | TLAPS | extends `RunLifecycle` |
| `BatchAdmission` | The journal of a batch over a disk that may lose what is not synced | `MCBatchAdmission` | `RunLifecycle`, reduced to starts and outcomes |
| `ScenarioPlan` | The phases of a scenario, their defaults and validation | with `PhaseExecution` | |
| `PhaseExecution` | The execution of a run: phases, jobs, operations, stop-all | `MCPhaseExecution` | `ScenarioPlan`; fences and Peers of `AgentPeers`, the inventory of `ControllerFleet`, abstracted |
| `PhaseExecutionProofs` | Theorems about `PhaseExecution` | TLAPS | extends `PhaseExecution` |
| `RunArchive` | The saved data of a run between disk, store, readers and deletion | `MCRunArchive` | the log of `TelemetryDelivery`, as a sequence |
| `RunArchiveProofs` | Theorems about `RunArchive` | TLAPS | extends `RunArchive` |
| `ResultAnalysis` | Analyses, downloads and deletions of a batch | `MCResultAnalysis` | the files of `RunArchive`, as versions |
| `ResultAnalysisProofs` | Theorems about `ResultAnalysis` | TLAPS | extends `ResultAnalysis` |
| `DeliveryWindow` | A receiver's measured session and the verdict on one message | `MCDeliveryWindow` | the transport of `TelemetryDelivery`, as a set |
| `DeliveryWindowProofs` | Theorems about `DeliveryWindow` | TLAPS | extends `DeliveryWindow` |

In all modules one action is one critical section of the mutex named in its
comment, or one operation of something outside it (a Docker command, an HTTP
exchange, a write to disk). Definitions carry the names of the functions they
translate; PROJECT.json maps each of them to its lines. Operators whose comment
starts with "Mutant:" are deliberately wrong variants of the definition that
follows; the project never uses them, they only serve to show that a property
can fail.

### AgentPeers

State: `processes`, `runFences`, `shuttingDown` and `capacity` are the fields of
`agent.Server`; `containers`, `lateCreates` and `leftovers` are the Docker
daemon's; `requests` is where each stop handler stands. A process record has the
step its goroutine (`runDockerProcess`) is in, whether its context is canceled,
its cleanup error and its reported state. `createNode`, `updateNode`, `stopNode`,
`stopRunGeneration`, `fenceAllRuns`, `beginShutdown`, `setCapacity` are the entry
points; `writePeerConfig` to `removeAndFinish` the goroutine; `collectPending`,
`awaitContainer`, `answerRequest`, `requestTimesOut` the wait of a stop handler;
`crash`, `startAgent`, `removeLeftover`, `reconciled` a restart.

A Docker command may fail without effect, fail after taking effect, or, for
`docker create`, take effect after its client has gone. `acknowledged`,
`cleanExit` and `peak` record answers and are read by properties only. Left out:
status reports that change a timestamp only; the telemetry drain inside DELETE
/nodes (see `TelemetryDelivery`); the content of statuses. The lock section of a
stop and the `cancel()` after it are one action: cancellation is idempotent and
nobody else reads the context under the lock. Requests wait for their containers
in any order. Fences live in memory, so `acknowledged` is cleared with the Agent.

### ControllerFleet

State: `agents`, `agentSnapshots`, `nodes` and `reservations` are the fields of
`controller.state`; `instance`, `peers`, `captured`, `acknowledged`, `registered`
and `call` belong to the Agents (`heartbeat.go`); `reports` is the network. Times
are the capture numbers of an Agent, which is what the code compares. Reports may
be lost, late and reordered; `callFails` lets the Agent give up on one that still
arrives. `agent` restarts are one step (crash and start). Placement preference
(`balancedAgentBefore`) is a free choice among the Agents with room; lease expiry
may happen at any time; a create answer's `LastSeen` is older than any report.

### TelemetryDelivery

State: `post` is the request a Peer has open; `events`, `flight`, `terminations`,
`spoolError` and `closed` are the Agent's memory; `segments` is its spool, each
with the acknowledged position in memory (`ack`) and on disk (`saved`); `batches`
are requests at the Controller; `seen` the identities in its accumulators, `log`
the event logs. `flushEvents` takes a prefix of the queue, `acknowledge` and
`acknowledgeFails` retire it segment by segment, `Replay` rebuilds the queue at a
start. Every fault, of any kind, draws on one budget `MaxFaults`.

Accumulators are not reloaded when the Controller restarts, so a log may then
repeat events (`repeatable`); readers of a log de-duplicate. Exit markers are
kept in queue order (the code keeps a map and emits it in one batch). The two
lock sections of the last test of a drain are one. Deleting the log of a run is
not modelled.

### RunLifecycle

State: `experiments` and `saved` are the records in memory and on disk;
`persistMu` is the write in progress together with the copy being written, which
is what makes the races of this part visible; `failedRunWrites` the list of
writes to repeat; `cancels` and `canceled` the handles and the context of the
batch; `pc`, `current` and `run` the scheduler goroutine and its local variables;
`stopped` and `hurt` are history for the properties.
A record keeps the fields that decide how a run is presented; updates of display
fields (phase, job counts, cleanup state) would only store one more copy of the
current record and are left out. The operations of the phases are creates,
stop-all phases and Peers that leave, in any order and number; background jobs
run inside the phases (both are in `PhaseExecution`). Deleting results, restarting the Controller, resuming a
batch and Agents without the drain operation ("unverified" data) are left out.

### BatchAdmission

State: `disk` is what processes see of one batch: its journal (`batch.json`), the
directories of its runs, the deletion markers and the receipt of its submission
key; `durable` is the same after a power failure. A synced write reaches both.
`op` is the operation that holds `cancelMu`, and where it stands: `submitScenario`
and `submitAgain`, `requestRuns` (continue, retry, append), `deleteSavedResult`
and `deleteSavedBatch`. Each first rolls back what the journal still holds
(`restoreRun` to `rollbackDone`), then plans (`startScenarioRepeated`,
`planContinue`, `planRetry`, `planAppend`, `refused`), journals (`prepare`,
`syncPrepare`), writes the runs (`makeDirectory`, `reuseDirectory`,
`persistManifest`, `syncRuns`), publishes (`publish`, `syncPublish`) and accepts.
`stepFails` lets any of these steps fail, `processCrash` and `powerFailure` come
between any two, `recoverBatchExtensions` follows. The scheduler is reduced to the
records it writes. `past` is history for the properties.

After a power failure each file and directory entry that was not synced is the
old or the new one, independently; a file that is replaced by a rename is never
half written. Marker files are not synced by the code, so a deletion can be
undone by a power failure: `past.lost` records it and the properties say what
that excuses. The same holds for a receipt whose sync failed. An answer that
repeats an earlier one (`answerExisting`) counts as a promise only if the first
one was given: the code may repeat an answer about a batch whose last sync
failed. Batches older than the journal are left out.

### ScenarioPlan and PhaseExecution

`ScenarioPlan` translates the defaults and the validation of phases; texts are
members of small sets, job `n` the name that phase `n` takes when it names none.
`PhaseExecution` submits each plan of a given set, which `Validate` accepts or
refuses. `run` is what `runScenario` keeps; `thread` holds one record per
execution of a phase, thread 0 for the scheduler's own goroutine and thread `j`
for that of job `j`; `registered` is `phaseJobs`; `requests` are creates as they
travel, with an Agent that may admit one after its caller has given up; `agents`
keeps of each Agent its fence, its Peers and its capacity. A phase is dispatched
operation by operation to at most `parallelism` workers (`dispatched` and the
actions of one operation), its error is what `operationsError` makes of theirs,
and a job's error reaches the run through `recordAsyncFailure`.

Agents are online and do not restart; the fence of a generation is one step at
an Agent (`AgentPeers` has its detail) and heartbeats read the present state
(`ControllerFleet` has stale ones). Timeouts may fire at any time. Which Peers a
phase selects is a free choice among those the code may select. Left out: the
watch on the free disk space, job counters, timings and logs, the resolution of
node configurations, which is taken to succeed.

### RunArchive

State: `dir`, `tail`, `sealed`, `files`, `index`, `importing`, `deleted`, `cleaned`
are what the local disk has of one run; `remote` its directory in the store;
`queued`, `touched`, `loaded`, `scanned` the worker's bookkeeping; `worker` and
`reader` where the background worker and each capture stand. An event is its
position, a file its version, so a log is right exactly if it reads 1, 2, ..., n.
`persistEvents`, `persistExperiment` and `saveAnalysisJob` write; `takePending`
to `dequeue` archive; `importArchivedRuns` to `importDone` discover a run in the
store; `cleanDeletedArchives` to `noteRemoval` delete there; `captureResultFiles`
to `closeSnapshot` read. Every operation on the store may fail (`workerFails`),
and a restart may hit any step.

One log stands for events and observations, one file for each treatment (kept
locally, or removed). A rename that a power failure undoes is not modelled, nor
are pauses of the worker. Captures taken while an import is unfinished read a
run without its index; `CapturesAreExact` does not cover them.

### ResultAnalysis

State: `data` and `here` are the source files and the presence of each run;
`stored` the job and the artifact on disk of each subject (a run, or the batch);
`jobs`, `slot`, `sizes`, `flight` the maps and semaphores of the Controller;
`task` the requests and goroutines, each with the job ID it works for. A job goes
through `captureRun`, `beginRun`, `analyzeRun` (or `captureMember` to `endPass` for
the batch), `stageAnalysisJSON` and `saveAnalysisJob`; a download through
`prepareResultArchiveInfo`, `acquireResultArchiveSlot`, `measure`, `sendHeaders` and
`streamed`, sharing a flight with others. Events that still arrive, files that
move, deletions, the clock and restarts come between any two.

Bytes are version numbers, and a source revision is what the cheap check sees.
The read of a batch's membership is one step, although the code reads it in
several sections: a revision is never used twice, so that a torn read matches no
later one. Left out: results written before content hashes existed, notes and
lists, results of the batch that are not analyses.

### DeliveryWindow

State: `clock`, `peer` are the receiver's clock error and telemetry; `message` the
publication; `transit` and `arrived` the events on their way and at the
Controller; `ranges` the sequence ranges as the Controller keeps them; `truth`
what happened, for the properties. `startMeasurement`, `checkpoint`,
`stopMeasurement`, `deliver`, `duplicate`, `seal`, `flush`, `exits`, `synchronize` are
the Peer's, `queueTermination` the Agent's; `observe` adds an event and its number
to `ranges`, by `add`: the code keeps the ranges in a sorted list, the model as a
set, whose order their numbers tell.
`stableVerdict` and `initialVerdict` are what a summary concludes of the pair.

One message and one receiver: the code judges each pair on its own, by the
receiver's session. True time and clocks differ by at most `Uncertainty`, also
before the first synchronization; the clocks of publisher and Agent are exact;
a batch may be delivered twice. The publication is known to the Controller at
once, because a summary made before does not count it.

## 3. Runs

| Run | Bounds | Question |
|-----|--------|----------|
| `agent_safety` | 2 nodes, 1 run, 2 generations, capacities 1 and 2, 1 handler, 1 failed removal | are stops final and complete, slots charged and bounded, through crashes and shutdowns |
| `agent_overlap` | 1 node, 2 generations, 2 handlers, 1 failed removal, fair | does the table implement `RunBarrier` when handlers overlap; do stops end |
| `fleet_restart` | 1 Agent (2 starts), 1 node, 4 reports, 1 Controller restart; or 2 Agents of 1 slot, 2 nodes, 3 reports with at most 2 of an Agent, no restart (`Bounded`) | restarts, reports of an earlier instance; batches against full answers, placement after a 429 |
| `telemetry_order` | 1 Peer, 3 events, queue 4, requests of 2, 2 faults | durability, order, repetitions, drains |
| `telemetry_runs` | 2 Peers of 2 runs, 1 event each, 1 fault, fair | one request with events of two runs; does everything accepted arrive |
| `run_batch` | 1 to 3 runs, 0 or 1 Agent, 2 faults, fair | stops at any moment, single runs and batches; recorded errors; does a batch end with outcomes |
| `admission_crash` | batches of 1 or 2 runs, 1 more run ID, 1 failing step, 2 crashes | is admission atomic, does what was accepted survive, is nothing started twice |
| `archive_store` | a run found locally, archived, or archived by an older version; 1 reader, 2 events, 2 versions of each file, 1 crash | are captures exact, is nothing local lost, is deletion final |
| `result_jobs` | 2 runs, 2 requests, 2 events, 2 jobs and 1 measurement at a time | are analyses, sizes and waits right, does a deleted run stay deleted |
| `phase_plans` | 14 plans on 2 Agents of 1 slot, one of which reported more; up to 3 jobs and Peers, 1 failure | do names resolve, failures reach the outcome, generations end, failed runs end |
| `delivery_window` | window 2, uncertainty 1, queue of 4, 5 instants, 4 events, 1 synchronization | are verdicts true and final |
| `run_lost` | 1 run, 1 fault | finding: recorded errors (below) |

Three more configurations are kept for reproducing counterexamples by hand, and
TLC reports the violation in each: `TelemetryDelivery_stall.cfg`,
`RunLifecycle_late.cfg` and `ResultAnalysis_resurrection.cfg` (section 5).

**Why these bounds.** The properties speak of one Peer, run, node or event at a
time and of who interferes with it: one more actor of each kind is enough for
every pairwise interference, and the runs keep at least that where it matters
(two Peers in two generations, two handlers, two nodes for one slot, two runs in
one request, three iterations so that one is waiting while another one ends).
`telemetry_order` has a queue longer than a request, so that a request cuts the
queue, and three events, so that one is logged, one in flight and one behind it.
`telemetry_runs` has one fault because two particular ones reach the stall of
section 5. `run_batch` has two faults, so that one write error is recorded while
another one is retried. `run_lost` shows that a join can drop an error from
memory; the next retry then saves the record without it and takes the run off the
list. `hurt.dropped` notes the runs a join did that to, and
`RecordedErrorsReachTheDisk` is about all others.
`admission_crash` has run IDs for a batch of two that is continued, or for one
run that is retried or extended; a crash may hit the recovery of another one. With
the bounds 2 (further IDs), 1 (failure) and 1 (crash), that is 23 million states
and retries of whole batches, its properties hold as well; that takes too long to
be a run. `archive_store` has two events, so that one is sealed or archived while
the other one arrives, and two versions, so that a file changes while it is
copied. `result_jobs` has two requests, so that one joins, waits for or overtakes
the other, and two events, so that data change before and after a capture. The
plans of `phase_plans` contain each kind of phase, awaited and not, both ends of a
run, two generations, a limit on parallelism and one plan that validation
refuses; one slot makes an Agent refuse a create the inventory allowed. The
window of `delivery_window` is longer than the uncertainty of the clock, and its
queue drops the fifth event; all verdicts occur.

Symmetry is used only in runs without fairness, over node,
run, request or Agent identities the model treats alike. Deadlock is checked for
`AgentPeers` and `RunArchive`, which can always go on. In the other modules the
bounds stop every behaviour, and programs that are done or idle stop as well; that
nothing hangs is what the liveness runs and `WaitsAreForWork` check.

**Fairness.** `AgentPeers`: each goroutine and each handler is weakly fair,
because the Go scheduler runs it and every Docker command except `docker wait`
has a deadline; `docker wait` is forced to return only once it is canceled or the
Peer has exited. Peers and clients are not fair. `TelemetryDelivery`: the flush
loop and the Controller's handlers are weakly fair: a timer and HTTP deadlines
drive them; Peers and faults are not. `RunLifecycle`: the scheduler and a write
to disk are weakly fair; this assumes that phases end, as their timeouts make
them, and that a batch waiting for disk space gets some or is stopped. Stops,
retries and Agents are not fair. `PhaseExecution`: the scheduler's goroutine and
the goroutine of each job are weakly fair, each as a whole; their waits have
timeouts, which may fire at any time. Agents, Peers, requests and `StopScenario`
are not fair: `FailedRunsEnd` holds although no Agent ever answers. `RunArchive`
and `ResultAnalysis` assume no fairness: whether an upload ends is up to the
store, and for analyses `WaitsAreForWork` states as an invariant that whatever
is waited for is at work.

## 4. Proofs

Every theorem holds for any values of the constants that satisfy the assumptions
named in the module: bounds are natural numbers, capacities are positive, a batch
has at least one run, `Nodes` is finite, `NoAgent` is no Agent, every Peer has a
run, a measurement's window is positive, a submitted plan is a sequence of records with the fields of a phase, valid
or not. No theorem assumes anything else. The invariants below were checked by TLC
on the bounds of the module's run before they were proved; the exceptions are
`CopyInv` and `ReaderInv` of `RunArchiveProofs`, which quantify over all sequences,
so that TLC checked only what follows from them. There is one lemma per action (or
group of actions that differ little), each with one step per part of the
invariant; frame lemmas dispose of what an action leaves alone.

### AgentPeers

`AgentPeersProofs` proves `TypeCorrect`, `StopBarrier` (`StoppedGenerationIsGone`),
`ChargedPeers` (`RunningPeersAreCharged`), `RetryableCleanup`
(`FailedCleanupIsRetryable`), `SingleTermination` and `CleanExit`. None of these is
inductive. The invariant `IInv` (theorem `Inductive`) has three parts:

* `TypeOK`;
* `NodeInv(n)` for every node: what the step of a process's goroutine implies
  about its container, its slot, its exit markers and its retry target. It links
  the goroutine's program counter to the daemon, which the properties leave open;
* `StopInv`: `ServingInv` (handlers exist only while the Agent runs), `FenceInv`
  (an acknowledged or awaited generation lies behind the fence of its run, so no
  create can enter it), `WaitInv` (a handler that waits has collected every Peer
  of its generation that still occupies a slot, or has seen its removal) and
  `AckInv` (an acknowledged generation has no Peer that occupies one).

`StopBarrier` needs all of it: the answer follows from `WaitInv` when the last
container is awaited, `FenceInv` keeps creates out from then on, and `NodeInv`
turns "occupies no slot" into "its container does not run".

The rest builds on the same invariant. `StopsAreFinal`
(`StopIsFinal`) shows for every step that it settles the processes it changes
(`Settled`: nothing that closes opens again). `CapacityBound`
(`CapacityIsRespected`) adds that the slots in use, counted by `Cardinality`, stay
below the largest capacity so far: a create adds one slot after it compared, every
other step adds none. `Refinement` (`ImplementsRunBarrier`) maps every action to
the step of `RunBarrier` it implements: a create that is admitted is `Admit`, the
end of a process `Leave`, an answer `Close`, a crash and a start `Restart`, the
rest stutters. `FenceInv` gives the guard of `Admit`, `AckInv` that of `Close`.

### ControllerFleet

`ControllerFleetProofs` proves all safety properties of the module: `OneAgent`
(`OneAgentPerNode`), `CapacityAccounted` (`CapacityIsAccounted`), `LiveRecords`
(`LiveRecordsHaveAPeer`), `AcknowledgedExits` (`AcknowledgedExitsAreKnown`) and the
action property `StopsStay` (`StopIsNotUndone`). The invariant has six parts:

* `TypeOK`;
* `PlaceInv`: the one create of a node says where it is; the Agent's Peer, the
  record, the reservation, every report and every call in progress agree with it.
  A node that nothing has created yet is unknown everywhere;
* `InstanceInv`: the Controller knows no instance that has not started, and what a
  report or an open create says of the running instance is still so;
* `CaptureInv`: capture times are used once, so that a report with the time of the
  Agent's call holds what the call was captured with;
* `ReservationInv`: a create in progress holds its reservation until the node is on
  record or the Agent has registered again; with `KnownPeersAreCharged` and
  `ReservationsAreReleasable`;
* `AckInv`: while an Agent's registration is accepted and the Controller knows the
  Agent, it has its instance and its acknowledged exits. A Controller that
  restarted meanwhile cannot learn of the Agent from a late registration, because
  the Agent has one POST in progress and had an answer to that one.

The hard step is `applyHeartbeat`. A report older than the snapshot applies final
exits only, so the slots it gives back (`FewerNodes`) are those of reservations it
ends; a newer one counts what it observed and the reservations left open, and every
node still charged is among them (`NodesOfBoth`). An accepted answer acknowledges
the exits of its batch: by `CaptureInv` they are those of the report that was
applied, even if an older copy was what got answered.

### TelemetryDelivery

`TelemetryDeliveryProofs` proves `Durability` (`AcceptedEventsAreDurable`),
`CompleteDrains` (`DrainedRunsAreLogged`) and `OrderedLogs` (`LogsAreInOrderOnce`).
The invariant has seven parts: `TypeInv`; `SpoolInv` (what a segment counts as
acknowledged is logged, what was accepted is logged or in a segment); `RequestInv`
(a request's runs that are done are logged, one request is waited for and carries
the batch in flight); `QueueInv` (what is accepted is logged or still in memory);
`LogInv` (identities in memory are logged; logs are in order, and without
repetition until memory is lost); `OrderInv` (the predecessor of every event of a
queue, batch, segment or replay is logged or ahead of it); `PostInv` (a Peer posts
what follows on what was accepted).

It rests on lemmas about the operators of the model: what selecting and filtering a
sequence keeps (`Ranks` numbers the positions kept), what a log becomes when a
batch is appended, what a replayed spool holds. `Tails` is a recursive function;
what it does to every segment is shown by the least segment for which it would not
hold (`LeastNat`), not by induction over an operator.

### RunLifecycle

`RunLifecycleProofs` proves `StopsWin` (`StoppedRunsDoNotComplete`), `NoOverlap`
(`IterationsDoNotOverlap`) and `ErrorsReachTheDisk` (`RecordedErrorsReachTheDisk`).
The invariant has five parts: `TypeInv`; `ControlInv` (who holds `persistMu`);
`HandleInv` (a run has its cancel handle until it is retired, and no completed run
has one, so that a stop that finds the handle precedes the outcome); `PeerInv` (only
the current iteration has Peers, and those it leaves behind fail it and the batch);
`DiskInv` (a recorded error is on disk, on the list of writes to repeat, or in the
image being written). `stage` is where the scheduler goes on after the write it
waits for, so that each part speaks of a write and of what follows it at once.

### RunArchive

`RunArchiveProofs` proves all properties of the module: `DeletedForEver`
(`DeletionIsFinal`), `QueueIsComplete` (`UnsavedDataIsQueued`) and `CapturesExact`
(`CapturesAreExact`), and on the way `LogIsWhole` and `ArtifactIsKept`. There are
five invariants, each inductive together with those before it:

* `BaseInv`: types, and what the step of the worker says of the run (an import is
  of a run without an index, a section under the lock of a run that is not
  deleted, nothing of a cleaned run is in the store). The deletion follows from it;
* `QueueInv`: while the worker archives and nothing was touched meanwhile, whatever
  is on the disk is known to be copied or still to be copied (`Covered`,
  `Leaving`), so that nothing is left when the run is taken off the queue;
* `CopyInv`: the published index, the sealed segments it does not list and the tail
  tile the numbers 1 to `written` (`Whole`), every listed part is in its object
  (`Sound`), and the published index extends the local one. An index that was
  published but not recorded is what makes this hard: the next cycle merges it with
  the local one (`LaterSplit`, `MergedPublished`), and copies only what neither has;
* `FileInv`: the last version of the artifact is on the disk, or both indexes have it;
* `ReaderInv`: what was captured and has not been read yet tiles the log of that
  moment, and its parts that are in the store are in the local index, which only
  grows. With `CopyInv` the store then holds these bytes when the capture is resolved.

The proof rests on facts about sequences that need induction: what `Keep` selects,
where pieces that follow one another can be cut (`Tiles`), what `FlattenSeq` makes
of them. They are proved for a *set* instead of a predicate (`NumberInduction`,
`SequenceInduction`, from the well-foundedness of `<`), which the provers can use.
`Keep` is a recursive function and stands where `SelectSeq`, with its operator
argument, would be out of their reach.

### ResultAnalysis

`ResultAnalysisProofs` proves all safety properties of the module: `CurrentAnalyses`
(`ShownAnalysesAreCurrent`), `ExactSizes` (`SizesAreExact`), `NoIdleWaits`
(`WaitsAreForWork`) and `DeletedForGood` (`DeletedRunsStayDeleted`). The invariant
`IInv` has two kinds of parts:

* `LocalInv` says of each task what its local variables imply, whatever happens
  around it (`Local`): the revision of a running job is that of the files it
  captured (`RunInv`); the members a pass has behind it were hashed, and read, as
  the revision of the batch has them (`PassInv`); what is about to be published has
  the hash of its revision (`PublishInv`); the size of a download was measured of its
  own files (`SizeInv`). Telemetry, moves and deletions cannot disturb this part;
* `OwnerInv`, `SoundInv`, `SlotInv`, `FlightInv` and `KeptInv` relate the tasks to what
  they share. `SoundInv` carries the proof: a completed job on the disk or in memory
  has the hash of its revision, and an artifact next to it was computed from these
  bytes; while a new job owns its subject, the one before it is not completed on the
  disk any more, but its artifact still belongs to the job that may be reused.

A job publishes only as the owner of its subject, so that a worker that was
canceled, or whose subject was deleted or started again, cannot undo this
(`OwnerShape`); the one thing it may still store is unfinished progress
(`QuietKeeps`), which nobody takes for a result. `JobStepKeeps` and
`DownloadStepKeeps` say once what a step of one task must respect; the lemma of each
action only shows that it does.

### PhaseExecution

`PhaseExecutionProofs` proves all safety properties of the module, for plans of any
length: `NamesAlwaysResolve` (`NamesResolve`), `ResultsAlwaysTell`
(`ResultsTellFailures`) and `EarlierGenerationsStayGone`
(`EarlierGenerationsAreGone`). None is inductive. `IInv` has these parts:

* `PlanInv`: the plan is valid, phase by phase. `Validate` is a fold over the
  phases; `Reading` is the same computation as a function of how far it has come,
  so that `KnownBefore(i)` are the jobs that validation knows before phase `i`.
  `ReadingIsFold` shows that both agree and `ValidPhases` that each phase passed,
  by induction over a set of numbers (`NumberInduction`);
* `RunInv`: whenever the scheduler is at phase `i`, `registered` is
  `KnownBefore(i)`. This is what `NamesResolve` needs: validation and execution
  change the set of known jobs alike, stop-all included;
* `FlowInv` for each thread: where it can be in the phase it executes, that a live
  job is registered and a live thread of the present generation, that only the
  scheduler's own thread waits or stops, how far a stop-all has come
  (`StopInv`), and that a cancellation has a reason (`CancelInv`);
* `OpsInv` and `PairInv`: an operation of a join that has not sent its request has
  a request of the present generation to itself. No thread sends one twice;
* `RequestInv` and `AgentInv`: a request of an earlier generation that is still on
  its way meets a fence at its Agent, so that no Agent has a Peer of one;
* `FailureInv`: a failure that no phase tolerates is, at every moment, with a thread
  that will return it, recorded as a background failure, the error of the run, or
  covered by a cleanup error or a stop; and a canceled run was stopped or has a
  background failure to explain it.

The hard step is the end of a stop-all. `resetJobs` waits for every job, after
which only the scheduler's thread is live (`ThreadsAtRest`); the Agents of the run
are those it remembered *before* it sent them a create, so each request on its way
is to an Agent that is about to be fenced (`StopInv`); `phaseReturns` opens the
next generation only when all of them are (`Swept`). Failures need the
order of `runOperations`: a failed operation is looked at before the
cancellations it caused (`OverStep`), and a job records its failure before it
closes its channel, so that `sampleFailures` reads it.

The proof found guards that overlapped in three definitions written with `CASE`
(`NodeStatus`, `JoinsAfter`, `stableVerdict`), where TLA+ leaves the choice open
and TLC takes the first; they are now chains of `IF`, in the order of the code.

### DeliveryWindow

`TrueVerdicts` proves `VerdictsAreTrue` and `FinalVerdicts` the action property
`VerdictsAreFinal`, for every window, uncertainty of the clocks, queue and bound.
A verdict says what happened, while all a summary has is which events arrived:
`IInv` (`Inductive`) relates the two.

* `ClockInv`: nothing is later than now up to the error of a clock, and the session
  has the boundaries that the Peer's state tells.
* `OrderInv`: every event of the Peer has a number of its own, its observations
  have times in the order of their numbers, there is at most one start, stop and
  termination, and nothing observed comes before the start.
* `BoundaryInv`: start, checkpoints, stop and termination tell the true start and
  end of the session up to `Uncertainty`.
* `DeliveryInv`: if the message came, there is *one* event of it, sent or dropped:
  no other has its number, its time is that of the message up to `Uncertainty`,
  and a stop numbered before it means that the session had ended by then. The
  event is named by a quantifier, since a dropped one is in no set.
* `RangeInv`: every number in a range is that of an event that arrived.

A receiver counts as missed when the start's range reaches an event observed at
or after the deadline, or the stop of a session that ended in time. If the message
had come in time, its event would have a number. Were that number below the end
of the range, the event would have arrived (`NothingMissing`) and the verdict
would be another; were it above, the event would have been observed after one
that is past the deadline, or after the end. "On time" and "departed" follow from
`BoundaryInv`. For `VerdictsAreFinal` only `observe` matters: what a summary has
read only grows (`EvidenceGrows`), and what it showed alive it still does
(`AliveStays`). The earliest and latest events that a summary picks with `CHOOSE`
exist by the library's `WFMin`.

### Only model-checked

Liveness (`WF_`, `<>`, `~>`) and anything with `ENABLED` is out of the prover's
reach: the liveness properties of `agent_overlap`, `telemetry_runs`, `run_batch` and
`phase_plans` stay with TLC, `FailedRunsEnd` among them.

The three invariants of `BatchAdmission` have no theorem either. They need the disk
and what survives a power failure described file by file: which runs each of two
copies of the journal may name, what each of two copies of a manifest may hold, and
how runs that a power failure brings back relate to the attempts that replaced
them. Besides the run, TLC has checked them with three faults and one crash, and
by simulation with four run IDs, five faults and three crashes.

## 5. Findings

* **A recorded write error is lost** (`run_lost`). `rememberRunAgent`
  (`run_integrity.go:23`) writes back a record it read before several writes to
  disk, without `state.mu` in between; an error or a stop request recorded
  meanwhile disappears, and a retry then takes the run off the list of writes to
  repeat although its error is on no disk.

With the configurations named, TLC also finds these:

* **The spool refuses acknowledgments for ever** (`TelemetryDelivery_stall.cfg`,
  `AcknowledgmentsAreInOrder`). After an acknowledgment that failed once it had
  taken effect, and with a copy of the batch already in the queue, a retried event
  uses up the spool position of its copy; the spool answers "out-of-order
  telemetry acknowledgement" (`telemetry_spool.go:164`) although the Controller has
  the batch. When the queue is longer than one request this repeats until the
  Agent restarts.
* **A recorded write error does not fail the run** (`RunLifecycle_late.cfg`,
  `RecordedErrorsFailTheRun`). `runScenario` looks at the error, releases the lock,
  and decides the outcome later (`runner.go:347`).
* **A deleted batch gets its analysis directory back**
  (`ResultAnalysis_resurrection.cfg`, `DeletedBatchesStayDeleted`).
  `deleteSavedBatch` cancels the job of the mean and removes its directory; a
  worker that has captured its files by then saves its progress
  (`batch_analysis.go:350`) and creates the directory again. The test at
  `result_batches_test.go:152` expects that it does not.

Seen while modelling, without a run of their own:

* `markNodeStoppingAndReleaseCapacity` (`runner.go:941`) drops the reservation of a
  node the Agent has not reported yet, so a slot can be offered again before its
  Peer is gone, against the comment at `runner.go:955`; the Agent answers 429.
* `deleteSavedBatch` and `deleteSavedResult` do not roll back an unfinished
  admission that recovery could not undo: runs that were never admitted then
  become visible, or current (`Orphaned` in `BatchAdmission`).
* A rollback puts back the manifests that `prepare` saved, also over a start that
  `retryFailedRunWrites` recorded since (`batch_append.go:139`): a continued run
  whose start and final writes failed, and then the journal of the next
  continuation, would begin once more. Only the test for logs that hold something
  (`resume.go:173`), which the model leaves out, refuses it. `WorkIsDoneOnce`
  exempts it, as it does a start that a power failure lost.
* A deletion that stops after the manifest is removed cannot be finished later:
  `retainBatchCurrentLocked` needs it (`batch_admission.go:156`).
* A download that was captured while messages were pending, and then uses a size
  that was measured once they had been settled, keeps its older export time; its
  body differs from the announced length and the response is aborted
  (`results.go:859`, against the comments at `results.go:934` and `974`).
  `SizesAreExact` exempts this history.
* A background leave whose delete failed, joined with a cancellation, counts as
  canceled (`errors.Is` on a joined error, `runner.go:623`), so that the failure
  is not recorded. `ResultsTellFailures` exempts it.
* A pair counted as missed may later become unknown, when a receipt arrives that
  is late by less than the uncertainty of the clock; an eligible pair of the
  initial cohort may be withdrawn when the stop of the receiver arrives.

## 6. Plan

Order: what decides whether an experiment's results can be trusted comes first.

1. Done: `AgentPeers`, `RunBarrier`, `ControllerFleet`, `TelemetryDelivery`,
   `RunLifecycle`, `BatchAdmission`.
2. Done: `ScenarioPlan`, `PhaseExecution`, `RunArchive`, `ResultAnalysis`,
   `DeliveryWindow`.
3. Left to model: an abstract specification of admission (a set of batches that
   grows by whole batches); histories in which a deletion goes past an
   unfinished admission; the revisions of the capacity handshake
   (`agent_capacity.go`).
4. Done: the safety of `AgentPeers`, with the refinement of `RunBarrier`, of
   `ControllerFleet`, `TelemetryDelivery`, `RunLifecycle`, `RunArchive`,
   `ResultAnalysis`, `PhaseExecution` and `DeliveryWindow` is proved.
5. Left to prove: `AdmissionIsAtomic`, `OneCurrentAttemptPerIteration` and
   `WorkIsDoneOnce` of `BatchAdmission`.

## 7. Not modelled, and why

Statistics, curve fitting and graphs are floating-point code over finished logs.
Parsing of scenarios, protocol options, distributions, network emulation, the
library of scenarios and the web interface are sequential code without
interleaving state. The Peer wraps libp2p, whose protocols are third-party. Run
timing, topology and the dashboard stream are views of a state modelled
elsewhere. Authentication, scripts, start-up code and monitoring take no part in
a run. The capacity handshake is planned. PROJECT.json lists each part
with its files.
