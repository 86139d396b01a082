---------------------------- MODULE BatchAdmission ----------------------------
(***************************************************************************)
(* How the Controller admits the runs of one batch, and what a crash       *)
(* leaves of it: batch_admission.go (the prepare/commit protocol),         *)
(* batch_append.go (its journal, rollback and recovery), resume.go,        *)
(* submissions.go and repeat.go (the operations that admit runs), and the  *)
(* deletions of results.go and result_batches.go.                          *)
(*                                                                         *)
(* The directory of a batch and those of its runs exist twice: as          *)
(* processes see them (disk) and as they would be after a power failure    *)
(* (durable).  A synced write reaches both, any other reaches disk and may *)
(* or may not survive.  Each operation holds cancelMu, and persistMu while *)
(* it writes: one runs at a time, its disk operations are the steps here,  *)
(* and a crash may come between any two.                                   *)
(*                                                                         *)
(* The batch is the one of a submission key, with run 0 as its first run,  *)
(* whose ID the code derives from the key.                                 *)
(***************************************************************************)
EXTENDS Naturals, FiniteSets, FiniteSetsExt, TLC

CONSTANTS
  MaxRepetitions,  \* the largest batch, maxScenarioRepetitions
  MaxFresh,        \* bound: run IDs drawn after the first one
  MaxFaults,       \* bound: failing disk operations
  MaxCrashes       \* bound: process crashes and power failures

ASSUME RepetitionsAssumption == MaxRepetitions \in Nat \ {0}
ASSUME BoundsAssumption      == MaxFresh \in Nat /\ MaxFaults \in Nat /\ MaxCrashes \in Nat

VARIABLES
  disk,         \* the journal of the batch, its runs, deletion markers, the receipt
  durable,      \* the same, as a power failure would leave it
  op,           \* the operation in progress
  up,           \* the Controller runs
  experiments,  \* state.experiments: the runs of the batch in memory
  unsaved,      \* state.failedRunWrites
  scheduler,    \* the scheduler of the batch: what it does, and the runs left
  fresh,        \* run IDs drawn
  faults,       \* failed disk operations
  crashes,      \* crashes and power failures
  past          \* what happened, for the properties

vars == <<disk, durable, op, up, experiments, unsaved, scheduler, fresh, faults, crashes, past>>
memoryVars == <<experiments, unsaved, scheduler>>
worldVars  == <<up, faults, crashes>>

Runs       == 0 .. MaxFresh
Iterations == 1 .. MaxRepetitions
First      == 0

(* What a run directory holds: nothing, no manifest yet, or experiment.json. *)
Manifest == [state : {"none", "empty", "queued", "running", "completed", "failed", "canceled"},
             started : BOOLEAN, iteration : 0 .. MaxRepetitions, total : 0 .. MaxRepetitions,
             previous : SUBSET Runs]
NoDirectory == [state |-> "none", started |-> FALSE, iteration |-> 0, total |-> 0, previous |-> {}]
EmptyDirectory == [NoDirectory EXCEPT !.state = "empty"]
Saved(m) == m.state \notin {"none", "empty"}

Queued(i, n, previous) ==
  [state |-> "queued", started |-> FALSE, iteration |-> i, total |-> n, previous |-> previous]

(* batch.json.  A total of 0 stands for no file.                           *)
NoRecord == [total |-> 0, current |-> <<>>, retired |-> {},
             pending |-> {}, before |-> <<>>, pendingTotal |-> 0]
HasRecord(d) == d.record.total > 0

(* The runs readSavedResult shows, and those currentBatchMembers keeps.    *)
Visible(d) ==
  {r \in Runs : /\ Saved(d.files[r])
                /\ r \notin d.markers
                /\ r \notin d.record.pending
                /\ HasRecord(d) => d.files[r].total <= d.record.total}

(* Mutant: the record of replaced attempts is not looked at. *)
SupersededByManifests(d) == UNION {d.files[r].previous : r \in Visible(d)}

Superseded(d) == d.record.retired \cup UNION {d.files[r].previous : r \in Visible(d)}
Current(d)    == Visible(d) \ Superseded(d)

Active(r) == r \in DOMAIN experiments /\ experiments[r].state \in {"queued", "running"}
StateOf(r) ==
  IF disk.files[r].state \in {"queued", "running"} /\ ~Active(r)
  THEN "interrupted" ELSE disk.files[r].state

Ended == {"failed", "canceled", "interrupted"}

(* The operation in progress: its step, the runs to admit, the manifests a *)
(* rollback restores, the new total, and the runs a loop has yet to treat. *)
Idle == [kind |-> "none", pc |-> "idle", onError |-> FALSE, total |-> 0,
         pending |-> <<>>, before |-> <<>>, todo |-> {}]
Resting == [doing |-> "nothing", queue |-> {}]

Serving == up /\ op = Idle
At(pc)  == up /\ op.pc = pc
Head0   == Min(op.todo)

Busy == scheduler # Resting
Fault == faults < MaxFaults /\ faults' = faults + 1

Init ==
  /\ disk = [record |-> NoRecord, files |-> [r \in Runs |-> NoDirectory], markers |-> {}, receipt |-> 0]
  /\ durable = disk
  /\ op = Idle
  /\ up = TRUE
  /\ experiments = <<>>
  /\ unsaved = {}
  /\ scheduler = Resting
  /\ fresh = 0
  /\ faults = 0
  /\ crashes = 0
  /\ past = [accepted |-> {}, admitted |-> {}, retired |-> {}, deleted |-> {}, launches |-> 0,
             started |-> {}, again |-> {}, unrecorded |-> {}, payloads |-> {}, lost |-> {}]

-----------------------------------------------------------------------------
(* Operations begin.  Each first rolls back what an earlier one left       *)
(* pending, then decides what to admit.                                    *)

AfterRollback(kind, n) ==
  [Idle EXCEPT !.kind = kind, !.total = n, !.todo = disk.record.pending,
               !.pc = IF disk.record.pending = {} THEN "check" ELSE "rollback"]

(* A client submits n repetitions under the key; the receipt is written.   *)
submitScenario(n) ==
  /\ Serving
  /\ disk.receipt = 0
  /\ disk' = [disk EXCEPT !.receipt = n]
  /\ op' = [Idle EXCEPT !.kind = "submit", !.pc = "receipt", !.total = n]
  /\ UNCHANGED <<durable, memoryVars, worldVars, fresh, past>>

syncReceipt ==
  /\ At("receipt")
  /\ durable' = [durable EXCEPT !.receipt = disk.receipt]
  /\ op' = AfterRollback("submit", op.total)
  /\ UNCHANGED <<disk, memoryVars, worldVars, fresh, past>>

(* A repeated submission finds its receipt; another payload is a conflict. *)
submitAgain(n) ==
  /\ Serving
  /\ disk.receipt = n
  /\ op' = AfterRollback("submit", n)
  /\ UNCHANGED <<disk, durable, memoryVars, worldVars, fresh, past>>

(* The other operations that admit runs to a batch.                        *)
requestRuns(kind) ==
  /\ Serving
  /\ kind \in {"continue", "retry", "append"}
  /\ HasRecord(disk)
  /\ op' = AfterRollback(kind, disk.record.total)
  /\ UNCHANGED <<disk, durable, memoryVars, worldVars, fresh, past>>

-----------------------------------------------------------------------------
(* rollbackBatchExtensionLocked                                            *)

(* The original manifests come back, also over a start recorded since.     *)
restoreRun ==
  /\ At("rollback")
  /\ op.todo # {}
  /\ disk.record.before # <<>>
  /\ LET r == Head0
         files(d) == IF disk.files[r].state = "none" THEN d.files
                     ELSE [d.files EXCEPT ![r] = disk.record.before[r]]
     IN  /\ disk' = [disk EXCEPT !.files = files(disk)]
         /\ durable' = [durable EXCEPT !.files = files(durable)]
         /\ past' = [past EXCEPT !.unrecorded =
                       IF disk.files[r].started /\ ~disk'.files[r].started THEN @ \cup {r} ELSE @]
  /\ op' = [op EXCEPT !.todo = @ \ {Head0}]
  /\ UNCHANGED <<memoryVars, worldVars, fresh>>

(* Only what the admission can have written is removed.                    *)
Removable(m) ==
  Saved(m) => m.state = "queued" /\ ~m.started /\ m.total = disk.record.pendingTotal

removePending ==
  /\ At("rollback")
  /\ op.todo # {}
  /\ disk.record.before = <<>>
  /\ Removable(disk.files[Head0])
  /\ disk' = [disk EXCEPT !.files[Head0] = NoDirectory]
  /\ op' = [op EXCEPT !.todo = @ \ {Head0}]
  /\ UNCHANGED <<durable, memoryVars, worldVars, fresh, past>>

rollbackRefused ==
  /\ At("rollback")
  /\ op.todo # {}
  /\ disk.record.before = <<>>
  /\ ~Removable(disk.files[Head0])
  /\ op' = Idle
  /\ UNCHANGED <<disk, durable, memoryVars, worldVars, fresh, past>>

(* The directory of runs is synced before the journal is cleared.          *)
syncRemoved ==
  /\ At("rollback")
  /\ op.todo = {}
  /\ durable' = [durable EXCEPT !.files = [r \in Runs |-> IF r \in disk.record.pending
                                                        THEN disk.files[r] ELSE @[r]]]
  /\ op' = [op EXCEPT !.pc = "clear"]
  /\ UNCHANGED <<disk, memoryVars, worldVars, fresh, past>>

clearPending ==
  /\ At("clear")
  /\ disk' = [disk EXCEPT !.record = [@ EXCEPT !.pending = {}, !.before = <<>>, !.pendingTotal = 0]]
  /\ op' = [op EXCEPT !.pc = "syncClear"]
  /\ UNCHANGED <<durable, memoryVars, worldVars, fresh, past>>

rollbackDone ==
  /\ At("syncClear")
  /\ durable' = [durable EXCEPT !.record = disk.record]
  /\ op' = IF op.onError THEN Idle ELSE [op EXCEPT !.pc = "check"]
  /\ UNCHANGED <<disk, memoryVars, worldVars, fresh, past>>

-----------------------------------------------------------------------------
(* What an operation admits.                                               *)

Plan(pending, before, n) ==
  op' = [op EXCEPT !.pc = "prepare", !.pending = pending, !.before = before, !.total = n]

(* Fresh run IDs, in the order of the iterations they serve.               *)
Fresh(n) == fresh + 1 .. fresh + n
Draw(n)  == fresh + n <= MaxFresh /\ fresh' = fresh + n

(* The batch of the key exists: its first run is the answer.               *)
answerExisting ==
  /\ At("check")
  /\ op.kind = "submit"
  /\ First \notin disk.markers
  /\ disk.record.current # <<>>
  /\ Saved(disk.files[First])
  /\ past' = [past EXCEPT !.payloads = @ \cup {op.total}]
  /\ op' = Idle
  /\ UNCHANGED <<disk, durable, memoryVars, worldVars, fresh>>

startScenarioRepeated ==
  /\ At("check")
  /\ op.kind = "submit"
  /\ First \notin disk.markers
  /\ disk.record.current = <<>>
  /\ Draw(op.total - 1)
  /\ Plan([r \in {First} \cup Fresh(op.total - 1) |->
              Queued(IF r = First THEN 1 ELSE r - fresh + 1, op.total, {})], <<>>, op.total)
  /\ UNCHANGED <<disk, durable, memoryVars, worldVars, past>>

(* resumeScenarioBatch: the metadata of the current runs must agree.       *)
Consistent ==
  /\ ~Busy
  /\ Current(disk) # {}
  /\ \A r, q \in Current(disk) : disk.files[r].iteration = disk.files[q].iteration => r = q

Attempted(r) == disk.files[r].started \/ StateOf(r) \in {"failed", "completed"}

(* Mutant: every canceled or interrupted run is continued. *)
ContinuableStarted(r) == StateOf(r) \in {"canceled", "interrupted"}

(* Continue after a failure with the runs that never started.              *)
Continuable(r) ==
  /\ StateOf(r) \in {"canceled", "interrupted"}
  /\ ~disk.files[r].started
  /\ \A q \in Current(disk) : Attempted(q) => disk.files[q].iteration < disk.files[r].iteration

planContinue ==
  /\ At("check")
  /\ op.kind = "continue"
  /\ Consistent
  /\ disk.record.total >= 2
  /\ \E r \in Current(disk) : \/ StateOf(r) = "failed"
                                 \/ (StateOf(r) = "interrupted" /\ disk.files[r].started)
  /\ LET runs == {r \in Current(disk) : Continuable(r)}
     IN  /\ runs # {}
         /\ Plan([r \in runs |-> Queued(disk.files[r].iteration, disk.record.total, disk.files[r].previous)],
                 [r \in runs |-> disk.files[r]], disk.record.total)
  /\ UNCHANGED <<disk, durable, memoryVars, worldVars, fresh, past>>

(* Retry every iteration that has not completed, under a fresh run ID.     *)
planRetry ==
  /\ At("check")
  /\ op.kind = "retry"
  /\ Consistent
  /\ LET runs == {r \in Current(disk) : StateOf(r) # "completed"}
         rank(r) == Cardinality({q \in runs : disk.files[q].iteration <= disk.files[r].iteration})
         old(r)  == CHOOSE q \in runs : fresh + rank(q) = r
     IN  /\ runs # {}
         /\ \A r \in runs : StateOf(r) \in Ended
         /\ Draw(Cardinality(runs))
         /\ Plan([r \in Fresh(Cardinality(runs)) |->
                    Queued(disk.files[old(r)].iteration, disk.record.total,
                           disk.files[old(r)].previous \cup {old(r)})], <<>>, disk.record.total)
  /\ UNCHANGED <<disk, durable, memoryVars, worldVars, past>>

(* AppendScenarioBatch: further iterations of a batch that completed.      *)
planAppend(n) ==
  /\ At("check")
  /\ op.kind = "append"
  /\ ~Busy
  /\ {disk.files[r].iteration : r \in Current(disk)} = 1 .. disk.record.total
  /\ Cardinality(Current(disk)) = disk.record.total
  /\ \A r \in Current(disk) : StateOf(r) = "completed"
  /\ disk.record.total + n <= MaxRepetitions
  /\ Draw(n)
  /\ Plan([r \in Fresh(n) |-> Queued(disk.record.total + r - fresh, disk.record.total + n, {})],
          <<>>, disk.record.total + n)
  /\ UNCHANGED <<disk, durable, memoryVars, worldVars, past>>

(* Refused: none of the above, the Controller is shutting down, the disk   *)
(* is full, an analysis or a download still uses a run.                    *)
refused ==
  /\ At("check")
  /\ op' = Idle
  /\ UNCHANGED <<disk, durable, memoryVars, worldVars, fresh, past>>

-----------------------------------------------------------------------------
(* commitBatchAdmissionLocked                                              *)

(* The journal names the runs to come before any of them is touched.       *)
Journal ==
  [total        |-> IF HasRecord(disk) THEN disk.record.total ELSE op.total,
   current      |-> disk.record.current,
   retired      |-> disk.record.retired,
   pending      |-> DOMAIN op.pending,
   before       |-> op.before,
   pendingTotal |-> op.total]

prepare ==
  /\ At("prepare")
  /\ disk' = [disk EXCEPT !.record = Journal]
  /\ op' = [op EXCEPT !.pc = "syncPrepare"]
  /\ UNCHANGED <<durable, memoryVars, worldVars, fresh, past>>

syncPrepare ==
  /\ At("syncPrepare")
  /\ durable' = [durable EXCEPT !.record = disk.record]
  /\ op' = [op EXCEPT !.pc = "reserve", !.todo = DOMAIN op.pending]
  /\ UNCHANGED <<disk, memoryVars, worldVars, fresh, past>>

(* reserveRepeatedFilesLocked: a directory is made, then its manifest.     *)
makeDirectory ==
  /\ At("reserve")
  /\ op.todo # {}
  /\ op.before = <<>>
  /\ disk.files[Head0].state = "none"
  /\ disk' = [disk EXCEPT !.files[Head0] = EmptyDirectory]
  /\ op' = [op EXCEPT !.pc = "manifest"]
  /\ UNCHANGED <<durable, memoryVars, worldVars, fresh, past>>

(* A continued run has a directory: its manifest is replaced.              *)
reuseDirectory ==
  /\ At("reserve")
  /\ op.todo # {}
  /\ op.before # <<>>
  /\ op' = [op EXCEPT !.pc = "manifest"]
  /\ UNCHANGED <<disk, durable, memoryVars, worldVars, fresh, past>>

persistManifest ==
  /\ At("manifest")
  /\ disk' = [disk EXCEPT !.files[Head0] = op.pending[Head0]]
  /\ op' = [op EXCEPT !.pc = "reserve", !.todo = @ \ {Head0}]
  /\ UNCHANGED <<durable, memoryVars, worldVars, fresh, past>>

(* Mutant: the new runs are published without being synced. *)
syncRunsSkipped ==
  /\ At("reserve")
  /\ op.todo = {}
  /\ op' = [op EXCEPT !.pc = "publish"]
  /\ UNCHANGED <<disk, durable, memoryVars, worldVars, fresh, past>>

(* Files, their directories, and the directory of runs are synced.         *)
syncRuns ==
  /\ At("reserve")
  /\ op.todo = {}
  /\ durable' = [durable EXCEPT !.files = [r \in Runs |-> IF r \in DOMAIN op.pending
                                                        THEN disk.files[r] ELSE @[r]]]
  /\ op' = [op EXCEPT !.pc = "publish"]
  /\ UNCHANGED <<disk, memoryVars, worldVars, fresh, past>>

(* The record that makes the runs members.                                 *)
Committed ==
  LET admitted(i) == {r \in DOMAIN op.pending : op.pending[r].iteration = i}
      iterations  == {op.pending[r].iteration : r \in DOMAIN op.pending}
  IN  [total        |-> op.total,
       current      |-> [i \in iterations |-> CHOOSE r \in admitted(i) : TRUE] @@ disk.record.current,
       retired      |-> disk.record.retired \cup UNION {op.pending[r].previous : r \in DOMAIN op.pending},
       pending      |-> {},
       before       |-> <<>>,
       pendingTotal |-> 0]

publish ==
  /\ At("publish")
  /\ disk' = [disk EXCEPT !.record = Committed]
  /\ op' = [op EXCEPT !.pc = "syncPublish"]
  /\ past' = [past EXCEPT !.admitted = @ \cup DOMAIN op.pending]
  /\ UNCHANGED <<durable, memoryVars, worldVars, fresh>>

syncPublish ==
  /\ At("syncPublish")
  /\ durable' = [durable EXCEPT !.record = disk.record]
  /\ op' = [op EXCEPT !.pc = "accept"]
  /\ past' = [past EXCEPT !.retired = @ \cup disk.record.retired]
  /\ UNCHANGED <<disk, memoryVars, worldVars, fresh>>

(* For the properties: r begins to execute, its start is recorded or not;  *)
(* again are the runs that had begun before, by what the disk recorded.    *)
Started(r, recorded) ==
  [past EXCEPT !.started    = @ \cup {r},
               !.again      = IF r \in past.started \ past.unrecorded THEN @ \cup {r} ELSE @,
               !.unrecorded = IF recorded THEN @ \ {r} ELSE @ \cup {r}]

(* The runs enter memory, the scheduler starts, the client gets its answer. *)
(* A submission starts its first run itself, and an error of that write is *)
(* only logged.                                                            *)
acceptSubmission(written) ==
  /\ At("accept")
  /\ op.kind = "submit"
  /\ LET first == [op.pending[First] EXCEPT !.state = "running", !.started = TRUE]
     IN  /\ experiments' = (First :> first) @@ op.pending @@ experiments
         /\ IF written
            THEN disk' = [disk EXCEPT !.files[First] = first] /\ UNCHANGED <<unsaved, faults>>
            ELSE unsaved' = unsaved \cup {First} /\ UNCHANGED disk /\ Fault
  /\ scheduler' = [doing |-> "running", queue |-> DOMAIN op.pending]
  /\ past' = [Started(First, written) EXCEPT !.accepted = @ \cup DOMAIN op.pending,
                 !.payloads = @ \cup {op.total}, !.launches = @ + 1]
  /\ op' = Idle
  /\ UNCHANGED <<durable, up, crashes, fresh>>

acceptRuns ==
  /\ At("accept")
  /\ op.kind # "submit"
  /\ experiments' = op.pending @@ experiments
  /\ scheduler' = [doing |-> "cleanup", queue |-> DOMAIN op.pending]
  /\ past' = [past EXCEPT !.accepted = @ \cup DOMAIN op.pending]
  /\ op' = Idle
  /\ UNCHANGED <<disk, durable, unsaved, worldVars, fresh>>

(* A disk operation of an admission fails.  Before the journal is synced   *)
(* nothing is undone; from then on the admission is rolled back; once it   *)
(* is published it stays.                                                  *)
AdmissionSteps == {"reserve", "manifest", "publish"}
PlainSteps     == {"receipt", "rollback", "clear", "syncClear", "prepare", "syncPrepare",
                   "syncPublish", "retain", "mark", "empty", "remove", "removeGroup"}

stepFails ==
  /\ up
  /\ Fault
  /\ \/ /\ op.pc \in PlainSteps
        /\ op' = Idle
     \/ /\ op.pc \in AdmissionSteps
        /\ op' = [op EXCEPT !.pc = "rollback", !.onError = TRUE, !.todo = disk.record.pending]
  /\ UNCHANGED <<disk, durable, up, crashes, memoryVars, fresh, past>>

(* The directory of a fresh run exists already.                            *)
directoryExists ==
  /\ At("reserve")
  /\ op.todo # {}
  /\ op.before = <<>>
  /\ disk.files[Head0].state # "none"
  /\ op' = [op EXCEPT !.pc = "rollback", !.onError = TRUE, !.todo = disk.record.pending]
  /\ UNCHANGED <<disk, durable, memoryVars, worldVars, fresh, past>>

-----------------------------------------------------------------------------
(* The scheduler of the batch (see RunLifecycle for its details).  Its     *)
(* writes wait for persistMu; a failed one is put down to be repeated.     *)

Writable == Serving \/ At("receipt")

Save(r, m, ok) ==
  /\ experiments' = [experiments EXCEPT ![r] = m]
  /\ \/ /\ ok
        /\ disk' = [disk EXCEPT !.files[r] = m]
        /\ unsaved' = unsaved \ {r}
        /\ UNCHANGED faults
     \/ /\ ~ok
        /\ Fault
        /\ unsaved' = unsaved \cup {r}
        /\ UNCHANGED disk

Turn == Min(scheduler.queue)

cleanupBeforeResume(ok) ==
  /\ Writable
  /\ scheduler.doing = "cleanup"
  /\ scheduler' = [scheduler EXCEPT !.doing = IF ok THEN "next" ELSE "cancel"]
  /\ UNCHANGED <<disk, durable, op, experiments, unsaved, worldVars, fresh, past>>

startRun(ok) ==
  /\ Writable
  /\ scheduler.doing = "next"
  /\ scheduler.queue # {}
  /\ Save(Turn, [experiments[Turn] EXCEPT !.state = "running", !.started = TRUE], ok)
  /\ scheduler' = [scheduler EXCEPT !.doing = "running"]
  /\ past' = Started(Turn, ok)
  /\ UNCHANGED <<durable, op, up, crashes, fresh>>

(* The run ends.  Of a repeated batch, a final record that does not reach  *)
(* the disk fails the run; the next run needs a completed one.             *)
finishRun(outcome, ok) ==
  /\ Writable
  /\ scheduler.doing = "running"
  /\ LET final == IF ~ok /\ experiments[Turn].total > 1 THEN "failed" ELSE outcome
     IN  /\ Save(Turn, [experiments[Turn] EXCEPT !.state = final], ok)
         /\ scheduler' = [doing |-> IF final = "completed" THEN "next" ELSE "cancel",
                          queue |-> scheduler.queue \ {Turn}]
  /\ UNCHANGED <<durable, op, up, crashes, fresh, past>>

(* A stop was accepted before the next run started.                        *)
batchCanceled ==
  /\ Writable
  /\ scheduler.doing = "next"
  /\ scheduler' = [scheduler EXCEPT !.doing = "cancel"]
  /\ UNCHANGED <<disk, durable, op, experiments, unsaved, worldVars, fresh, past>>

cancelQueuedIteration(ok) ==
  /\ Writable
  /\ scheduler.doing = "cancel"
  /\ scheduler.queue # {}
  /\ Save(Turn, [experiments[Turn] EXCEPT !.state = "canceled"], ok)
  /\ scheduler' = [scheduler EXCEPT !.queue = @ \ {Turn}]
  /\ UNCHANGED <<durable, op, up, crashes, fresh, past>>

schedulerExits ==
  /\ Writable
  /\ scheduler.doing \in {"next", "cancel"}
  /\ scheduler.queue = {}
  /\ scheduler' = Resting
  /\ UNCHANGED <<disk, durable, op, experiments, unsaved, worldVars, fresh, past>>

(* A run whose result was deleted is passed over.                          *)
retryFailedRunWrites(r) ==
  /\ Writable
  /\ r \in unsaved /\ r \notin disk.markers
  /\ disk' = [disk EXCEPT !.files[r] = experiments[r]]
  /\ unsaved' = unsaved \ {r}
  /\ past' = [past EXCEPT !.unrecorded = IF experiments[r].started THEN @ \ {r} ELSE @]
  /\ UNCHANGED <<durable, op, experiments, scheduler, worldVars, fresh>>

-----------------------------------------------------------------------------
(* Deletions.                                                              *)

(* deleteSavedResult takes any run with a manifest, shown or not.          *)
deleteSavedResult(r) ==
  /\ Serving
  /\ ~Busy
  /\ Saved(disk.files[r])
  /\ op' = [Idle EXCEPT !.kind = "delete", !.pc = "retain", !.todo = {r}]
  /\ UNCHANGED <<disk, durable, memoryVars, worldVars, fresh, past>>

(* deleteSavedBatch deletes the runs that are shown, then the journal.     *)
deleteSavedBatch ==
  /\ Serving
  /\ ~Busy
  /\ HasRecord(disk) \/ Visible(disk) # {}
  /\ op' = [Idle EXCEPT !.kind = "deleteBatch", !.todo = Visible(disk),
                        !.pc = IF Visible(disk) = {} THEN "removeGroup" ELSE "retain"]
  /\ UNCHANGED <<disk, durable, memoryVars, worldVars, fresh, past>>

(* The journal keeps what a deleted run means to its batch: it is written  *)
(* again and synced.  One that names no current runs takes them from the   *)
(* manifests.                                                              *)
Retained(r) ==
  LET members == {q \in Runs : Saved(disk.files[q])}
      retired == UNION {disk.files[q].previous : q \in members}
      current == members \ retired
      at(i)   == {q \in current : disk.files[q].iteration = i}
  IN  IF disk.record.current # <<>> THEN disk.record
      ELSE [disk.record EXCEPT
              !.total   = IF HasRecord(disk) THEN @ ELSE disk.files[r].total,
              !.retired = retired,
              !.current = [i \in {disk.files[q].iteration : q \in current} |-> CHOOSE q \in at(i) : TRUE]]

retainBatchCurrent ==
  /\ At("retain")
  /\ Saved(disk.files[Head0])
  /\ disk' = [disk EXCEPT !.record = Retained(Head0)]
  /\ durable' = [durable EXCEPT !.record = Retained(Head0)]
  /\ op' = [op EXCEPT !.pc = "mark"]
  /\ past' = [past EXCEPT !.lost = IF Head0 \in disk.record.pending THEN @ \cup {"journal"} ELSE @]
  /\ UNCHANGED <<memoryVars, worldVars, fresh>>

markResultDeleted ==
  /\ At("mark")
  /\ disk' = [disk EXCEPT !.markers = @ \cup {Head0}]
  /\ op' = [op EXCEPT !.pc = "empty"]
  /\ past' = [past EXCEPT !.deleted = @ \cup {Head0}]
  /\ UNCHANGED <<durable, memoryVars, worldVars, fresh>>

emptyDirectory ==
  /\ At("empty")
  /\ disk' = [disk EXCEPT !.files[Head0] = EmptyDirectory]
  /\ op' = [op EXCEPT !.pc = "remove"]
  /\ UNCHANGED <<durable, memoryVars, worldVars, fresh, past>>

removeDirectory ==
  /\ At("remove")
  /\ disk' = [disk EXCEPT !.files[Head0] = NoDirectory]
  /\ experiments' = [r \in DOMAIN experiments \ {Head0} |-> experiments[r]]
  /\ unsaved' = unsaved \ {Head0}
  /\ op' = LET rest == op.todo \ {Head0} IN
           IF rest # {} THEN [op EXCEPT !.pc = "retain", !.todo = rest]
           ELSE IF op.kind = "deleteBatch" THEN [op EXCEPT !.pc = "removeGroup", !.todo = {}]
           ELSE Idle
  /\ UNCHANGED <<durable, scheduler, worldVars, fresh, past>>

removeGroup ==
  /\ At("removeGroup")
  /\ disk' = [disk EXCEPT !.record = NoRecord]
  /\ op' = Idle
  /\ past' = [past EXCEPT !.lost = IF disk.record.pending = {} THEN @ ELSE @ \cup {"journal"}]
  /\ UNCHANGED <<durable, memoryVars, worldVars, fresh>>

-----------------------------------------------------------------------------
(* Crashes.  A killed process loses memory, a power failure also what the  *)
(* system had not written back: each unsynced file and directory entry may *)
(* be the new or the old one, and a new directory may lack its manifest.   *)

Down ==
  /\ up
  /\ crashes < MaxCrashes
  /\ crashes' = crashes + 1
  /\ up' = FALSE
  /\ op' = Idle
  /\ experiments' = <<>>
  /\ unsaved' = {}
  /\ scheduler' = Resting
  /\ UNCHANGED <<faults, fresh>>

processCrash ==
  /\ Down
  /\ UNCHANGED <<disk, durable, past>>

Outcomes(r) ==
  {durable.files[r], disk.files[r]} \cup
    IF durable.files[r].state = "none" /\ Saved(disk.files[r]) THEN {EmptyDirectory} ELSE {}

powerFailure ==
  /\ Down
  /\ \E record \in {durable.record, disk.record}, receipt \in {durable.receipt, disk.receipt} :
     \E files \in [Runs -> UNION {Outcomes(r) : r \in Runs}] :
     \E lost \in SUBSET (disk.markers \ durable.markers) :
       /\ \A r \in Runs : files[r] \in Outcomes(r)
       /\ disk' = [record |-> record, files |-> files, markers |-> disk.markers \ lost, receipt |-> receipt]
       /\ durable' = disk'
       /\ past' = [past EXCEPT
            !.unrecorded = @ \cup lost \cup
               {r \in Runs : disk.files[r].started /\ Saved(files[r]) /\ ~files[r].started},
            !.lost = @ \cup (IF lost # {} THEN {"marker"} ELSE {})
                       \cup (IF receipt # disk.receipt THEN {"receipt"} ELSE {})]

(* recoverBatchExtensions; a batch that cannot be repaired does not keep   *)
(* the Controller from serving.                                            *)
recoverBatchExtensions ==
  /\ ~up
  /\ up' = TRUE
  /\ op' = IF disk.record.pending = {} THEN Idle
           ELSE [Idle EXCEPT !.kind = "recover", !.pc = "rollback", !.onError = TRUE,
                             !.todo = disk.record.pending]
  /\ UNCHANGED <<disk, durable, memoryVars, faults, crashes, fresh, past>>

-----------------------------------------------------------------------------
Requests ==
  \/ \E n \in Iterations : submitScenario(n) \/ submitAgain(n)
  \/ \E kind \in {"continue", "retry", "append"} : requestRuns(kind)
  \/ \E r \in Runs : deleteSavedResult(r)
  \/ deleteSavedBatch

Plans ==
  \/ answerExisting \/ startScenarioRepeated \/ planContinue \/ planRetry
  \/ \E n \in Iterations : planAppend(n)
  \/ refused

Rollback ==
  \/ restoreRun \/ removePending \/ rollbackRefused \/ syncRemoved \/ clearPending \/ rollbackDone

Commit ==
  \/ syncReceipt \/ prepare \/ syncPrepare \/ makeDirectory \/ reuseDirectory \/ directoryExists
  \/ persistManifest \/ syncRuns \/ publish \/ syncPublish \/ acceptRuns
  \/ \E written \in BOOLEAN : acceptSubmission(written)

Scheduler ==
  \/ batchCanceled \/ schedulerExits
  \/ \E ok \in BOOLEAN : cleanupBeforeResume(ok) \/ startRun(ok) \/ cancelQueuedIteration(ok)
  \/ \E outcome \in {"completed", "failed", "canceled"}, ok \in BOOLEAN : finishRun(outcome, ok)
  \/ \E r \in Runs : retryFailedRunWrites(r)

Deletions == retainBatchCurrent \/ markResultDeleted \/ emptyDirectory \/ removeDirectory \/ removeGroup

Crashes == processCrash \/ powerFailure \/ recoverBatchExtensions

Next == Requests \/ Plans \/ Rollback \/ Commit \/ Scheduler \/ Deletions \/ Crashes \/ stepFails

Spec == Init /\ [][Next]_vars

-----------------------------------------------------------------------------
DiskType(d) ==
  /\ DOMAIN d = {"record", "files", "markers", "receipt"}
  /\ d.record.total \in 0 .. MaxRepetitions /\ d.record.pendingTotal \in 0 .. MaxRepetitions
  /\ d.record.retired \subseteq Runs /\ d.record.pending \subseteq Runs
  /\ DOMAIN d.record.current \subseteq Iterations
  /\ \A i \in DOMAIN d.record.current : d.record.current[i] \in Runs
  /\ \A r \in DOMAIN d.record.before : r \in d.record.pending /\ d.record.before[r] \in Manifest
  /\ d.files \in [Runs -> Manifest]
  /\ d.markers \subseteq Runs
  /\ d.receipt \in 0 .. MaxRepetitions

(* Types, and which runs are where.                                        *)
TypeOK ==
  /\ DiskType(disk)
  /\ DiskType(durable)
  /\ DOMAIN experiments \subseteq Runs
  /\ \A r \in DOMAIN experiments : experiments[r] \in Manifest
  /\ unsaved \subseteq DOMAIN experiments
  /\ scheduler.queue \subseteq DOMAIN experiments
  /\ fresh \in Runs

(* A deletion went past an unfinished admission: deleteSavedResult and     *)
(* deleteSavedBatch do not roll it back first, so the hidden runs lose     *)
(* their journal, or one of them is taken for a current run.               *)
Orphaned == "journal" \in past.lost

(* A run the client was told of is a member of its batch, on disk and after *)
(* any power failure, until it is deleted.                                 *)
Member(d, r) == Saved(d.files[r]) /\ r \in d.record.retired \cup {d.record.current[i] : i \in DOMAIN d.record.current}
AcceptedRunsSurvive ==
  ~Orphaned => \A r \in past.accepted \ past.deleted : Member(disk, r) /\ Member(durable, r)

(* What a user sees was admitted, as a whole batch or extension.           *)
OnlyAdmittedRunsAreShown ==
  HasRecord(disk) /\ ~Orphaned => Visible(disk) \subseteq past.admitted

(* An admission, of a batch or of runs added to one, takes effect as a     *)
(* whole and for good, or not at all (batch_admission.go, batch_append.go).*)
AdmissionIsAtomic == AcceptedRunsSurvive /\ OnlyAdmittedRunsAreShown

(* An attempt that a retry replaced never counts again, not even when the  *)
(* retry is deleted, and an iteration has one current run.                 *)
OneCurrentAttemptPerIteration ==
  ~Orphaned /\ "marker" \notin past.lost =>
    /\ past.retired \cap Current(disk) = {}
    /\ \A r, q \in Current(disk) : disk.files[r].iteration = disk.files[q].iteration => r = q

(* A submission key starts one batch, of one payload.                      *)
SubmissionsStartOnce ==
  /\ "marker" \in past.lost \/ past.launches <= 1
  /\ "receipt" \in past.lost \/ Cardinality(past.payloads) <= 1

(* A run ID is executed once.                                              *)
RunsExecuteOnce == past.again = {}

(* Requests that are sent again and restarts repeat no work: not a batch   *)
(* (submissions.go) and not a run (resume.go).                             *)
WorkIsDoneOnce == SubmissionsStartOnce /\ RunsExecuteOnce
=============================================================================
