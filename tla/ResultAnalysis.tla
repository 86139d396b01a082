--------------------------- MODULE ResultAnalysis ---------------------------
(***************************************************************************)
(* What the Controller derives from the saved runs of one batch            *)
(* (internal/controller): the background analysis of a run, the mean over  *)
(* the runs of the batch, and the exact size of a download, which is       *)
(* announced before its body is written.  They are computed without locks  *)
(* from captured files while telemetry still arrives, the archiver moves   *)
(* files and results are deleted.                                          *)
(*                                                                         *)
(* Every request that starts work is a task with a number of its own, the  *)
(* ID of its job.  The runs are numbered by their iterations; subject 0 is *)
(* the batch.  The bytes of a run are a version number, and what the       *)
(* cheap source revision sees besides them (inode, times, objects of the   *)
(* archive) is another one.  Run metadata is complete: all runs completed, *)
(* and none is superseded.                                                 *)
(***************************************************************************)
EXTENDS Naturals, FiniteSets, FiniteSetsExt

CONSTANTS
  RunCount,      \* runs of the batch
  MaxRequests,   \* bound: analyses and downloads asked for
  MaxEvents,     \* bound: late telemetry, moves of files, deletions, restarts, time
  JobLimit,      \* analysisJobLimit
  MeasureLimit   \* resultArchiveMeasureLimit

ASSUME AnalysisBounds ==
  /\ RunCount \in Nat \ {0, 1} /\ MaxRequests \in Nat /\ MaxEvents \in Nat
  /\ JobLimit \in Nat \ {0} /\ MeasureLimit \in Nat \ {0}

Runs     == 1 .. RunCount
Batch    == 0
Subjects == 0 .. RunCount
Tasks    == 1 .. MaxRequests

VARIABLES
  data,    \* the source files of each run
  here,    \* each run: "present", "marked" as deleted, or "gone"
  stored,  \* the job and the artifact of each subject on the disk
  jobs,    \* analysisJobs and batchAnalysisJobs: a task, or 0
  task,    \* the goroutines and requests
  slot,    \* who holds analysisSlots; 0 for nobody
  sizes,   \* resultArchives
  flight,  \* resultArchiveFlights: who measures the run; 0 for nobody
  now,
  requests, events

counters == <<requests, events>>
vars     == <<data, here, stored, jobs, task, slot, sizes, flight, now, counters>>

-----------------------------------------------------------------------------
(* Source data.  The delivery windows of the last messages in the log are  *)
(* over at the time settled.                                               *)

Absent     == [bytes |-> 0, place |-> 0, settled |-> 0]
NoSources  == [r \in Runs |-> Absent]
NoHashes   == [r \in Runs |-> 0]

Present(r) == here[r] = "present"

(* Source revisions: of one run, or the membership of the batch.           *)
Key(s) == [r \in Runs |-> IF Present(r) /\ s \in {r, Batch} THEN data[r] ELSE Absent]

Selected(key) == {r \in Runs : key[r] # Absent}

(* The content hash of the sources that key names.                         *)
Hash(key) == [r \in Runs |-> key[r].bytes]

(* The bytes of a download: the metrics in it change with the time of the  *)
(* export while messages are pending.                                      *)
Pending(files, at) == at < files.settled
Bytes(files, at)   == <<files.bytes, IF Pending(files, at) THEN at ELSE files.settled>>

-----------------------------------------------------------------------------
(* Jobs.                                                                   *)

NoJob      == [state |-> "idle", id |-> 0, key |-> NoSources, hash |-> NoHashes]
NoArtifact == [id |-> 0, read |-> NoHashes]
NoFiles    == [job |-> NoJob, artifact |-> NoArtifact]
NoSize     == [of |-> Absent, at |-> 0, bytes |-> <<0, 0>>, until |-> 0, extended |-> FALSE]

IdleTask ==
  [kind |-> "none", on |-> 0, pc |-> "idle", held |-> "no", canceled |-> FALSE,
   status |-> NoJob, previous |-> NoJob, left |-> {}, hashes |-> NoHashes,
   read |-> NoHashes, files |-> Absent, at |-> 0, size |-> NoSize, waits |-> 0]

(* What is loaded from the disk is not kept: nothing else writes it.       *)
loadAnalysisJob(s) ==
  IF jobs[s] # 0 THEN task[jobs[s]].status
  ELSE IF stored[s].job.state \in {"queued", "running"}
       THEN [stored[s].job EXCEPT !.state = "interrupted"]
       ELSE stored[s].job

Unfinished(status) == status.state \in {"queued", "running"}

(* A finished analysis of the same version: the sources may have moved.    *)
Reusable(status) == status.state = "completed" /\ status.hash # NoHashes

(* What is shown of a job: a finished one is stale when the sources may    *)
(* have changed.                                                           *)
analysisJobStatus(s) ==
  LET job == loadAnalysisJob(s)
  IN [state |-> job.state, id |-> job.id,
      stale |-> ~Reusable(job) \/ job.key # Key(s)]

(* What is served under the ID of a job.                                   *)
handleAnalysisArtifact(s, id) ==
  LET job == loadAnalysisJob(s)
  IN IF job.state = "completed" /\ job.id = id THEN stored[s].artifact ELSE NoArtifact

Init ==
  /\ data = [r \in Runs |-> [bytes |-> 1, place |-> 1, settled |-> 0]]
  /\ here = [r \in Runs |-> "present"]
  /\ \E analysed \in {{}, Subjects} :
       stored = [s \in Subjects |->
         IF s \notin analysed THEN NoFiles
         ELSE LET key == [r \in Runs |-> IF s \in {r, Batch} THEN data[r] ELSE Absent]
              IN [job |-> [state |-> "completed", id |-> 0, key |-> key, hash |-> Hash(key)],
                  artifact |-> [id |-> 0, read |-> Hash(key)]]]
  /\ jobs = [s \in Subjects |-> 0]
  /\ task = [i \in Tasks |-> IdleTask]
  /\ slot = 0
  /\ sizes = [r \in Runs |-> NoSize]
  /\ flight = [r \in Runs |-> 0]
  /\ now = 0
  /\ requests = 0 /\ events = 0

-----------------------------------------------------------------------------
(* Requests for an analysis.                                               *)

CanReadSources(s) ==
  IF s = Batch THEN Cardinality(Selected(Key(Batch))) >= 2 ELSE Present(s)

(* startAnalysisJob and startBatchAnalysis.  A request that is answered    *)
(* with an existing job, or refused, changes nothing.  The membership of   *)
(* the batch is fixed now, the revision of a run when its job captures it. *)
startAnalysisJob(s, refresh) ==
  LET existing == loadAnalysisJob(s)
      i        == requests + 1
      status   == [state |-> "queued", id |-> i, hash |-> NoHashes,
                   key |-> IF s = Batch THEN Key(s) ELSE NoSources]
  IN /\ requests < MaxRequests
     /\ CanReadSources(s)
     /\ ~Unfinished(existing)
     /\ ~(Reusable(existing) /\ ~refresh /\ existing.key = Key(s))
     /\ Cardinality({t \in Subjects : Unfinished(loadAnalysisJob(t))}) < JobLimit
     /\ requests' = i
     /\ stored' = [stored EXCEPT ![s].job = status]
     /\ jobs' = [jobs EXCEPT ![s] = i]
     /\ LET reuse == Reusable(existing) /\ ~refresh
        IN task' = [task EXCEPT ![i] =
             [IdleTask EXCEPT
                !.kind = IF s = Batch THEN "batch" ELSE "run", !.on = s,
                !.pc = IF s # Batch THEN "queued" ELSE IF reuse THEN "check" ELSE "analyze",
                !.left = Selected(status.key),
                !.status = status, !.previous = IF reuse THEN existing ELSE NoJob]]
     /\ UNCHANGED <<data, here, slot, sizes, flight, now, events>>

-----------------------------------------------------------------------------
(* Steps that runs and batches share.                                      *)

Owns(i) == jobs[task[i].on] = i

To(i, step) == [task EXCEPT ![i].pc = step]

(* Only the status of a job is used once it has ended.                     *)
Ended(i, status) ==
  [task EXCEPT ![i] = [IdleTask EXCEPT !.on = task[i].on, !.pc = "done", !.status = status]]

Released(i) == IF slot = i THEN 0 ELSE slot

Failing(i) ==
  [task EXCEPT ![i] = [IdleTask EXCEPT !.kind = task[i].kind, !.on = task[i].on,
     !.pc = "failed", !.canceled = task[i].canceled, !.status = task[i].status]]

(* The error path: the slot is free before the failure is recorded.        *)
Fails(i) ==
  /\ task' = Failing(i)
  /\ slot' = Released(i)
  /\ UNCHANGED stored

Working(i) == task[i].pc \in {"queued", "captured", "running", "check", "analyze",
                              "finish", "reuse", "stage", "staged"}

(* A read, a write or the analysis itself fails, or the context is seen    *)
(* canceled in the middle of a step.                                       *)
workerFails(i) ==
  /\ Working(i)
  /\ Fails(i)
  /\ UNCHANGED <<data, here, jobs, sizes, flight, now, counters>>

(* The failure is persisted if the job is still that of its subject; the   *)
(* write may fail.                                                         *)
recordFailure(i) ==
  LET status == [task[i].status EXCEPT
                   !.state = IF task[i].canceled THEN "interrupted" ELSE "failed"]
  IN /\ task[i].pc = "failed"
     /\ task' = Ended(i, status)
     /\ \/ Owns(i) /\ stored' = [stored EXCEPT ![task[i].on].job = status]
        \/ UNCHANGED stored
     /\ UNCHANGED <<data, here, jobs, slot, sizes, flight, now, counters>>

(* The checks under analysisJobMu before anything is published.            *)
MayPublish(i) ==
  LET s == task[i].on
  IN /\ ~task[i].canceled /\ Owns(i)
     /\ IF s = Batch THEN Key(Batch) = task[i].status.key ELSE Present(s)

(* reuseAnalysisJob and reuseBatchAnalysis: the artifact stays as it is,   *)
(* its job names the revision that was found to hold the same bytes.       *)
reuseAnalysisJob(i) ==
  LET status == [task[i].previous EXCEPT !.key = task[i].status.key]
  IN /\ task[i].pc = "reuse"
     /\ IF MayPublish(i)
        THEN /\ stored' = [stored EXCEPT ![task[i].on].job = status]
             /\ task' = Ended(i, status)
             /\ slot' = Released(i)
        ELSE Fails(i)
     /\ UNCHANGED <<data, here, jobs, sizes, flight, now, counters>>

(* The directory is opened before the large files are written.             *)
stageAnalysisJSON(i) ==
  /\ task[i].pc = "stage"
  /\ IF ~task[i].canceled /\ Owns(i) /\ (task[i].on # Batch => Present(task[i].on))
     THEN task' = To(i, "staged") /\ UNCHANGED <<slot, stored>>
     ELSE Fails(i)
  /\ UNCHANGED <<data, here, jobs, sizes, flight, now, counters>>

(* saveAnalysisJob and saveBatchAnalysis: the artifact, then its job.  The *)
(* second rename may fail, or the Controller ends between the two.         *)
saveAnalysisJob(i) ==
  LET s        == task[i].on
      artifact == [id |-> task[i].status.id, read |-> task[i].read]
      status   == [task[i].status EXCEPT !.state = "completed"]
  IN /\ task[i].pc = "staged"
     /\ \/ /\ MayPublish(i)
           /\ stored' = [stored EXCEPT ![s] = [job |-> status, artifact |-> artifact]]
           /\ task' = Ended(i, status)
           /\ slot' = Released(i)
        \/ /\ MayPublish(i)
           /\ stored' = [stored EXCEPT ![s].artifact = artifact]
           /\ task' = Failing(i)
           /\ slot' = Released(i)
        \/ /\ ~MayPublish(i)
           /\ Fails(i)
     /\ UNCHANGED <<data, here, jobs, sizes, flight, now, counters>>

-----------------------------------------------------------------------------
(* runAnalysisJob.                                                         *)

captureRun(i) ==
  LET r == task[i].on
  IN /\ task[i].kind = "run" /\ task[i].pc = "queued" /\ slot = 0
     /\ IF Present(r) /\ ~task[i].canceled
        THEN /\ slot' = i
             /\ task' = [task EXCEPT ![i].pc = "captured", ![i].files = data[r]]
             /\ UNCHANGED stored
        ELSE Fails(i)
     /\ UNCHANGED <<data, here, jobs, sizes, flight, now, counters>>

(* Mutant: the status names the files the run has now.                     *)
revisionOnDisk(i) == data[task[i].on]

(* The revision of the captured files, whatever the run has by now.        *)
revisionOf(i) == task[i].files

beginRun(i) ==
  LET r      == task[i].on
      status == [task[i].status EXCEPT !.state = "running", !.key[r] = revisionOf(i)]
  IN /\ task[i].pc = "captured"
     /\ IF Present(r)
        THEN /\ stored' = [stored EXCEPT ![r].job = status]
             /\ task' = [task EXCEPT ![i].pc = "running", ![i].status = status]
             /\ UNCHANGED slot
        ELSE Fails(i)
     /\ UNCHANGED <<data, here, jobs, sizes, flight, now, counters>>

SameSources(i, hash) == task[i].previous # NoJob /\ task[i].previous.hash = hash

(* Hashes the captured files and, unless their bytes are those of the last *)
(* analysis, analyses them.                                                *)
analyzeRun(i) ==
  LET hash == [NoHashes EXCEPT ![task[i].on] = task[i].files.bytes]
  IN /\ task[i].pc = "running"
     /\ task' = IF SameSources(i, hash) THEN To(i, "reuse")
                ELSE [task EXCEPT ![i].pc = "stage", ![i].status.hash = hash,
                                  ![i].read = hash]
     /\ UNCHANGED <<data, here, stored, jobs, slot, sizes, flight, now, counters>>

-----------------------------------------------------------------------------
(* runBatchAnalysis.  One member at a time is captured, so that few files  *)
(* are open: in a first pass, when a result may be reused, to hash it, in  *)
(* the second one to analyse it.                                           *)

Passing(i) == task[i].kind = "batch" /\ task[i].pc \in {"check", "analyze"}

captureMember(i) ==
  LET r == Min(task[i].left)
  IN /\ Passing(i) /\ task[i].held = "no" /\ task[i].left # {} /\ slot = 0
     /\ IF ~task[i].canceled /\ Present(r) /\ data[r] = task[i].status.key[r]
        THEN /\ slot' = i
             /\ task' = [task EXCEPT ![i].held = "captured", ![i].files = data[r]]
             /\ UNCHANGED stored
        ELSE Fails(i)
     /\ UNCHANGED <<data, here, jobs, sizes, flight, now, counters>>

(* The progress is persisted whether or not the batch still exists: the    *)
(* directory of its analysis is made if it is not there.                   *)
reportMember(i) ==
  LET status == [task[i].status EXCEPT !.state = "running"]
  IN /\ Passing(i) /\ task[i].held = "captured"
     /\ stored' = [stored EXCEPT ![Batch].job = status]
     /\ task' = [task EXCEPT ![i].held = "reported", ![i].status = status]
     /\ UNCHANGED <<data, here, jobs, slot, sizes, flight, now, counters>>

readMember(i) ==
  LET r     == Min(task[i].left)
      bytes == task[i].files.bytes
  IN /\ Passing(i) /\ task[i].held = "reported"
     /\ task' = [task EXCEPT
          ![i].held = "no", ![i].left = @ \ {r},
          ![i].hashes[r] = IF @ = 0 THEN bytes ELSE @,
          ![i].read[r] = IF task[i].pc = "analyze" THEN bytes ELSE @]
     /\ slot' = Released(i)
     /\ UNCHANGED <<data, here, stored, jobs, sizes, flight, now, counters>>

(* The members must be those the job was started for.                      *)
endPass(i) ==
  /\ Passing(i) /\ task[i].left = {}
  /\ IF Key(Batch) # task[i].status.key
     THEN Fails(i)
     ELSE /\ task' = IF task[i].pc = "analyze"
                     THEN [task EXCEPT ![i].pc = "stage", ![i].status.hash = task[i].hashes]
                     ELSE IF SameSources(i, task[i].hashes) THEN To(i, "reuse")
                     ELSE [task EXCEPT ![i].pc = "analyze",
                                       ![i].left = Selected(task[i].status.key)]
          /\ UNCHANGED <<slot, stored>>
  /\ UNCHANGED <<data, here, jobs, sizes, flight, now, counters>>

-----------------------------------------------------------------------------
(* Downloads.                                                              *)

(* GET takes a lease against deletion; HEAD only asks for the size.        *)
handleResultDownload(r, method) ==
  LET i == requests + 1
  IN /\ requests < MaxRequests /\ Present(r)
     /\ requests' = i
     /\ task' = [task EXCEPT ![i] = [IdleTask EXCEPT !.kind = method, !.on = r,
                   !.pc = "lookup", !.files = data[r], !.at = now]]
     /\ UNCHANGED <<data, here, stored, jobs, slot, sizes, flight, now, events>>

Fresh(size)  == Pending(size.of, size.at) => now < size.until
Usable(i, size) == size.of = task[i].files /\ Fresh(size)

(* Mutant: the download keeps its own time of export.                      *)
keepExportTime(i, size) == task[i].at

(* A size with pending messages holds for the time it was measured at.     *)
useResultArchiveInfo(i, size) ==
  IF Pending(size.of, size.at) THEN size.at ELSE task[i].at

(* One step of the loop of prepareResultArchiveInfo.                       *)
prepareResultArchiveInfo(i) ==
  LET r == task[i].on
  IN /\ task[i].pc = "lookup"
     /\ IF Usable(i, sizes[r])
        THEN /\ task' = [task EXCEPT ![i].pc = "prepared", ![i].size = sizes[r],
                                     ![i].at = useResultArchiveInfo(i, sizes[r])]
             /\ UNCHANGED flight
        ELSE IF flight[r] # 0
        THEN task' = [task EXCEPT ![i].pc = "wait", ![i].waits = flight[r]] /\ UNCHANGED flight
        ELSE task' = To(i, "acquire") /\ flight' = [flight EXCEPT ![r] = i]
     /\ UNCHANGED <<data, here, stored, jobs, slot, sizes, now, counters>>

flightDone(i) ==
  /\ task[i].pc = "wait" /\ flight[task[i].on] # task[i].waits
  /\ task' = To(i, "lookup")
  /\ UNCHANGED <<data, here, stored, jobs, slot, sizes, flight, now, counters>>

acquireResultArchiveSlot(i) ==
  /\ task[i].pc = "acquire"
  /\ Cardinality({j \in Tasks : task[j].pc = "measure"}) < MeasureLimit
  /\ task' = To(i, "measure")
  /\ UNCHANGED <<data, here, stored, jobs, slot, sizes, flight, now, counters>>

(* Writes the ZIP to a counter.  The slot is given back.                   *)
measure(i) ==
  LET files == task[i].files
  IN /\ task[i].pc = "measure"
     /\ task' = [task EXCEPT ![i].pc = "measured",
          ![i].size = [of |-> files, at |-> task[i].at, bytes |-> Bytes(files, task[i].at),
                       until |-> IF Pending(files, task[i].at) THEN now + 1 ELSE 0,
                       extended |-> FALSE]]
     /\ UNCHANGED <<data, here, stored, jobs, slot, sizes, flight, now, counters>>

(* Mutant: a size that was measured is always kept.                        *)
keepAnySize(r) == TRUE

(* The deletion marker is looked at under persistMu.                       *)
keepSize(r) == Present(r)

finishResultArchiveFlight(i) ==
  LET r == task[i].on
  IN /\ task[i].pc = "measured"
     /\ sizes' = IF keepSize(r) THEN [sizes EXCEPT ![r] = task[i].size] ELSE sizes
     /\ flight' = [flight EXCEPT ![r] = 0]
     /\ task' = To(i, "prepared")
     /\ UNCHANGED <<data, here, stored, jobs, slot, now, counters>>

(* The headers promise the size, unless it has become too old.             *)
sendHeaders(i) ==
  /\ task[i].pc = "prepared"
  /\ task' = IF ~Fresh(task[i].size) THEN [task EXCEPT ![i].pc = "lookup", ![i].at = now]
             ELSE IF task[i].kind = "GET" THEN To(i, "stream") ELSE Ended(i, NoJob)
  /\ UNCHANGED <<data, here, stored, jobs, slot, sizes, flight, now, counters>>

streamed(i) ==
  /\ task[i].pc = "stream"
  /\ task' = Ended(i, NoJob)
  /\ UNCHANGED <<data, here, stored, jobs, slot, sizes, flight, now, counters>>

(* Mutant: a flight whose client has left is never ended.                  *)
keepFlights(i) == flight

(* A flight that did not finish ends without a size.                       *)
leaveFlight(i) == [r \in Runs |-> IF flight[r] = i THEN 0 ELSE flight[r]]

(* The client leaves, or the files cannot be read.                         *)
downloadEnds(i) ==
  /\ task[i].pc \in {"lookup", "wait", "acquire", "measure", "prepared"}
  /\ task' = Ended(i, NoJob)
  /\ flight' = leaveFlight(i)
  /\ UNCHANGED <<data, here, stored, jobs, slot, sizes, now, counters>>

(* A listing keeps a measured size for a while longer, once.               *)
extendPendingResultArchiveCache(r) ==
  /\ Present(r) /\ sizes[r].of = data[r]
  /\ Pending(sizes[r].of, sizes[r].at) /\ ~sizes[r].extended
  /\ sizes' = [sizes EXCEPT ![r].until = now + 1, ![r].extended = TRUE]
  /\ UNCHANGED <<data, here, stored, jobs, task, slot, flight, now, counters>>

-----------------------------------------------------------------------------
(* Data, deletions, time and restarts.                                     *)

(* Late telemetry of a run that has ended.                                 *)
persistEvents(r) ==
  /\ events < MaxEvents /\ Present(r)
  /\ events' = events + 1
  /\ data' = [data EXCEPT ![r].bytes = @ + 1, ![r].settled = now + 1]
  /\ UNCHANGED <<here, stored, jobs, task, slot, sizes, flight, now, requests>>

(* The archiver moves files, or one is replaced by the same bytes.         *)
moveFiles(r) ==
  /\ events < MaxEvents /\ Present(r)
  /\ events' = events + 1
  /\ data' = [data EXCEPT ![r].place = @ + 1]
  /\ UNCHANGED <<here, stored, jobs, task, slot, sizes, flight, now, requests>>

resultDeletionBusy(r) == \E i \in Tasks : task[i].kind = "GET" /\ task[i].on = r

(* The runs are marked, their jobs canceled and forgotten; a run is gone   *)
(* when the removal of its directory was complete.                         *)
Deletion(runs, gone, subjects) ==
  /\ events < MaxEvents
  /\ events' = events + 1
  /\ here' = [r \in Runs |-> IF r \in gone THEN "gone"
                             ELSE IF r \in runs THEN "marked" ELSE here[r]]
  /\ jobs' = [s \in Subjects |-> IF s \in subjects THEN 0 ELSE jobs[s]]
  /\ task' = [i \in Tasks |->
       IF task[i].on \in subjects /\ Owns(i) /\ Working(i)
       THEN [task[i] EXCEPT !.canceled = TRUE] ELSE task[i]]
  /\ sizes' = [r \in Runs |-> IF r \in gone THEN NoSize ELSE sizes[r]]
  /\ UNCHANGED <<data, slot, flight, now, requests>>

deleteSavedResult(r) ==
  /\ here[r] # "gone" /\ ~resultDeletionBusy(r)
  /\ \E gone \in {{}, {r}} :
       /\ Deletion({r}, gone, {r})
       /\ stored' = [stored EXCEPT ![r] = IF r \in gone THEN NoFiles ELSE @]

(* The mean goes first.  The removal of its directory may fail in the      *)
(* middle, or that of a run: the runs after it stay.                       *)
deleteSavedBatch ==
  LET members == {r \in Runs : Present(r)}
  IN /\ members # {} \/ stored[Batch].job # NoJob
     /\ \A r \in members : ~resultDeletionBusy(r)
     /\ \/ /\ Deletion({}, {}, {Batch})
           /\ \E rest \in {NoFiles, [stored[Batch] EXCEPT !.job = NoJob],
                           [stored[Batch] EXCEPT !.artifact = NoArtifact]} :
                stored' = [stored EXCEPT ![Batch] = rest]
        \/ \E runs \in SUBSET members, gone \in SUBSET members :
             /\ gone \subseteq runs /\ Cardinality(runs \ gone) <= 1
             /\ \A r \in runs, q \in members : q < r => q \in gone
             /\ runs = gone => runs = members
             /\ Deletion(runs, gone, runs \cup {Batch})
             /\ stored' = [s \in Subjects |->
                             IF s \in gone \cup {Batch} THEN NoFiles ELSE stored[s]]

Tick ==
  /\ events < MaxEvents
  /\ events' = events + 1
  /\ now' = now + 1
  /\ UNCHANGED <<data, here, stored, jobs, task, slot, sizes, flight, requests>>

controllerRestarts ==
  /\ events < MaxEvents
  /\ events' = events + 1
  /\ jobs' = [s \in Subjects |-> 0]
  /\ task' = [i \in Tasks |-> IdleTask]
  /\ slot' = 0
  /\ sizes' = [r \in Runs |-> NoSize]
  /\ flight' = [r \in Runs |-> 0]
  /\ UNCHANGED <<data, here, stored, now, requests>>

-----------------------------------------------------------------------------
Analyse(i) ==
  \/ captureRun(i) \/ beginRun(i) \/ analyzeRun(i)
  \/ captureMember(i) \/ reportMember(i) \/ readMember(i) \/ endPass(i)
  \/ reuseAnalysisJob(i) \/ stageAnalysisJSON(i) \/ saveAnalysisJob(i)
  \/ workerFails(i) \/ recordFailure(i)

Download(i) ==
  \/ prepareResultArchiveInfo(i) \/ flightDone(i) \/ acquireResultArchiveSlot(i)
  \/ measure(i) \/ finishResultArchiveFlight(i) \/ sendHeaders(i) \/ streamed(i)

Next ==
  \/ \E s \in Subjects, refresh \in BOOLEAN : startAnalysisJob(s, refresh)
  \/ \E r \in Runs, method \in {"GET", "HEAD"} : handleResultDownload(r, method)
  \/ \E i \in Tasks : Analyse(i) \/ Download(i) \/ downloadEnds(i)
  \/ \E r \in Runs : extendPendingResultArchiveCache(r) \/ persistEvents(r)
                       \/ moveFiles(r) \/ deleteSavedResult(r)
  \/ deleteSavedBatch
  \/ Tick
  \/ controllerRestarts

Spec == Init /\ [][Next]_vars

-----------------------------------------------------------------------------
(* Properties.                                                             *)

(* Whatever is shown as a finished analysis and not as stale was computed  *)
(* from the bytes the run, or every run of the batch, has now: its source  *)
(* revision is that of the captured files, a reused result was compared by *)
(* its hash, and neither a failed job, a replaced one nor a restart makes  *)
(* an artifact pass for another.                                           *)
ShownAnalysesAreCurrent ==
  \A s \in Subjects :
    LET job      == analysisJobStatus(s)
        artifact == handleAnalysisArtifact(s, job.id)
    IN ~job.stale /\ Selected(Key(s)) # {} /\ artifact # NoArtifact
         => artifact.id = job.id /\ artifact.read = Hash(Key(s))

(* The length in the headers of a download is that of its body, although   *)
(* it may have been measured for another request, at another time and of   *)
(* files that have been replaced since.  It is not when a message that was *)
(* pending at the time of this export had been settled when the size was   *)
(* measured: the response is aborted then.                                 *)
SizesAreExact ==
  \A i \in Tasks :
    task[i].pc = "stream" /\ (task[i].at >= task[i].size.at) =>
      task[i].size.bytes = Bytes(task[i].files, task[i].at)

(* Nothing of a run outlives its deletion: neither its job nor its size    *)
(* comes back when work that was under way ends.                           *)
DeletedRunsStayDeleted ==
  \A r \in Runs :
    here[r] = "gone" => stored[r] = NoFiles /\ jobs[r] = 0 /\ sizes[r] = NoSize

(* Nobody waits for work that nobody does: the analysis slot is held by a  *)
(* job that is at work, and a flight, for which downloads of the run wait, *)
(* by a download that is measuring it or about to, whatever failed or was  *)
(* canceled before.                                                        *)
WaitsAreForWork ==
  /\ slot # 0 => Working(slot) /\ task[slot].pc # "queued"
  /\ \A r \in Runs :
       flight[r] # 0 => /\ task[flight[r]].on = r
                        /\ task[flight[r]].pc \in {"acquire", "measure", "measured"}

(* The test TestResultBatchDeletionCancelsAnalysesWithoutResurrection      *)
(* says that an analysis does not make the directory of a deleted batch    *)
(* again.                                                                  *)
DeletedBatchesStayDeleted ==
  [][(\A r \in Runs : here[r] = "gone") /\ stored[Batch] = NoFiles =>
       stored'[Batch] = NoFiles]_vars
=============================================================================
