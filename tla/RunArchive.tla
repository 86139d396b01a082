----------------------------- MODULE RunArchive -----------------------------
(***************************************************************************)
(* The saved data of one run (internal/controller): its event log and its  *)
(* files on the Controller's disk, the single background worker that moves *)
(* them to the archive store (a NAS mount), discovery of archived runs,    *)
(* readers that capture a run while it is being moved, and deletion.       *)
(*                                                                         *)
(* A file is a version number and an event the position at which it was    *)
(* persisted, so a log is right exactly when it reads 1, 2, ..., n.  One   *)
(* log stands for both (events.jsonl and observations.jsonl), one file for *)
(* each treatment: experiment.json stays on the local disk for ever,       *)
(* analysis-result.json leaves it.  A sealed segment is named by its first *)
(* event: its real name starts with the time of the rotation.              *)
(*                                                                         *)
(* A section under persistMu is one action, or several during which Locked *)
(* holds, when a crash in the middle of it leaves something behind.  Every *)
(* operation on the store may fail and is an action of its own.            *)
(***************************************************************************)
EXTENDS Naturals, Sequences, FiniteSets, SequencesExt

CONSTANTS
  Origins,      \* where the run is found at first: "local", "archived", "legacy"
  Readers,      \* concurrent captures: downloads, analyses, artifact requests
  MaxEvents,    \* bound: events persisted for the run
  MaxVersions,  \* bound: versions of each file
  MaxCrashes    \* bound: crashes of the Controller

ASSUME ArchiveBounds ==
  MaxEvents \in Nat \ {0} /\ MaxVersions \in Nat \ {0} /\ MaxCrashes \in Nat

VARIABLES
  \* The Controller's disk.
  dir,        \* whether current-run/<id> exists
  tail,       \* events.jsonl; <<>> when there is none
  sealed,     \* events-segment-*.jsonl in the order of their names
  files,      \* version of each file; 0 when there is none
  index,      \* .kpl-archive.json
  importing,  \* .archive-import
  deleted,    \* .deleted-results/<id>
  cleaned,    \* .archived-deletions/<id>
  \* The archive store.
  remote,
  \* The Controller's memory.
  active,     \* the run is queued or running in this process
  queued,     \* archivePending[id]
  touched,    \* archiveVersions[id] has changed since the worker looked at it
  loaded,     \* archiveQueueLoaded
  scanned,    \* archiveLastScan is set
  worker,     \* archiveMaintenance: its step and the variables it works with
  reader,     \* progress of each capture
  \* Observations, for the properties only.
  written,    \* events persisted so far
  version,    \* last version of each file
  crashes

disk   == <<dir, tail, sealed, files, index, importing, deleted, cleaned>>
memory == <<active, queued, touched, loaded, scanned>>
vars   == <<disk, remote, memory, worker, reader, written, version, crashes>>

Names    == {"experiment.json", "analysis-result.json"}
Retained == {"experiment.json"}
Evicted  == Names \ Retained

None == [f \in Names |-> 0]

(* runArchiveManifestData: the parts of the log in their order and the     *)
(* copied version of each file.  Object 0 has the log's conventional name, *)
(* segment 0 stands for a part without one.                                *)
NoIndex == [saved |-> FALSE, logs |-> <<>>, files |-> None]

Objects == 0 .. MaxEvents

(* The directory of the run in the store, under its staging name           *)
(* (".incoming-<id>") or under its own.  An evicted file is copied to an   *)
(* object with a fresh name, so every copied version stays; a retained one *)
(* is overwritten.                                                         *)
NoRemote ==
  [place |-> "none", objects |-> [o \in Objects |-> <<>>], artifacts |-> {},
   experiment |-> 0, index |-> NoIndex]

IdleWorker ==
  [pc |-> "idle", logs |-> <<>>, files |-> None, pinned |-> None, segments |-> <<>>,
   todo |-> {}, copied |-> {}, copiedLogs |-> {}, fresh |-> FALSE, experiment |-> 0]

IdleReader ==
  [pc |-> "idle", lease |-> FALSE, parts |-> <<>>, artifact |-> 0, remote |-> FALSE,
   log |-> <<>>, expected |-> 0, latest |-> 0, indexed |-> FALSE]

-----------------------------------------------------------------------------
(* The elements of s that are in S, in their order.                        *)
Keep(s, S) ==
  LET keep[n \in 0 .. Len(s)] ==
        IF n = 0 THEN <<>>
        ELSE IF s[n] \in S THEN Append(keep[n - 1], s[n])
        ELSE keep[n - 1]
  IN keep[Len(s)]

Part(object, segment, data) == [object |-> object, segment |-> segment, data |-> data]

(* A log that was archived before there were indexes.                      *)
LegacyLogs(r) == IF r.objects[0] = <<>> THEN <<>> ELSE <<Part(0, 0, r.objects[0])>>

InitialRemote(origin) ==
  IF origin = "local" THEN NoRemote
  ELSE [NoRemote EXCEPT
          !.place = "published", !.objects[0] = <<1>>, !.experiment = 1,
          !.index = IF origin = "legacy" THEN NoIndex
                    ELSE [saved |-> TRUE, logs |-> <<Part(0, 1, <<1>>)>>,
                          files |-> [None EXCEPT !["experiment.json"] = 1]]]

Init ==
  \E origin \in Origins :
    LET here == origin = "local"
    IN /\ dir = here
       /\ files = IF here THEN [None EXCEPT !["experiment.json"] = 1] ELSE None
       /\ active = here
       /\ queued = here
       /\ written = IF here THEN 0 ELSE 1
       /\ version = [None EXCEPT !["experiment.json"] = 1]
       /\ remote = InitialRemote(origin)
       /\ tail = <<>> /\ sealed = <<>> /\ index = NoIndex
       /\ importing = FALSE /\ deleted = FALSE /\ cleaned = FALSE
       /\ touched = FALSE /\ loaded = FALSE /\ scanned = FALSE
       /\ worker = IdleWorker
       /\ reader = [r \in Readers |-> IdleReader]
       /\ crashes = 0

(* The worker is inside a section under persistMu.                         *)
Locked == worker.pc \in {"importFiles", "importIndex", "importDone", "unlink"}

-----------------------------------------------------------------------------
(* Writers.                                                                *)

(* Mutant: a run that is already waiting keeps the version the worker saw. *)
markOncePending ==
  /\ queued' = TRUE
  /\ touched' = (touched \/ ~queued)

markRunArchiveDirty ==
  /\ queued' = TRUE
  /\ touched' = TRUE

(* Telemetry may arrive at any time, also for a run without a directory.   *)
persistEvents ==
  /\ ~Locked /\ ~deleted /\ written < MaxEvents
  /\ written' = written + 1
  /\ tail' = Append(tail, written + 1)
  /\ dir' = TRUE
  /\ markRunArchiveDirty
  /\ UNCHANGED <<sealed, files, index, importing, deleted, cleaned, remote, active,
                 loaded, scanned, worker, reader, version, crashes>>

saveFile(f) ==
  /\ version[f] < MaxVersions
  /\ version' = [version EXCEPT ![f] = @ + 1]
  /\ files' = [files EXCEPT ![f] = version[f] + 1]
  /\ markRunArchiveDirty
  /\ UNCHANGED <<dir, tail, sealed, index, importing, deleted, cleaned, remote, loaded,
                 scanned, worker, reader, written, crashes>>

(* persistExperiment, with the state of the run or its last one.           *)
persistExperiment ==
  /\ ~Locked /\ active
  /\ saveFile("experiment.json")
  /\ active' \in {TRUE, FALSE}

(* saveAnalysisJob publishes an artifact of a run that still exists.       *)
saveAnalysisJob ==
  /\ ~Locked /\ ~deleted /\ dir
  /\ saveFile("analysis-result.json")
  /\ UNCHANGED active

-----------------------------------------------------------------------------
(* The worker: the start of a cycle and the discovery of archived runs.    *)

Go(step) == worker' = [worker EXCEPT !.pc = step]
Rest     == worker' = IdleWorker

StartCycle ==
  /\ worker.pc = "idle"
  /\ loaded' = TRUE
  /\ IF loaded
     THEN UNCHANGED <<queued, touched>>
     ELSE IF dir THEN markRunArchiveDirty ELSE UNCHANGED <<queued, touched>>
  /\ \/ Go("import")
     \/ scanned /\ Go("clean")
  /\ UNCHANGED <<disk, remote, active, scanned, reader, written, version, crashes>>

(* Discovery of this run ends and the cycle goes on.                       *)
Discovered ==
  /\ scanned' = TRUE
  /\ Go("clean")

Indexed == index.saved /\ ~importing

importArchivedRuns ==
  /\ worker.pc = "import" /\ ~Locked
  /\ IF remote.place # "published" \/ deleted \/ Indexed
     THEN Discovered
     ELSE Go("importRead") /\ UNCHANGED scanned
  /\ UNCHANGED <<disk, remote, active, queued, touched, loaded, reader, written, version,
                 crashes>>

(* The index and the small files are read without a lock; a run that       *)
(* cannot be read is passed over.                                          *)
readArchivedRun ==
  /\ worker.pc = "importRead"
  /\ \/ /\ worker' = [worker EXCEPT
              !.pc = "importMark",
              !.logs = IF remote.index.saved THEN remote.index.logs ELSE LegacyLogs(remote),
              !.files = remote.index.files,
              !.experiment = remote.experiment,
              !.fresh = ~remote.index.saved]
        /\ UNCHANGED scanned
     \/ Discovered
  /\ UNCHANGED <<disk, remote, active, queued, touched, loaded, reader, written, version,
                 crashes>>

(* Mutant: the deletion that came in while the store was read is missed.   *)
LegacyRefused == worker.fresh /\ files["experiment.json"] > 0 /\ ~importing

(* A deletion came in meanwhile, or a local run has the name of a legacy   *)
(* archive.                                                                *)
ImportRefused ==
  deleted \/ (worker.fresh /\ files["experiment.json"] > 0 /\ ~importing)

markImport ==
  /\ worker.pc = "importMark" /\ ~Locked
  /\ IF ImportRefused
     THEN Discovered /\ UNCHANGED <<dir, importing>>
     ELSE /\ Go("importFiles")
          /\ dir' = TRUE
          /\ importing' = TRUE
          /\ UNCHANGED scanned
  /\ UNCHANGED <<tail, sealed, files, index, deleted, cleaned, remote, active, queued,
                 touched, loaded, reader, written, version, crashes>>

(* Nothing that is on the disk already is replaced.                        *)
importFiles ==
  /\ worker.pc = "importFiles"
  /\ LET kept == IF files["experiment.json"] > 0 THEN files["experiment.json"]
                 ELSE worker.experiment
     IN /\ files' = [files EXCEPT !["experiment.json"] = kept]
        /\ worker' = [worker EXCEPT
              !.pc = "importIndex",
              !.files["experiment.json"] = IF kept = worker.experiment THEN kept ELSE @]
  /\ UNCHANGED <<dir, tail, sealed, index, importing, deleted, cleaned, remote, memory,
                 reader, written, version, crashes>>

importIndex ==
  /\ worker.pc = "importIndex"
  /\ index' = [saved |-> TRUE, logs |-> worker.logs, files |-> worker.files]
  /\ Go("importDone")
  /\ UNCHANGED <<dir, tail, sealed, files, importing, deleted, cleaned, remote, memory,
                 reader, written, version, crashes>>

importDone ==
  /\ worker.pc = "importDone"
  /\ importing' = FALSE
  /\ markRunArchiveDirty
  /\ Discovered
  /\ UNCHANGED <<dir, tail, sealed, files, index, deleted, cleaned, remote, active, loaded,
                 reader, written, version, crashes>>

-----------------------------------------------------------------------------
(* The worker: archives of deleted runs.                                   *)

cleanDeletedArchives ==
  /\ worker.pc = "clean"
  /\ Go(IF deleted /\ ~cleaned THEN "cleanRemote" ELSE "run")
  /\ UNCHANGED <<disk, remote, memory, reader, written, version, crashes>>

removeArchive ==
  /\ worker.pc = "cleanRemote"
  /\ remote' = NoRemote
  /\ Go("cleanDone")
  /\ UNCHANGED <<disk, memory, reader, written, version, crashes>>

noteRemoval ==
  /\ worker.pc = "cleanDone"
  /\ cleaned' = TRUE
  /\ Go("run")
  /\ UNCHANGED <<dir, tail, sealed, files, index, importing, deleted, remote, memory,
                 reader, written, version, crashes>>

-----------------------------------------------------------------------------
(* The worker: archiveRun.                                                 *)

(* A running experiment pauses the worker.                                 *)
archiveIdle == ~active

takePending ==
  /\ worker.pc = "run"
  /\ IF queued /\ archiveIdle
     THEN touched' = FALSE /\ Go("seal")
     ELSE UNCHANGED touched /\ Rest
  /\ UNCHANGED <<disk, remote, active, queued, loaded, scanned, reader, written, version,
                 crashes>>

Known(logs, data)    == \E p \in ToSet(logs) : p.segment = Head(data)
Verified(logs, data) == \A p \in ToSet(logs) : p.segment = Head(data) => p.data = data

Sealed == IF tail = <<>> THEN sealed ELSE Append(sealed, tail)

(* The files that were copied before and can go, and those to copy.        *)
CopiedFiles  == {f \in Evicted : files[f] > 0 /\ index.files[f] = files[f]}
ChangedFiles == {f \in Names : files[f] > 0 /\ index.files[f] # files[f]}

(* Rotates the log and decides, from the local index, what has to be       *)
(* copied and what was copied before and can go.                           *)
sealLogs ==
  /\ worker.pc = "seal" /\ ~active /\ dir /\ ~deleted /\ ~importing
  /\ files["experiment.json"] > 0
  /\ tail' = <<>>
  /\ sealed' = Sealed
  /\ \A s \in ToSet(Sealed) : Verified(index.logs, s)
  /\ LET old == {s \in ToSet(Sealed) : Known(index.logs, s)}
         new == Keep(Sealed, ToSet(Sealed) \ old)
     IN worker' = [worker EXCEPT
          !.pc = IF ChangedFiles = {} /\ CopiedFiles = {} /\ old = {} /\ new = <<>>
                 THEN "dequeue" ELSE "open",
          !.logs = index.logs, !.files = index.files, !.pinned = files,
          !.segments = new, !.todo = ChangedFiles, !.copied = CopiedFiles,
          !.copiedLogs = old]
  /\ UNCHANGED <<dir, files, index, importing, deleted, cleaned, remote, memory, reader,
                 written, version, crashes>>

(* errResultBusy, also after the first of two logs was rotated, or an      *)
(* error: the run stays in the queue.                                      *)
sealBusy ==
  /\ worker.pc = "seal" /\ ~deleted /\ dir
  /\ \/ UNCHANGED <<tail, sealed>>
     \/ /\ ~active /\ ~importing /\ files["experiment.json"] > 0
        /\ tail' = <<>>
        /\ sealed' = Sealed
  /\ Rest
  /\ UNCHANGED <<dir, files, index, importing, deleted, cleaned, remote, memory, reader,
                 written, version, crashes>>

(* errResultNotFound ends the work like success does.                      *)
sealNotFound ==
  /\ worker.pc = "seal" /\ (deleted \/ ~dir)
  /\ Go("dequeue")
  /\ UNCHANGED <<disk, remote, memory, reader, written, version, crashes>>

(* What an interrupted cycle has already published.                        *)
Merged(logs, published) ==
  logs \o Keep(published, {p \in ToSet(published) : ~\E q \in ToSet(logs) : q.object = p.object})

openRemote ==
  /\ worker.pc = "open" /\ archiveIdle
  /\ remote' = [remote EXCEPT !.place = IF @ = "none" THEN "incoming" ELSE @]
  /\ worker' = [worker EXCEPT
        !.pc = "copy",
        !.fresh = remote.place # "published",
        !.logs = Merged(@, remote.index.logs),
        !.files = [f \in Names |-> IF @[f] = 0 THEN remote.index.files[f] ELSE @[f]]]
  /\ UNCHANGED <<disk, memory, reader, written, version, crashes>>

(* The first part keeps the conventional name of the log.                  *)
ObjectOf(logs, s) == IF logs = <<>> THEN 0 ELSE Head(s)

copySegment ==
  /\ worker.pc = "copy" /\ archiveIdle /\ worker.segments # <<>>
  /\ LET s == Head(worker.segments)
         o == ObjectOf(worker.logs, s)
     IN IF Known(worker.logs, s)
        THEN /\ Verified(worker.logs, s)
             /\ UNCHANGED remote
             /\ worker' = [worker EXCEPT !.segments = Tail(@), !.copiedLogs = @ \cup {s}]
        ELSE /\ remote' = [remote EXCEPT !.objects[o] = s]
             /\ worker' = [worker EXCEPT !.segments = Tail(@), !.copiedLogs = @ \cup {s},
                                         !.logs = Append(@, Part(o, Head(s), s))]
  /\ UNCHANGED <<disk, memory, reader, written, version, crashes>>

copyFile(f) ==
  /\ worker.pc = "copy" /\ archiveIdle /\ f \in worker.todo
  /\ remote' = IF f \in Retained
               THEN [remote EXCEPT !.experiment = worker.pinned[f]]
               ELSE [remote EXCEPT !.artifacts = @ \cup {worker.pinned[f]}]
  /\ worker' = [worker EXCEPT !.todo = @ \ {f}, !.files[f] = worker.pinned[f],
                              !.copied = IF f \in Retained THEN @ ELSE @ \cup {f}]
  /\ UNCHANGED <<disk, memory, reader, written, version, crashes>>

Work == [saved |-> TRUE, logs |-> worker.logs, files |-> worker.files]

publishRemote ==
  /\ worker.pc = "copy" /\ worker.segments = <<>> /\ worker.todo = {}
  /\ remote' = [remote EXCEPT !.index = Work]
  /\ Go(IF worker.fresh THEN "rename" ELSE "record")
  /\ UNCHANGED <<disk, memory, reader, written, version, crashes>>

renameRemote ==
  /\ worker.pc = "rename"
  /\ remote' = [remote EXCEPT !.place = "published"]
  /\ Go("record")
  /\ UNCHANGED <<disk, memory, reader, written, version, crashes>>

(* The local index is written before a copied byte is unlinked.            *)
recordIndex ==
  /\ worker.pc = "record"
  /\ IF deleted \/ ~dir
     THEN Go("dequeue") /\ UNCHANGED index
     ELSE Go("unlink") /\ index' = Work
  /\ UNCHANGED <<dir, tail, sealed, files, importing, deleted, cleaned, remote, memory,
                 reader, written, version, crashes>>

(* Mutant: a file is unlinked although it has been replaced meanwhile.     *)
unlinkAny(f) == TRUE

(* os.SameFile with the pinned inode, and its size and time.               *)
Unchanged(f) == files[f] = worker.pinned[f]

unlinkCopied ==
  /\ worker.pc = "unlink"
  /\ \/ \E f \in worker.copied :
          /\ worker' = [worker EXCEPT !.copied = @ \ {f}]
          /\ files' = IF Unchanged(f) THEN [files EXCEPT ![f] = 0] ELSE files
          /\ UNCHANGED sealed
     \/ \E s \in worker.copiedLogs :
          /\ worker' = [worker EXCEPT !.copiedLogs = @ \ {s}]
          /\ sealed' = Keep(sealed, ToSet(sealed) \ {s})
          /\ UNCHANGED files
  /\ UNCHANGED <<dir, tail, index, importing, deleted, cleaned, remote, memory, reader,
                 written, version, crashes>>

allUnlinked ==
  /\ worker.pc = "unlink" /\ worker.copied = {} /\ worker.copiedLogs = {}
  /\ Go("dequeue")
  /\ UNCHANGED <<disk, remote, memory, reader, written, version, crashes>>

dequeue ==
  /\ worker.pc = "dequeue"
  /\ queued' = (queued /\ touched)
  /\ Rest
  /\ UNCHANGED <<disk, remote, active, touched, loaded, scanned, reader, written, version,
                 crashes>>

(* An operation of the store or of the disk fails, or the store is not the *)
(* one whose identity was remembered: the cycle ends with an error.        *)
workerFails ==
  /\ worker.pc \notin {"idle", "seal", "dequeue"}
  /\ Rest
  /\ UNCHANGED <<disk, remote, memory, reader, written, version, crashes>>

-----------------------------------------------------------------------------
(* Readers.                                                                *)

LocalPart(data) == [local |-> TRUE, object |-> 0, data |-> data]

(* A part that is still on the local disk is opened there; of the others   *)
(* only the place and the size are known until the store is read.          *)
Source(p) ==
  IF p.data \in ToSet(sealed) /\ p.segment = Head(p.data)
  THEN LocalPart(p.data)
  ELSE [local |-> FALSE, object |-> p.object, data |-> p.data]

captureRunSource ==
  LET unknown == Keep(sealed, {s \in ToSet(sealed) : ~Known(index.logs, s)})
  IN [i \in DOMAIN index.logs |-> Source(index.logs[i])]
       \o [i \in DOMAIN unknown |-> LocalPart(unknown[i])]
       \o IF tail = <<>> THEN <<>> ELSE <<LocalPart(tail)>>

Content(parts) == FlattenSeq([i \in DOMAIN parts |-> parts[i].data])

(* One section under persistMu opens what is local.                        *)
captureResultFiles(r, download) ==
  /\ reader[r].pc = "idle" /\ ~Locked /\ ~deleted /\ dir
  /\ files["experiment.json"] > 0
  /\ LET parts    == captureRunSource
         artifact == IF files["analysis-result.json"] > 0 THEN files["analysis-result.json"]
                     ELSE index.files["analysis-result.json"]
         distant  == \/ \E i \in DOMAIN parts : ~parts[i].local
                     \/ artifact > 0 /\ files["analysis-result.json"] = 0
     IN reader' = [reader EXCEPT ![r] =
          [pc |-> IF distant THEN "captured" ELSE "open", lease |-> download,
           parts |-> parts, artifact |-> artifact,
           remote |-> files["analysis-result.json"] = 0,
           log |-> IF distant THEN <<>> ELSE Content(parts),
           expected |-> written, latest |-> version["analysis-result.json"],
           indexed |-> ~importing]]
  /\ UNCHANGED <<disk, remote, memory, worker, written, version, crashes>>

(* The deletion fence: resultReadPins, or the end of the capture.          *)
pinArchive(r) ==
  /\ reader[r].pc = "captured" /\ ~Locked
  /\ reader' = [reader EXCEPT ![r] = IF deleted THEN IdleReader
                                     ELSE [@ EXCEPT !.pc = "pinned"]]
  /\ UNCHANGED <<disk, remote, memory, worker, written, version, crashes>>

Stored(p) == IF p.local THEN p.data ELSE remote.objects[p.object]

(* Opens the objects; one that is missing or has another size fails.       *)
resolveArchivedFiles(r) ==
  /\ reader[r].pc = "pinned" /\ remote.place = "published"
  /\ LET parts == reader[r].parts
     IN /\ \A i \in DOMAIN parts : Len(Stored(parts[i])) = Len(parts[i].data)
        /\ reader[r].remote /\ reader[r].artifact > 0 =>
             reader[r].artifact \in remote.artifacts
        /\ reader' = [reader EXCEPT
             ![r].pc = "open",
             ![r].log = FlattenSeq([i \in DOMAIN parts |-> Stored(parts[i])])]
  /\ UNCHANGED <<disk, remote, memory, worker, written, version, crashes>>

(* The capture ends: it was read, or an error or its client ended it.      *)
closeSnapshot(r) ==
  /\ reader[r].pc # "idle"
  /\ reader' = [reader EXCEPT ![r] = IdleReader]
  /\ UNCHANGED <<disk, remote, memory, worker, written, version, crashes>>

-----------------------------------------------------------------------------
(* Deletion and crashes.                                                   *)

resultDeletionBusy ==
  \/ active
  \/ \E r \in Readers : reader[r].pc = "pinned"
  \/ \E r \in Readers : reader[r].pc # "idle" /\ reader[r].lease

(* The marker comes first: the removal may stop half way, and is retried.  *)
deleteSavedResult ==
  /\ ~Locked /\ dir /\ ~resultDeletionBusy
  /\ deleted' = TRUE
  /\ \/ UNCHANGED <<dir, tail, sealed, files, index, importing>>
     \/ /\ dir' = FALSE
        /\ tail' = <<>> /\ sealed' = <<>> /\ files' = None
        /\ index' = NoIndex /\ importing' = FALSE
  /\ UNCHANGED <<cleaned, remote, memory, worker, reader, written, version, crashes>>

controllerRestarts ==
  /\ crashes < MaxCrashes
  /\ crashes' = crashes + 1
  /\ active' = FALSE /\ queued' = FALSE /\ touched' = FALSE
  /\ loaded' = FALSE /\ scanned' = FALSE
  /\ worker' = IdleWorker
  /\ reader' = [r \in Readers |-> IdleReader]
  /\ UNCHANGED <<disk, remote, written, version>>

Import  == importArchivedRuns \/ readArchivedRun \/ markImport \/ importFiles
             \/ importIndex \/ importDone
Clean   == cleanDeletedArchives \/ removeArchive \/ noteRemoval
Archive == \/ takePending \/ sealLogs \/ sealBusy \/ sealNotFound \/ openRemote
           \/ copySegment \/ (\E f \in Names : copyFile(f)) \/ publishRemote
           \/ renameRemote \/ recordIndex \/ unlinkCopied \/ allUnlinked \/ dequeue
Read(r) == \/ \E download \in BOOLEAN : captureResultFiles(r, download)
           \/ pinArchive(r) \/ resolveArchivedFiles(r) \/ closeSnapshot(r)

Next ==
  \/ persistEvents \/ persistExperiment \/ saveAnalysisJob
  \/ StartCycle \/ Import \/ Clean \/ Archive \/ workerFails
  \/ \E r \in Readers : Read(r)
  \/ deleteSavedResult
  \/ controllerRestarts

Spec == Init /\ [][Next]_vars

-----------------------------------------------------------------------------
(* Properties.                                                             *)

(* What a capture reads is what had been persisted when it was taken: each *)
(* event once and in order, and the last artifact, wherever the parts were *)
(* by then and whatever interrupted earlier cycles left on either side.    *)
(* Captures taken while an import is unfinished are not covered: the code  *)
(* reads a run whose index is not there yet.                               *)
CapturesAreExact ==
  \A r \in Readers :
    reader[r].pc = "open" /\ reader[r].indexed =>
      /\ reader[r].log = [i \in 1 .. reader[r].expected |-> i]
      /\ reader[r].artifact = reader[r].latest

(* A deleted run does not come back: once its directory is gone no late    *)
(* telemetry, import or upload makes it again, and once the removal of its *)
(* archived copies is noted, which is never repeated, none of them is in   *)
(* the store, whatever was under way when the run was deleted.             *)
DeletionIsFinal ==
  [][/\ deleted /\ ~dir => ~dir'
     /\ cleaned' => deleted /\ remote' = NoRemote]_vars

(* Everything that is only on the local disk.                              *)
Unsaved ==
  \/ tail # <<>>
  \/ sealed # <<>>
  \/ \E f \in Names : files[f] > 0 /\ (index.files[f] # files[f] \/ f \in Evicted)

(* Data that has not reached the store is in the queue of the worker,      *)
(* unless the worker has still to load the queue or is at work on the run: *)
(* otherwise a late write would stay local until the next restart.         *)
UnsavedDataIsQueued ==
  loaded /\ dir /\ ~deleted /\ ~importing /\ Unsaved => queued
=============================================================================
