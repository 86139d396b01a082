------------------------ MODULE ResultAnalysisProofs ------------------------
(***************************************************************************)
(* Proofs about ResultAnalysis: what is shown of an analysis was computed  *)
(* from the bytes there are now, announced sizes are exact, nobody waits   *)
(* for work that nobody does, and nothing of a deleted run comes back.     *)
(***************************************************************************)
EXTENDS ResultAnalysis, FiniteSetTheorems, NaturalsInduction, WellFoundedInduction, TLAPS

-----------------------------------------------------------------------------
(* Types.                                                                  *)

RunSteps      == {"queued", "captured", "running"}
PassSteps     == {"check", "analyze"}
PublishSteps  == {"reuse", "stage", "staged"}
JobSteps      == RunSteps \cup PassSteps \cup PublishSteps \cup {"failed"}
FlightSteps   == {"acquire", "measure", "measured"}
DownloadSteps == {"lookup", "wait", "prepared", "stream"} \cup FlightSteps

File     == [bytes : Nat, place : Nat, settled : Nat]
Sources  == [Runs -> File]
Hashes   == [Runs -> Nat]
States   == {"idle", "queued", "running", "completed", "failed", "interrupted"}
Status   == [state : States, id : Nat, key : Sources, hash : Hashes]
Artifact == [id : Nat, read : Hashes]
Stored   == [job : Status, artifact : Artifact]
Size     == [of : File, at : Nat, bytes : Nat \X Nat, until : Nat, extended : BOOLEAN]
Holder   == Tasks \cup {0}

Task ==
  [kind : {"none", "run", "batch", "GET", "HEAD"}, on : Subjects,
   pc : JobSteps \cup DownloadSteps \cup {"idle", "done"},
   held : {"no", "captured", "reported"}, canceled : BOOLEAN,
   status : Status, previous : Status, left : SUBSET Runs, hashes : Hashes,
   read : Hashes, files : File, at : Nat, size : Size, waits : Holder]

TypeInv ==
  /\ data \in [Runs -> File]
  /\ here \in [Runs -> {"present", "marked", "gone"}]
  /\ stored \in [Subjects -> Stored]
  /\ jobs \in [Subjects -> Holder]
  /\ task \in [Tasks -> Task]
  /\ slot \in Holder
  /\ sizes \in [Runs -> Size]
  /\ flight \in [Runs -> Holder]
  /\ now \in Nat
  /\ requests \in 0 .. MaxRequests /\ events \in Nat

-----------------------------------------------------------------------------
(* What the local variables of a task t imply, whatever else goes on.      *)

(* Which steps belong to which kind of task, and that a job at work is     *)
(* not finished.                                                           *)
KindInv(t) ==
  /\ t.pc \in JobSteps =>
       /\ t.kind \in {"run", "batch"} /\ (t.kind = "batch" <=> t.on = Batch)
       /\ Unfinished(t.status)
  /\ t.pc \in RunSteps => t.kind = "run"
  /\ t.pc \in PassSteps => t.kind = "batch"
  /\ t.pc \in DownloadSteps => t.kind \in {"GET", "HEAD"} /\ t.on \in Runs

(* The revision in a job of a run is that of the files it captured.        *)
RunInv(t) ==
  /\ t.pc \in {"queued", "captured"} => t.status.key = NoSources
  /\ t.pc = "running" => t.status.key = [NoSources EXCEPT ![t.on] = t.files]

(* The members a pass has behind it were hashed, and read in the second    *)
(* pass, as they are in the revision of the batch.                         *)
PassInv(t) ==
  LET key == t.status.key
  IN /\ t.pc \in PassSteps =>
          /\ \A r \in Runs : t.hashes[r] \in {0, key[r].bytes}
          /\ \A r \in Runs \ t.left : t.hashes[r] = key[r].bytes
          /\ t.held # "no" => t.left # {} /\ t.files = key[Min(t.left)]
     /\ t.pc = "check" => t.read = NoHashes
     /\ t.pc = "analyze" => \A r \in Runs \ t.left : t.read[r] = key[r].bytes

(* What is about to be published is of the revision in the status.         *)
PublishInv(t) ==
  /\ t.pc = "reuse" => t.previous # NoJob /\ t.previous.hash = Hash(t.status.key)
  /\ t.pc \in {"stage", "staged"} =>
       t.status.hash = Hash(t.status.key) /\ t.read = Hash(t.status.key)

(* A measured size says what a download of these files at that time has.   *)
Measured(size) == size.bytes = Bytes(size.of, size.at)

SizeInv(t) ==
  t.pc \in {"measured", "prepared", "stream"} =>
    /\ Measured(t.size) /\ t.size.of = t.files
    /\ Pending(t.size.of, t.size.at) => t.at = t.size.at

Local(t) == KindInv(t) /\ RunInv(t) /\ PassInv(t) /\ PublishInv(t) /\ SizeInv(t)

-----------------------------------------------------------------------------
(* What relates the tasks to the shared variables.                         *)

LocalInv == \A i \in Tasks : Local(task[i])

(* Numbers that no request has had yet are unused, and so is 0.  A subject *)
(* has the job that was started for it.                                    *)
OwnerInv ==
  /\ \A i \in Tasks : i > requests => task[i] = IdleTask
  /\ \A s \in Subjects : jobs[s] # 0 =>
       task[jobs[s]].on = s /\ task[jobs[s]].pc \in JobSteps \cup {"done"}

(* A completed job is of the bytes in its revision, and an artifact next   *)
(* to it was computed from them.                                           *)
Sound(job, artifact) ==
  job.state = "completed" =>
    /\ job.hash = Hash(job.key)
    /\ artifact # NoArtifact => artifact.id = job.id /\ artifact.read = Hash(job.key)

(* The jobs that a request may be answered with are sound.  While a job is *)
(* at work, the one before it is not completed on the disk any more, but   *)
(* its artifact is still there to be reused.                               *)
SoundAt(files, id, t) ==
  /\ Sound(files.job, files.artifact)
  /\ id # 0 =>
       /\ Sound(t.status, files.artifact)
       /\ t.pc \in JobSteps =>
            /\ files.job.state # "completed"
            /\ t.previous # NoJob =>
                 t.previous.state = "completed" /\ Sound(t.previous, files.artifact)

JobOf(s) == IF jobs[s] = 0 THEN IdleTask ELSE task[jobs[s]]

SoundInv == \A s \in Subjects : SoundAt(stored[s], jobs[s], JobOf(s))

(* The slot is held by a job that works, a flight by a download of the run *)
(* that measures.                                                          *)
SlotInv == slot # 0 => task[slot].pc \in JobSteps \ {"queued", "failed"}

FlightInv ==
  \A r \in Runs : flight[r] # 0 =>
    task[flight[r]].on = r /\ task[flight[r]].pc \in FlightSteps

KeptInv == \A r \in Runs : Measured(sizes[r])

IInv ==
  /\ TypeInv /\ LocalInv /\ OwnerInv /\ SoundInv /\ SlotInv /\ FlightInv /\ KeptInv
  /\ DeletedRunsStayDeleted

-----------------------------------------------------------------------------
(* Types of constants and of the operators of the module.                  *)

(* A set of natural numbers has a least element.                           *)
LEMMA LeastNumber ==
  ASSUME NEW S \in SUBSET Nat, S # {}
  PROVE  \E n \in S : \A m \in S : n <= m
<1> DEFINE R == {ss \in Nat \X Nat : ss[1] < ss[2]}
<1>1. IsWellFoundedOn(R, Nat)
  BY NatLessThanWellFounded DEF OpToRel
<1>2. PICK n \in S : \A m \in S : << m, n >> \notin R
  BY <1>1, WFMin
<1>3. \A m \in S : ~(m < n)
  <2> SUFFICES ASSUME NEW m \in S, m < n PROVE FALSE
    OBVIOUS
  <2>1. << m, n >> \in Nat \X Nat /\ << m, n >>[1] < << m, n >>[2]
    OBVIOUS
  <2> QED
    BY <1>2, <2>1
<1> QED
  BY <1>3

(* The member a pass takes next is a run.                                  *)
LEMMA MinRun ==
  ASSUME NEW S \in SUBSET Runs, S # {}
  PROVE  Min(S) \in S
<1>1. S \in SUBSET Nat
  BY AnalysisBounds DEF Runs
<1>2. PICK n \in S : \A m \in S : n <= m
  BY <1>1, LeastNumber
<1> QED
  BY <1>2 DEF Min

(* Runs, tasks and subjects are numbers; 0 is the batch, and no task.      *)
LEMMA Numbers ==
  /\ Runs \subseteq Nat \ {0} /\ Tasks \subseteq Nat \ {0} /\ Subjects \subseteq Nat
  /\ Runs \subseteq Subjects /\ Batch \in Subjects /\ Subjects = Runs \cup {Batch}
  /\ Batch \notin Runs /\ 0 \notin Tasks /\ MaxRequests \in Nat
BY AnalysisBounds DEF Runs, Tasks, Subjects, Batch

(* The values that stand for nothing have their types.                     *)
LEMMA Constants ==
  /\ Absent \in File /\ NoSources \in Sources /\ NoHashes \in Hashes
  /\ NoJob \in Status /\ NoArtifact \in Artifact /\ NoFiles \in Stored
  /\ NoSize \in Size /\ IdleTask \in Task
<1>1. Absent \in File /\ NoHashes \in Hashes
  BY DEF Absent, File, NoHashes, Hashes
<1>2. NoSources \in Sources
  BY <1>1 DEF NoSources, Sources
<1>3. NoJob \in Status
  BY <1>1, <1>2 DEF NoJob, Status, States
<1>4. NoArtifact \in Artifact /\ NoFiles \in Stored
  BY <1>1, <1>3 DEF NoArtifact, Artifact, NoFiles, Stored
<1>5. NoSize \in Size
  BY <1>1 DEF NoSize, Size
<1>6. IdleTask \in Task
  BY <1>1, <1>3, <1>5, Numbers DEF IdleTask, Task, Holder, Batch
<1> QED
  BY <1>1, <1>2, <1>3, <1>4, <1>5, <1>6

(* The hash of a revision consists of the bytes of its files.              *)
LEMMA HashType ==
  ASSUME NEW key \in Sources
  PROVE  Hash(key) \in Hashes /\ \A r \in Runs : Hash(key)[r] = key[r].bytes
BY DEF Hash, Hashes, Sources, File

(* What names the sources of a subject names a file of each run.           *)
LEMMA KeyType ==
  ASSUME TypeInv, NEW s \in Subjects
  PROVE  Key(s) \in Sources
BY Constants DEF Key, Sources, TypeInv

(* An idle task satisfies whatever is said of tasks.                       *)
LEMMA IdleLocal == Local(IdleTask)
BY DEF Local, KindInv, RunInv, PassInv, PublishInv, SizeInv, IdleTask, JobSteps,
       RunSteps, PassSteps, PublishSteps, DownloadSteps, FlightSteps

(* Steps that differ.                                                      *)
LEMMA Steps ==
  /\ "idle" \notin JobSteps /\ "done" \notin JobSteps /\ "idle" \notin DownloadSteps
  /\ "done" \notin DownloadSteps /\ JobSteps \cap DownloadSteps = {}
  /\ FlightSteps \subseteq DownloadSteps
BY DEF JobSteps, RunSteps, PassSteps, PublishSteps, DownloadSteps, FlightSteps

(* A task works in the steps of a job until it has failed.                 *)
LEMMA WorkingSteps ==
  ASSUME TypeInv, NEW i \in Tasks
  PROVE  Working(i) <=> task[i].pc \in JobSteps \ {"failed"}
<1>1. task[i].pc \in JobSteps \cup DownloadSteps \cup {"idle", "done"}
  BY DEF TypeInv, Task
<1> QED
  BY <1>1 DEF Working, JobSteps, RunSteps, PassSteps, PublishSteps, DownloadSteps,
              FlightSteps

-----------------------------------------------------------------------------
(* What a step of one task must respect.                                   *)

(* A step of the analysis i, which is t after it; f is what is stored.    *)
JobStep(i, t, f) ==
  /\ task[i].pc \in JobSteps /\ t.pc \in JobSteps \cup {"done"} /\ t.on = task[i].on
  /\ Local(t)
  /\ SoundAt(f, jobs[t.on], IF jobs[t.on] = i THEN t ELSE JobOf(t.on))
  /\ t.on \in Runs /\ here[t.on] = "gone" => f = NoFiles
  /\ task' = [task EXCEPT ![i] = t]
  /\ stored' = [stored EXCEPT ![t.on] = f]
  /\ slot' \in {slot, 0, i}
  /\ slot' = i => t.pc \in JobSteps \ {"queued", "failed"}
  /\ UNCHANGED <<data, here, jobs, sizes, flight, now, counters>>

DownloadStep(i, t) ==
  /\ task[i].pc \in DownloadSteps /\ t.pc \in DownloadSteps \cup {"done"}
  /\ t.on = task[i].on /\ Local(t)
  /\ task' = [task EXCEPT ![i] = t]
  /\ flight' \in [Runs -> Holder] /\ sizes' \in [Runs -> Size]
  /\ \A r \in Runs :
       /\ flight'[r] \in {flight[r], 0, i}
       /\ flight'[r] = i => r = t.on /\ t.pc \in FlightSteps
       /\ sizes'[r] = sizes[r] \/ (here[r] # "gone" /\ Measured(sizes'[r]))
  /\ UNCHANGED <<data, here, stored, jobs, slot, now, counters>>

(* A step of one task leaves the others, and who owns a subject, alone.    *)
LEMMA TaskStep ==
  ASSUME TypeInv, LocalInv, OwnerInv, NEW i \in Tasks, NEW t \in Task,
         task[i].pc # "idle", Local(t), t.on = task[i].on,
         task[i].pc \in JobSteps \cup {"done"} => t.pc \in JobSteps \cup {"done"},
         task' = [task EXCEPT ![i] = t], jobs' = jobs, requests' = requests
  PROVE  /\ task' \in [Tasks -> Task] /\ task'[i] = t
         /\ \A j \in Tasks \ {i} : task'[j] = task[j]
         /\ LocalInv' /\ OwnerInv'
<1>1. /\ task' \in [Tasks -> Task] /\ task'[i] = t
      /\ \A j \in Tasks \ {i} : task'[j] = task[j]
  BY DEF TypeInv
<1>2. LocalInv'
  <2> SUFFICES ASSUME NEW j \in Tasks PROVE Local(task'[j])
    BY DEF LocalInv
  <2> QED
    BY <1>1 DEF LocalInv
<1>3. IdleTask.pc = "idle" /\ ~(i > requests)
  BY DEF OwnerInv, IdleTask
<1>4. \A j \in Tasks : j > requests => task'[j] = IdleTask
  BY <1>1, <1>3 DEF OwnerInv
<1>5. \A s \in Subjects : jobs[s] # 0 =>
        task'[jobs[s]].on = s /\ task'[jobs[s]].pc \in JobSteps \cup {"done"}
  <2> SUFFICES ASSUME NEW s \in Subjects, jobs[s] # 0
               PROVE  task'[jobs[s]].on = s /\ task'[jobs[s]].pc \in JobSteps \cup {"done"}
    OBVIOUS
  <2>1. jobs[s] \in Tasks
    BY DEF TypeInv, Holder
  <2>2. task[jobs[s]].on = s /\ task[jobs[s]].pc \in JobSteps \cup {"done"}
    BY DEF OwnerInv
  <2> QED
    BY <1>1, <2>1, <2>2
<1> QED
  BY <1>1, <1>2, <1>4, <1>5 DEF OwnerInv

(* A step of an analysis that respects all this keeps the invariant.       *)
LEMMA JobStepKeeps ==
  ASSUME IInv, NEW i \in Tasks, NEW t \in Task, NEW f \in Stored, JobStep(i, t, f)
  PROVE  IInv'
<1> DEFINE s0 == t.on
<1>1. /\ TypeInv /\ LocalInv /\ OwnerInv /\ SoundInv /\ SlotInv /\ FlightInv /\ KeptInv
      /\ DeletedRunsStayDeleted
  BY DEF IInv
<1>2. /\ task[i].pc \in JobSteps /\ t.pc \in JobSteps \cup {"done"} /\ t.on = task[i].on
      /\ Local(t)
      /\ SoundAt(f, jobs[s0], IF jobs[s0] = i THEN t ELSE JobOf(s0))
      /\ t.on \in Runs /\ here[t.on] = "gone" => f = NoFiles
      /\ task' = [task EXCEPT ![i] = t]
      /\ stored' = [stored EXCEPT ![s0] = f]
      /\ slot' \in {slot, 0, i}
      /\ slot' = i => t.pc \in JobSteps \ {"queued", "failed"}
      /\ data' = data /\ here' = here /\ jobs' = jobs /\ sizes' = sizes
      /\ flight' = flight /\ now' = now /\ requests' = requests /\ events' = events
  BY DEF JobStep, counters
<1>3. s0 \in Subjects
  BY DEF Task
<1>4. /\ task' \in [Tasks -> Task] /\ task'[i] = t
      /\ \A j \in Tasks \ {i} : task'[j] = task[j]
      /\ LocalInv' /\ OwnerInv'
  BY <1>1, <1>2, Steps, TaskStep
<1>5. /\ stored' \in [Subjects -> Stored] /\ stored'[s0] = f
      /\ \A s \in Subjects \ {s0} : stored'[s] = stored[s]
  BY <1>1, <1>2, <1>3 DEF TypeInv
<1>6. TypeInv'
  BY <1>1, <1>2, <1>4, <1>5 DEF TypeInv, Holder
<1>7. SoundInv'
  <2> SUFFICES ASSUME NEW s \in Subjects PROVE SoundAt(stored'[s], jobs'[s], JobOf(s)')
    BY DEF SoundInv
  <2>1. jobs[s] \in Holder
    BY <1>1 DEF TypeInv
  <2>2. CASE s = s0
    <3>1. JobOf(s)' = IF jobs[s] = i THEN t ELSE JobOf(s)
      BY <1>2, <1>4, <2>1, Numbers DEF JobOf, Holder
    <3> QED
      BY <1>2, <1>5, <2>2, <3>1
  <2>3. CASE s # s0
    <3>1. jobs[s] # i
      BY <1>1, <1>2, <2>3, Numbers DEF OwnerInv
    <3>2. JobOf(s)' = JobOf(s)
      BY <1>2, <1>4, <2>1, <3>1 DEF JobOf, Holder
    <3> QED
      BY <1>1, <1>2, <1>5, <2>3, <3>2 DEF SoundInv
  <2> QED
    BY <2>2, <2>3
<1>8. SlotInv'
  <2> SUFFICES ASSUME slot' # 0
               PROVE  task'[slot'].pc \in JobSteps \ {"queued", "failed"}
    BY DEF SlotInv
  <2>1. CASE slot' = i
    BY <1>2, <1>4, <2>1
  <2>2. CASE slot' # i
    <3>1. slot' = slot /\ slot \in Tasks
      BY <1>1, <1>2, <2>2 DEF TypeInv, Holder
    <3> QED
      BY <1>1, <1>4, <2>2, <3>1 DEF SlotInv
  <2> QED
    BY <2>1, <2>2
<1>9. FlightInv'
  <2> SUFFICES ASSUME NEW r \in Runs, flight[r] # 0
               PROVE  task'[flight[r]].on = r /\ task'[flight[r]].pc \in FlightSteps
    BY <1>2 DEF FlightInv
  <2>1. flight[r] \in Tasks
    BY <1>1 DEF TypeInv, Holder
  <2>2. task[flight[r]].on = r /\ task[flight[r]].pc \in FlightSteps
    BY <1>1 DEF FlightInv
  <2>3. flight[r] # i
    BY <1>2, <2>2, Steps
  <2> QED
    BY <1>4, <2>1, <2>2, <2>3
<1>10. KeptInv'
  BY <1>1, <1>2 DEF KeptInv
<1>11. DeletedRunsStayDeleted'
  <2> SUFFICES ASSUME NEW r \in Runs, here[r] = "gone"
               PROVE  stored'[r] = NoFiles /\ jobs[r] = 0 /\ sizes[r] = NoSize
    BY <1>2 DEF DeletedRunsStayDeleted
  <2>1. stored[r] = NoFiles /\ jobs[r] = 0 /\ sizes[r] = NoSize
    BY <1>1 DEF DeletedRunsStayDeleted
  <2> QED
    BY <1>2, <1>5, <2>1, Numbers
<1> QED
  BY <1>4, <1>6, <1>7, <1>8, <1>9, <1>10, <1>11 DEF IInv

(* So does a step of a download.                                           *)
LEMMA DownloadStepKeeps ==
  ASSUME IInv, NEW i \in Tasks, NEW t \in Task, DownloadStep(i, t)
  PROVE  IInv'
<1>1. /\ TypeInv /\ LocalInv /\ OwnerInv /\ SoundInv /\ SlotInv /\ FlightInv /\ KeptInv
      /\ DeletedRunsStayDeleted
  BY DEF IInv
<1>2. /\ task[i].pc \in DownloadSteps /\ t.pc \in DownloadSteps \cup {"done"}
      /\ t.on = task[i].on /\ Local(t)
      /\ task' = [task EXCEPT ![i] = t]
      /\ flight' \in [Runs -> Holder] /\ sizes' \in [Runs -> Size]
      /\ \A r \in Runs : flight'[r] \in {flight[r], 0, i}
      /\ \A r \in Runs : flight'[r] = i => r = t.on /\ t.pc \in FlightSteps
      /\ \A r \in Runs : sizes'[r] = sizes[r] \/ (here[r] # "gone" /\ Measured(sizes'[r]))
      /\ data' = data /\ here' = here /\ jobs' = jobs /\ stored' = stored /\ slot' = slot
      /\ now' = now /\ requests' = requests /\ events' = events
  BY DEF DownloadStep, counters
<1>3. /\ task' \in [Tasks -> Task] /\ task'[i] = t
      /\ \A j \in Tasks \ {i} : task'[j] = task[j]
      /\ LocalInv' /\ OwnerInv'
  <2>1. task[i].pc # "idle" /\ ~(task[i].pc \in JobSteps \cup {"done"})
    BY <1>2, Steps
  <2> QED
    BY <1>1, <1>2, <2>1, TaskStep
<1>4. TypeInv'
  BY <1>1, <1>2, <1>3 DEF TypeInv
<1>5. SoundInv'
  <2> SUFFICES ASSUME NEW s \in Subjects PROVE SoundAt(stored'[s], jobs'[s], JobOf(s)')
    BY DEF SoundInv
  <2>1. jobs[s] \in Holder
    BY <1>1 DEF TypeInv
  <2>2. jobs[s] # i
    BY <1>1, <1>2, Steps, Numbers DEF OwnerInv
  <2>3. JobOf(s)' = JobOf(s)
    BY <1>2, <1>3, <2>1, <2>2 DEF JobOf, Holder
  <2> QED
    BY <1>1, <1>2, <2>3 DEF SoundInv
<1>6. SlotInv'
  <2> SUFFICES ASSUME slot # 0 PROVE task'[slot].pc \in JobSteps \ {"queued", "failed"}
    BY <1>2 DEF SlotInv
  <2>1. slot \in Tasks /\ task[slot].pc \in JobSteps \ {"queued", "failed"}
    BY <1>1 DEF TypeInv, Holder, SlotInv
  <2>2. slot # i
    BY <1>2, <2>1, Steps
  <2> QED
    BY <1>3, <2>1, <2>2
<1>7. FlightInv'
  <2> SUFFICES ASSUME NEW r \in Runs, flight'[r] # 0
               PROVE  task'[flight'[r]].on = r /\ task'[flight'[r]].pc \in FlightSteps
    BY DEF FlightInv
  <2>1. CASE flight'[r] = i
    BY <1>2, <1>3, <2>1
  <2>2. CASE flight'[r] # i
    <3>1. flight'[r] = flight[r] /\ flight[r] \in Tasks
      BY <1>1, <1>2, <2>2 DEF TypeInv, Holder
    <3> QED
      BY <1>1, <1>3, <2>2, <3>1 DEF FlightInv
  <2> QED
    BY <2>1, <2>2
<1>8. KeptInv'
  BY <1>1, <1>2 DEF KeptInv
<1>9. DeletedRunsStayDeleted'
  BY <1>1, <1>2 DEF DeletedRunsStayDeleted
<1> QED
  BY <1>3, <1>4, <1>5, <1>6, <1>7, <1>8, <1>9 DEF IInv

-----------------------------------------------------------------------------
(* The invariant holds at first.                                           *)

(* The initial states, with and without analyses on the disk.              *)
LEMMA InitKeeps == Init => IInv
<1> SUFFICES ASSUME Init PROVE IInv
  OBVIOUS
<1>1. /\ data = [r \in Runs |-> [bytes |-> 1, place |-> 1, settled |-> 0]]
      /\ here = [r \in Runs |-> "present"]
      /\ jobs = [s \in Subjects |-> 0] /\ task = [i \in Tasks |-> IdleTask]
      /\ slot = 0 /\ sizes = [r \in Runs |-> NoSize] /\ flight = [r \in Runs |-> 0]
      /\ now = 0 /\ requests = 0 /\ events = 0
  BY DEF Init
<1>2. /\ stored \in [Subjects -> Stored]
      /\ \A s \in Subjects : Sound(stored[s].job, stored[s].artifact)
  <2> DEFINE key(s) == [r \in Runs |-> IF s \in {r, Batch} THEN data[r] ELSE Absent]
             saved(s) == [job |-> [state |-> "completed", id |-> 0, key |-> key(s),
                                   hash |-> Hash(key(s))],
                          artifact |-> [id |-> 0, read |-> Hash(key(s))]]
  <2>1. PICK analysed \in {{}, Subjects} :
          stored = [s \in Subjects |-> IF s \notin analysed THEN NoFiles ELSE saved(s)]
    BY DEF Init
  <2>2. ASSUME NEW s \in Subjects
        PROVE  saved(s) \in Stored /\ Sound(saved(s).job, saved(s).artifact)
    <3>1. key(s) \in Sources
      BY <1>1, Constants DEF Sources, File
    <3> DEFINE k == key(s)
               h == Hash(k)
    <3>2. k \in Sources /\ h \in Hashes
      BY <3>1, HashType
    <3> HIDE DEF k
    <3>3. [state |-> "completed", id |-> 0, key |-> k, hash |-> h] \in Status
      BY <3>2 DEF Status, States
    <3>4. [id |-> 0, read |-> h] \in Artifact
      BY <3>2 DEF Artifact
    <3>5. /\ saved(s).job = [state |-> "completed", id |-> 0, key |-> k, hash |-> h]
          /\ saved(s).artifact = [id |-> 0, read |-> h]
          /\ saved(s) = [job |-> saved(s).job, artifact |-> saved(s).artifact]
      BY DEF k
    <3>6. saved(s) \in Stored
      BY <3>3, <3>4, <3>5 DEF Stored
    <3>7. Sound(saved(s).job, saved(s).artifact)
      BY <3>5 DEF Sound
    <3> QED
      BY <3>6, <3>7
  <2>3. NoFiles \in Stored /\ Sound(NoFiles.job, NoFiles.artifact)
    BY Constants DEF NoFiles, NoJob, Sound
  <2> HIDE DEF saved
  <2> QED
    BY <2>1, <2>2, <2>3
<1>3. TypeInv
  BY <1>1, <1>2, Constants, Numbers DEF TypeInv, Holder, File
<1>4. LocalInv
  BY <1>1, IdleLocal DEF LocalInv
<1>5. OwnerInv /\ SlotInv /\ FlightInv
  BY <1>1 DEF OwnerInv, SlotInv, FlightInv
<1>6. SoundInv
  BY <1>1, <1>2 DEF SoundInv, SoundAt
<1>7. KeptInv
  BY <1>1 DEF KeptInv, Measured, NoSize, Bytes, Pending, Absent
<1>8. DeletedRunsStayDeleted
  BY <1>1 DEF DeletedRunsStayDeleted
<1> QED
  BY <1>3, <1>4, <1>5, <1>6, <1>7, <1>8 DEF IInv

-----------------------------------------------------------------------------
(* Steps that publish nothing: at most the job in progress is stored.      *)

(* A job that stores at most its own unfinished status, or has failed.     *)
LEMMA QuietKeeps ==
  ASSUME IInv, NEW i \in Tasks, NEW t \in Task, NEW f \in Stored,
         task[i].pc \in JobSteps, t.pc \in JobSteps \cup {"done"}, t.on = task[i].on,
         Local(t), t.status.state # "completed",
         t.pc \in JobSteps => t.previous \in {task[i].previous, NoJob},
         f.artifact = stored[t.on].artifact,
         \/ f.job = stored[t.on].job
         \/ f.job.state # "completed" /\ (t.on \in Runs => here[t.on] # "gone"),
         task' = [task EXCEPT ![i] = t],
         stored' = [stored EXCEPT ![t.on] = f],
         slot' \in {slot, 0, i},
         slot' = i => t.pc \in JobSteps \ {"queued", "failed"},
         UNCHANGED <<data, here, jobs, sizes, flight, now, counters>>
  PROVE  IInv'
<1> DEFINE s == t.on
           j == jobs[s]
<1>1. /\ TypeInv /\ OwnerInv /\ SoundInv /\ DeletedRunsStayDeleted
      /\ s \in Subjects /\ j \in Holder /\ stored[s] \in Stored
  BY DEF IInv, Task, TypeInv
<1>2. SoundAt(stored[s], j, JobOf(s))
  BY <1>1 DEF SoundInv
<1>3. Sound(f.job, f.artifact)
  BY <1>2 DEF SoundAt, Sound
<1>4. ASSUME j = i
      PROVE  SoundAt(f, j, t)
  <2>1. JobOf(s) = task[i]
    BY <1>4, Numbers DEF JobOf
  <2>2. /\ stored[s].job.state # "completed"
        /\ task[i].previous # NoJob =>
             /\ task[i].previous.state = "completed"
             /\ Sound(task[i].previous, stored[s].artifact)
    BY <1>2, <1>4, <2>1, Numbers DEF SoundAt
  <2>3. Sound(t.status, f.artifact)
    BY DEF Sound
  <2>4. f.job.state # "completed"
    BY <2>2
  <2> QED
    BY <1>3, <2>2, <2>3, <2>4 DEF SoundAt
<1>5. ASSUME j # i
      PROVE  SoundAt(f, j, JobOf(s))
  <2>1. stored[s].job.state # "completed" => f.job.state # "completed"
    OBVIOUS
  <2> QED
    BY <1>2, <1>3, <2>1 DEF SoundAt
<1>6. SoundAt(f, j, IF j = i THEN t ELSE JobOf(s))
  BY <1>4, <1>5
<1>7. s \in Runs /\ here[s] = "gone" => f = NoFiles
  <2>1. f.job = stored[s].job => f = stored[s]
    BY <1>1 DEF Stored
  <2> QED
    BY <1>1, <2>1 DEF DeletedRunsStayDeleted
<1>8. JobStep(i, t, f)
  BY <1>6, <1>7 DEF JobStep
<1> QED
  BY <1>8, JobStepKeeps

(* The same when nothing is stored at all.                                 *)
LEMMA SilentKeeps ==
  ASSUME IInv, NEW i \in Tasks, NEW t \in Task,
         task[i].pc \in JobSteps, t.pc \in JobSteps \cup {"done"}, t.on = task[i].on,
         Local(t), t.status.state # "completed",
         t.pc \in JobSteps => t.previous \in {task[i].previous, NoJob},
         task' = [task EXCEPT ![i] = t], stored' = stored,
         slot' \in {slot, 0, i},
         slot' = i => t.pc \in JobSteps \ {"queued", "failed"},
         UNCHANGED <<data, here, jobs, sizes, flight, now, counters>>
  PROVE  IInv'
<1>1. t.on \in Subjects /\ stored \in [Subjects -> Stored]
  BY DEF IInv, TypeInv, Task
<1>2. stored[t.on] \in Stored /\ stored' = [stored EXCEPT ![t.on] = stored[t.on]]
  BY <1>1
<1> QED
  BY <1>2, QuietKeeps

(* The tasks that Failing and Ended make.                                  *)
FailedTask(i) ==
  [IdleTask EXCEPT !.kind = task[i].kind, !.on = task[i].on,
     !.pc = "failed", !.canceled = task[i].canceled, !.status = task[i].status]

EndedTask(i, status) ==
  [IdleTask EXCEPT !.on = task[i].on, !.pc = "done", !.status = status]

(* A task that has ended: only its subject and its status are left.        *)
LEMMA EndedShape ==
  ASSUME TypeInv, NEW i \in Tasks, NEW status \in Status
  PROVE  /\ EndedTask(i, status) \in Task /\ Local(EndedTask(i, status))
         /\ EndedTask(i, status).pc = "done" /\ EndedTask(i, status).on = task[i].on
         /\ EndedTask(i, status).status = status
         /\ Ended(i, status) = [task EXCEPT ![i] = EndedTask(i, status)]
<1> DEFINE t == EndedTask(i, status)
<1>1. task[i].on \in Subjects
  BY DEF TypeInv, Task
<1>2. t \in Task
  BY <1>1, Constants DEF EndedTask, Task
<1>3. t.pc = "done" /\ t.on = task[i].on /\ t.status = status
  BY DEF EndedTask, IdleTask
<1>4. Local(t)
  <2> HIDE DEF t
  <2> QED
    BY <1>3 DEF Local, KindInv, RunInv, PassInv, PublishInv, SizeInv, JobSteps, RunSteps,
                PassSteps, PublishSteps, DownloadSteps, FlightSteps
<1> QED
  BY <1>2, <1>3, <1>4 DEF Ended, EndedTask

(* A task on its error path keeps its unfinished status.                   *)
LEMMA FailedShape ==
  ASSUME TypeInv, NEW i \in Tasks, Local(task[i]), task[i].pc \in JobSteps
  PROVE  /\ FailedTask(i) \in Task /\ Local(FailedTask(i))
         /\ FailedTask(i).pc = "failed" /\ FailedTask(i).on = task[i].on
         /\ FailedTask(i).status = task[i].status /\ FailedTask(i).previous = NoJob
         /\ Unfinished(task[i].status)
         /\ Failing(i) = [task EXCEPT ![i] = FailedTask(i)]
<1> DEFINE t == FailedTask(i)
<1>1. task[i] \in Task
  BY DEF TypeInv
<1>2. t \in Task
  BY <1>1, Constants DEF FailedTask, Task, JobSteps
<1>3. /\ t.pc = "failed" /\ t.kind = task[i].kind /\ t.on = task[i].on
      /\ t.status = task[i].status /\ t.previous = NoJob
  BY DEF FailedTask, IdleTask
<1>4. KindInv(task[i]) /\ Unfinished(task[i].status)
  BY DEF Local, KindInv
<1>5. Local(t)
  <2> HIDE DEF t
  <2> QED
    BY <1>3, <1>4 DEF Local, KindInv, RunInv, PassInv, PublishInv, SizeInv, JobSteps,
                      RunSteps, PassSteps, PublishSteps, DownloadSteps, FlightSteps
<1> QED
  BY <1>2, <1>3, <1>4, <1>5 DEF Failing, FailedTask

(* The error path of every step.                                           *)
LEMMA FailsKeeps ==
  ASSUME IInv, NEW i \in Tasks, task[i].pc \in JobSteps, Fails(i),
         UNCHANGED <<data, here, jobs, sizes, flight, now, counters>>
  PROVE  IInv'
<1>1. TypeInv /\ Local(task[i])
  BY DEF IInv, LocalInv
<1> DEFINE t == FailedTask(i)
<1>2. /\ t \in Task /\ Local(t) /\ t.pc = "failed" /\ t.on = task[i].on
      /\ t.status = task[i].status /\ t.previous = NoJob
      /\ Unfinished(task[i].status)
      /\ task' = [task EXCEPT ![i] = t]
  BY <1>1, FailedShape DEF Fails
<1>3. stored' = stored /\ slot' \in {slot, 0, i} /\ slot' # i
  BY Numbers DEF Fails, Released
<1>4. t.pc \in JobSteps /\ t.status.state # "completed"
  BY <1>2 DEF JobSteps, Unfinished
<1> HIDE DEF t
<1> QED
  BY <1>2, <1>3, <1>4, SilentKeeps

(* A job may fail at any step.                                             *)
LEMMA WorkerFailsKeeps ==
  ASSUME IInv, NEW i \in Tasks, workerFails(i)
  PROVE  IInv'
<1>1. task[i].pc \in JobSteps
  BY WorkingSteps DEF workerFails, IInv
<1> QED
  BY <1>1, FailsKeeps DEF workerFails

(* A failure is recorded only for the job of the subject.                  *)
LEMMA RecordFailureKeeps ==
  ASSUME IInv, NEW i \in Tasks, recordFailure(i)
  PROVE  IInv'
<1> DEFINE status == [task[i].status EXCEPT
                        !.state = IF task[i].canceled THEN "interrupted" ELSE "failed"]
           s == task[i].on
           t == EndedTask(i, status)
<1>1. /\ TypeInv /\ task[i] \in Task /\ stored \in [Subjects -> Stored] /\ s \in Subjects
      /\ DeletedRunsStayDeleted
  BY DEF IInv, TypeInv, Task
<1>2. status \in Status /\ status.state # "completed"
  BY <1>1 DEF Task, Status, States
<1>3. /\ t \in Task /\ Local(t) /\ t.pc = "done" /\ t.on = s /\ t.status = status
      /\ task' = [task EXCEPT ![i] = t]
  BY <1>1, <1>2, EndedShape DEF recordFailure
<1>4. task[i].pc \in JobSteps /\ t.pc \notin JobSteps
  BY <1>3 DEF recordFailure, JobSteps, RunSteps, PassSteps, PublishSteps
<1>5. slot' = slot /\ UNCHANGED <<data, here, jobs, sizes, flight, now, counters>>
  BY DEF recordFailure
<1>6. slot # i
  <2>1. task[i].pc = "failed"
    BY DEF recordFailure
  <2> QED
    BY <2>1, Numbers DEF IInv, SlotInv
<1>7. CASE stored' = stored
  <2> HIDE DEF t, status
  <2> QED
    BY <1>2, <1>3, <1>4, <1>5, <1>6, <1>7, SilentKeeps
<1>8. CASE Owns(i) /\ stored' = [stored EXCEPT ![s].job = status]
  <2> DEFINE f == [stored[s] EXCEPT !.job = status]
  <2>1. /\ f \in Stored /\ f.artifact = stored[s].artifact /\ f.job = status
        /\ stored' = [stored EXCEPT ![s] = f]
    BY <1>1, <1>2, <1>8 DEF Stored
  <2>2. s \in Runs => here[s] # "gone"
    BY <1>1, <1>8, Numbers DEF DeletedRunsStayDeleted, Owns
  <2> HIDE DEF t, status, f
  <2> QED
    BY <1>2, <1>3, <1>4, <1>5, <1>6, <2>1, <2>2, QuietKeeps
<1> QED
  BY <1>7, <1>8 DEF recordFailure

-----------------------------------------------------------------------------
(* runAnalysisJob.                                                         *)

(* The files of a run and its revision.                                    *)
LEMMA FileType ==
  ASSUME TypeInv, NEW r \in Runs
  PROVE  data[r] \in File
BY DEF TypeInv

(* A run is captured under the slot, if it is still there.                 *)
LEMMA CaptureRunKeeps ==
  ASSUME IInv, NEW i \in Tasks, captureRun(i)
  PROVE  IInv'
<1> DEFINE r == task[i].on
           t == [task[i] EXCEPT !.pc = "captured", !.files = data[r]]
<1>1. TypeInv /\ task[i] \in Task /\ Local(task[i]) /\ task[i].pc = "queued"
  BY DEF IInv, LocalInv, TypeInv, captureRun
<1>2. task[i].pc \in JobSteps /\ task[i].kind = "run"
  BY <1>1 DEF JobSteps, RunSteps, captureRun
<1>3. r \in Runs /\ Unfinished(task[i].status) /\ r # Batch
  BY <1>1, <1>2, Numbers DEF Local, KindInv, Task
<1>4. UNCHANGED <<data, here, jobs, sizes, flight, now, counters>>
  BY DEF captureRun
<1>5. CASE Fails(i)
  BY <1>2, <1>4, <1>5, FailsKeeps
<1>6. CASE /\ slot' = i /\ stored' = stored
           /\ task' = [task EXCEPT ![i].pc = "captured", ![i].files = data[r]]
  <2>1. /\ t \in Task /\ t.pc = "captured" /\ t.on = r /\ t.status = task[i].status
        /\ t.kind = "run" /\ t.previous = task[i].previous
        /\ task' = [task EXCEPT ![i] = t]
    BY <1>1, <1>2, <1>3, <1>6, FileType DEF Task, JobSteps, RunSteps
  <2>2. t.status.key = NoSources
    BY <1>1, <2>1 DEF Local, RunInv
  <2>3. t.pc \in JobSteps \ {"queued", "failed"} /\ t.status.state # "completed"
    BY <1>3, <2>1 DEF JobSteps, RunSteps, Unfinished
  <2> HIDE DEF t
  <2>4. Local(t)
    BY <1>3, <2>1, <2>2 DEF Local, KindInv, RunInv, PassInv, PublishInv, SizeInv, JobSteps,
         RunSteps, PassSteps, PublishSteps, DownloadSteps, FlightSteps
  <2> QED
    BY <1>2, <1>4, <1>6, <2>1, <2>3, <2>4, SilentKeeps
<1> QED
  BY <1>5, <1>6 DEF captureRun

(* The revision of a running job is that of its captured files.            *)
LEMMA BeginRunKeeps ==
  ASSUME IInv, NEW i \in Tasks, beginRun(i)
  PROVE  IInv'
<1> DEFINE r == task[i].on
           status == [task[i].status EXCEPT !.state = "running", !.key[r] = revisionOf(i)]
           t == [task[i] EXCEPT !.pc = "running", !.status = status]
           f == [stored[r] EXCEPT !.job = status]
<1>1. /\ TypeInv /\ task[i] \in Task /\ Local(task[i]) /\ task[i].pc = "captured"
      /\ stored \in [Subjects -> Stored] /\ task[i].status \in Status
      /\ task[i].files \in File
  BY DEF IInv, LocalInv, TypeInv, beginRun, Task
<1>2. task[i].pc \in JobSteps /\ task[i].pc \in RunSteps
  BY <1>1 DEF JobSteps, RunSteps
<1>3. /\ r \in Runs /\ r # Batch /\ task[i].kind = "run"
      /\ task[i].status.key = NoSources
  BY <1>1, <1>2, Numbers DEF Local, KindInv, RunInv, Task
<1>4. UNCHANGED <<data, here, jobs, sizes, flight, now, counters>>
  BY DEF beginRun
<1>5. CASE Fails(i)
  BY <1>2, <1>4, <1>5, FailsKeeps
<1>6. CASE /\ Present(r) /\ slot' = slot
           /\ stored' = [stored EXCEPT ![r].job = status]
           /\ task' = [task EXCEPT ![i].pc = "running", ![i].status = status]
  <2>1. /\ status \in Status /\ status.state = "running"
        /\ status.key = [NoSources EXCEPT ![r] = task[i].files]
    BY <1>1, <1>3 DEF Status, States, Sources, revisionOf
  <2> HIDE DEF status
  <2>2. /\ t \in Task /\ t.pc = "running" /\ t.on = r /\ t.status = status
        /\ t.kind = "run" /\ t.previous = task[i].previous /\ t.files = task[i].files
        /\ task' = [task EXCEPT ![i] = t]
    BY <1>1, <1>3, <1>6, <2>1 DEF Task, JobSteps, RunSteps
  <2>3. /\ f \in Stored /\ f.job = status /\ f.artifact = stored[r].artifact
        /\ stored' = [stored EXCEPT ![r] = f]
    BY <1>1, <1>3, <1>6, <2>1, Numbers DEF Stored
  <2>4. /\ t.pc \in JobSteps \ {"queued", "failed"} /\ Unfinished(t.status)
        /\ status.state # "completed" /\ here[r] # "gone"
    BY <1>6, <2>1, <2>2 DEF JobSteps, RunSteps, Unfinished, Present
  <2> HIDE DEF t, f
  <2>5. Local(t)
    BY <1>3, <2>1, <2>2, <2>4 DEF Local, KindInv, RunInv, PassInv, PublishInv, SizeInv,
         JobSteps, RunSteps, PassSteps, PublishSteps, DownloadSteps, FlightSteps
  <2>6. /\ stored' = [stored EXCEPT ![t.on] = f] /\ f.artifact = stored[t.on].artifact
        /\ f.job.state # "completed" /\ here[t.on] # "gone" /\ t.status.state # "completed"
    BY <2>2, <2>3, <2>4
  <2>7. slot' \in {slot, 0, i}
    BY <1>6
  <2> QED
    BY <1>2, <1>4, <2>2, <2>3, <2>4, <2>5, <2>6, <2>7, QuietKeeps
<1> QED
  BY <1>5, <1>6 DEF beginRun

(* The hash of a run is the hash of its revision.                          *)
LEMMA RunHash ==
  ASSUME NEW r \in Runs, NEW files \in File
  PROVE  Hash([NoSources EXCEPT ![r] = files]) = [NoHashes EXCEPT ![r] = files.bytes]
<1>1. \A q \in Runs : [NoSources EXCEPT ![r] = files][q] = IF q = r THEN files ELSE Absent
  BY DEF NoSources
<1>2. \A q \in Runs : [NoHashes EXCEPT ![r] = files.bytes][q] = IF q = r THEN files.bytes ELSE 0
  BY DEF NoHashes
<1>3. Absent.bytes = 0
  BY DEF Absent
<1>4. [NoHashes EXCEPT ![r] = files.bytes] = [q \in Runs |-> IF q = r THEN files.bytes ELSE 0]
  BY DEF NoHashes
<1> QED
  BY <1>1, <1>3, <1>4 DEF Hash

(* What was hashed or analysed is of that revision.                        *)
LEMMA AnalyzeRunKeeps ==
  ASSUME IInv, NEW i \in Tasks, analyzeRun(i)
  PROVE  IInv'
<1> DEFINE r == task[i].on
           hash == [NoHashes EXCEPT ![r] = task[i].files.bytes]
<1>1. /\ TypeInv /\ task[i] \in Task /\ Local(task[i]) /\ task[i].pc = "running"
      /\ task[i].status \in Status /\ task[i].files \in File
  BY DEF IInv, LocalInv, TypeInv, analyzeRun, Task
<1>2. task[i].pc \in JobSteps /\ task[i].pc \in RunSteps
  BY <1>1 DEF JobSteps, RunSteps
<1>3. /\ r \in Runs /\ r # Batch /\ task[i].kind = "run" /\ Unfinished(task[i].status)
      /\ task[i].status.key = [NoSources EXCEPT ![r] = task[i].files]
  BY <1>1, <1>2, Numbers DEF Local, KindInv, RunInv, Task
<1>4. hash \in Hashes /\ hash = Hash(task[i].status.key)
  <2>1. hash \in Hashes
    BY <1>1, <1>3, Constants DEF Hashes, File
  <2>2. Hash([NoSources EXCEPT ![r] = task[i].files]) = hash
    BY <1>1, <1>3, RunHash
  <2> QED
    BY <1>3, <2>1, <2>2
<1>5. /\ slot' = slot /\ stored' = stored
      /\ UNCHANGED <<data, here, jobs, sizes, flight, now, counters>>
      /\ task' = IF SameSources(i, hash) THEN To(i, "reuse")
                 ELSE [task EXCEPT ![i].pc = "stage", ![i].status.hash = hash,
                                   ![i].read = hash]
  BY DEF analyzeRun
<1> HIDE DEF hash
<1>6. CASE SameSources(i, hash)
  <2> DEFINE t == [task[i] EXCEPT !.pc = "reuse"]
  <2>1. /\ t \in Task /\ t.pc = "reuse" /\ t.on = r /\ t.status = task[i].status
        /\ t.kind = "run" /\ t.previous = task[i].previous
        /\ task' = [task EXCEPT ![i] = t]
    BY <1>1, <1>3, <1>5, <1>6 DEF Task, JobSteps, PublishSteps, To
  <2>2. t.previous # NoJob /\ t.previous.hash = Hash(t.status.key)
    BY <1>4, <1>6, <2>1 DEF SameSources
  <2>3. t.pc \in JobSteps \ {"queued", "failed"} /\ t.status.state # "completed"
    BY <1>3, <2>1 DEF JobSteps, PublishSteps, Unfinished
  <2> HIDE DEF t
  <2>4. Local(t)
    BY <1>3, <2>1, <2>2 DEF Local, KindInv, RunInv, PassInv, PublishInv, SizeInv, JobSteps,
         RunSteps, PassSteps, PublishSteps, DownloadSteps, FlightSteps
  <2> QED
    BY <1>2, <1>5, <2>1, <2>3, <2>4, SilentKeeps
<1>7. CASE ~SameSources(i, hash)
  <2> DEFINE status == [task[i].status EXCEPT !.hash = hash]
             t == [task[i] EXCEPT !.pc = "stage", !.status = status, !.read = hash]
  <2>1. /\ status \in Status /\ status.state = task[i].status.state
        /\ status.key = task[i].status.key /\ status.hash = hash
    BY <1>1, <1>4 DEF Status
  <2>2. /\ t \in Task /\ t.pc = "stage" /\ t.on = r /\ t.status = status
        /\ t.kind = "run" /\ t.previous = task[i].previous /\ t.read = hash
        /\ task' = [task EXCEPT ![i] = t]
    <3>1. /\ t \in Task /\ t.pc = "stage" /\ t.on = r /\ t.status = status
          /\ t.kind = "run" /\ t.previous = task[i].previous /\ t.read = hash
      BY <1>1, <1>3, <1>4, <2>1 DEF Task, JobSteps, PublishSteps
    <3>2. task' = [task EXCEPT ![i] = t]
      BY <1>5, <1>7
    <3> QED
      BY <3>1, <3>2
  <2> HIDE DEF status
  <2>3. /\ t.pc \in JobSteps \ {"queued", "failed"} /\ t.status.state # "completed"
        /\ Unfinished(t.status)
    BY <1>3, <2>1, <2>2 DEF JobSteps, PublishSteps, Unfinished
  <2> HIDE DEF t
  <2>4. Local(t)
    BY <1>3, <1>4, <2>1, <2>2, <2>3 DEF Local, KindInv, RunInv, PassInv, PublishInv,
         SizeInv, JobSteps, RunSteps, PassSteps, PublishSteps, DownloadSteps, FlightSteps
  <2> QED
    BY <1>2, <1>5, <2>2, <2>3, <2>4, SilentKeeps
<1> QED
  BY <1>6, <1>7

-----------------------------------------------------------------------------
(* runBatchAnalysis.                                                       *)

(* What is known of a job in a pass over the members.                      *)
LEMMA PassShape ==
  ASSUME IInv, NEW i \in Tasks, task[i].pc \in PassSteps
  PROVE  /\ TypeInv /\ task[i] \in Task /\ task[i].pc \in JobSteps \ {"queued", "failed"}
         /\ task[i].pc \in {"check", "analyze"}
         /\ task[i].kind = "batch" /\ task[i].on = Batch /\ Unfinished(task[i].status)
         /\ task[i].status.state # "completed" /\ task[i].status \in Status
         /\ task[i].status.key \in Sources /\ task[i].left \subseteq Runs
         /\ task[i].hashes \in Hashes /\ task[i].read \in Hashes /\ task[i].files \in File
         /\ PassInv(task[i])
<1>1. TypeInv /\ task[i] \in Task /\ Local(task[i])
  BY DEF IInv, TypeInv, LocalInv
<1>2. /\ task[i].pc \in JobSteps \ {"queued", "failed"} /\ task[i].pc \in JobSteps
      /\ task[i].pc \in {"check", "analyze"}
  BY DEF JobSteps, PassSteps
<1>3. task[i].kind = "batch" /\ task[i].on = Batch /\ Unfinished(task[i].status)
  BY <1>1, <1>2 DEF Local, KindInv
<1>4. task[i].status.state # "completed"
  BY <1>3 DEF Unfinished
<1>5. /\ task[i].status \in Status /\ task[i].left \subseteq Runs
      /\ task[i].hashes \in Hashes /\ task[i].read \in Hashes /\ task[i].files \in File
  BY <1>1 DEF Task
<1>6. task[i].status.key \in Sources
  BY <1>5 DEF Status
<1> QED
  BY <1>1, <1>2, <1>3, <1>4, <1>5, <1>6 DEF Local

(* A pass goes on with a task that satisfies the invariant of passes.      *)
LEMMA PassLocal ==
  ASSUME NEW t, t.pc \in PassSteps, t.kind = "batch", t.on = Batch, Unfinished(t.status),
         PassInv(t)
  PROVE  Local(t) /\ t.pc \in JobSteps \ {"queued", "failed"}
<1>1. t.pc \in {"check", "analyze"}
  BY DEF PassSteps
<1> QED
  BY <1>1 DEF Local, KindInv, RunInv, PublishInv, SizeInv, JobSteps, RunSteps, PassSteps,
              PublishSteps, DownloadSteps, FlightSteps

(* A pass captures a member only as the revision names it.                 *)
LEMMA CaptureMemberKeeps ==
  ASSUME IInv, NEW i \in Tasks, captureMember(i)
  PROVE  IInv'
<1> DEFINE r == Min(task[i].left)
           t == [task[i] EXCEPT !.held = "captured", !.files = data[r]]
<1>0. task[i].pc \in PassSteps
  BY DEF captureMember, Passing, PassSteps
<1>1. /\ TypeInv /\ task[i] \in Task /\ task[i].pc \in JobSteps \ {"queued", "failed"}
      /\ task[i].kind = "batch" /\ task[i].on = Batch /\ Unfinished(task[i].status)
      /\ task[i].status.state # "completed" /\ task[i].left \subseteq Runs
      /\ PassInv(task[i])
  BY <1>0, PassShape
<1>2. task[i].left # {} /\ UNCHANGED <<data, here, jobs, sizes, flight, now, counters>>
  BY DEF captureMember
<1>3. r \in Runs
  BY <1>1, <1>2, MinRun
<1>4. CASE Fails(i)
  BY <1>1, <1>2, <1>4, FailsKeeps
<1>5. CASE /\ data[r] = task[i].status.key[r] /\ slot' = i /\ stored' = stored
           /\ task' = [task EXCEPT ![i].held = "captured", ![i].files = data[r]]
  <2>1. data[r] \in File
    BY <1>1, <1>3, FileType
  <2> HIDE DEF r
  <2>2. /\ t \in Task /\ t.pc = task[i].pc /\ t.on = Batch /\ t.status = task[i].status
        /\ t.kind = "batch" /\ t.previous = task[i].previous /\ t.files = data[r]
        /\ t.left = task[i].left /\ t.hashes = task[i].hashes /\ t.read = task[i].read
    BY <1>1, <2>1 DEF Task
  <2>3. task' = [task EXCEPT ![i] = t]
    BY <1>5
  <2> HIDE DEF t
  <2> USE DEF r
  <2>4. t.files = t.status.key[Min(t.left)] /\ t.left # {}
    BY <1>2, <1>5, <2>2
  <2>5. PassInv(t)
    BY <1>1, <2>2, <2>4 DEF PassInv
  <2>6. Local(t) /\ t.pc \in JobSteps \ {"queued", "failed"}
    BY <1>0, <1>1, <2>2, <2>5, PassLocal
  <2> QED
    BY <1>1, <1>2, <1>5, <2>2, <2>3, <2>6, SilentKeeps
<1> QED
  BY <1>4, <1>5 DEF captureMember

(* The progress of a batch is stored by whoever works on it.               *)
LEMMA ReportMemberKeeps ==
  ASSUME IInv, NEW i \in Tasks, reportMember(i)
  PROVE  IInv'
<1> DEFINE status == [task[i].status EXCEPT !.state = "running"]
           t == [task[i] EXCEPT !.held = "reported", !.status = status]
           f == [stored[Batch] EXCEPT !.job = status]
<1>0. task[i].pc \in PassSteps
  BY DEF reportMember, Passing, PassSteps
<1>1. /\ TypeInv /\ task[i] \in Task /\ task[i].pc \in JobSteps \ {"queued", "failed"}
      /\ task[i].kind = "batch" /\ task[i].on = Batch /\ task[i].status \in Status
      /\ PassInv(task[i]) /\ stored \in [Subjects -> Stored] /\ slot \in Holder
  BY <1>0, PassShape DEF TypeInv
<1>2. /\ UNCHANGED <<data, here, jobs, sizes, flight, now, counters>> /\ slot' = slot
      /\ stored' = [stored EXCEPT ![Batch].job = status]
      /\ task' = [task EXCEPT ![i].held = "reported", ![i].status = status]
      /\ task[i].held = "captured"
  BY DEF reportMember
<1>3. /\ status \in Status /\ status.state = "running" /\ status.key = task[i].status.key
      /\ Unfinished(status)
  BY <1>1 DEF Status, States, Unfinished
<1> HIDE DEF status
<1>4. /\ t \in Task /\ t.pc = task[i].pc /\ t.on = Batch /\ t.status = status
      /\ t.kind = "batch" /\ t.previous = task[i].previous /\ t.files = task[i].files
      /\ t.left = task[i].left /\ t.hashes = task[i].hashes /\ t.read = task[i].read
      /\ t.held = "reported"
  BY <1>1, <1>3 DEF Task
<1>5. task' = [task EXCEPT ![i] = t]
  BY <1>2
<1>6. /\ f \in Stored /\ f.job = status /\ f.artifact = stored[Batch].artifact
      /\ stored' = [stored EXCEPT ![Batch] = f]
  BY <1>1, <1>2, <1>3, Numbers DEF Stored
<1> HIDE DEF t, f
<1>7. PassInv(t)
  BY <1>1, <1>2, <1>3, <1>4 DEF PassInv
<1>8. Local(t) /\ t.pc \in JobSteps \ {"queued", "failed"}
  BY <1>0, <1>3, <1>4, <1>7, PassLocal
<1>9. /\ stored' = [stored EXCEPT ![t.on] = f] /\ f.artifact = stored[t.on].artifact
      /\ f.job.state # "completed" /\ t.status.state # "completed"
      /\ t.on \notin Runs /\ t.on = task[i].on
  BY <1>1, <1>3, <1>4, <1>6, Numbers
<1> QED
  BY <1>1, <1>2, <1>4, <1>5, <1>6, <1>8, <1>9, QuietKeeps

(* The member that was read is behind the pass.                            *)
LEMMA ReadMemberKeeps ==
  ASSUME IInv, NEW i \in Tasks, readMember(i)
  PROVE  IInv'
<1> DEFINE r     == Min(task[i].left)
           bytes == task[i].files.bytes
           hs    == [task[i].hashes EXCEPT ![r] = IF @ = 0 THEN bytes ELSE @]
           rd    == [task[i].read EXCEPT ![r] = IF task[i].pc = "analyze" THEN bytes ELSE @]
           t     == [task[i] EXCEPT !.held = "no", !.left = @ \ {r}, !.hashes = hs,
                                    !.read = rd]
<1>0. task[i].pc \in PassSteps
  BY DEF readMember, Passing, PassSteps
<1>1. /\ TypeInv /\ task[i] \in Task /\ task[i].pc \in JobSteps \ {"queued", "failed"}
      /\ task[i].pc \in {"check", "analyze"}
      /\ task[i].kind = "batch" /\ task[i].on = Batch /\ Unfinished(task[i].status)
      /\ task[i].status.state # "completed" /\ task[i].left \subseteq Runs
      /\ task[i].status.key \in Sources
      /\ task[i].hashes \in Hashes /\ task[i].read \in Hashes /\ task[i].files \in File
      /\ PassInv(task[i])
  BY <1>0, PassShape
<1>2. /\ UNCHANGED <<data, here, jobs, sizes, flight, now, counters>>
      /\ slot' = Released(i) /\ stored' = stored /\ task[i].held = "reported"
  BY DEF readMember
<1>3. task[i].left # {} /\ task[i].files = task[i].status.key[r]
  BY <1>0, <1>1, <1>2 DEF PassInv
<1>4. r \in Runs /\ bytes = task[i].status.key[r].bytes /\ bytes \in Nat
  BY <1>1, <1>3, MinRun DEF File
<1> HIDE DEF r, bytes
<1>5. /\ hs \in Hashes /\ rd \in Hashes
      /\ hs[r] = IF task[i].hashes[r] = 0 THEN bytes ELSE task[i].hashes[r]
      /\ rd[r] = IF task[i].pc = "analyze" THEN bytes ELSE task[i].read[r]
      /\ \A q \in Runs \ {r} : hs[q] = task[i].hashes[q] /\ rd[q] = task[i].read[q]
  BY <1>1, <1>4 DEF Hashes
<1>6. task[i].pc = "check" => rd = task[i].read
  BY <1>1, <1>4 DEF Hashes
<1>7. task' = [task EXCEPT ![i] = t]
  BY ZenonT(30) DEF readMember, r, bytes
<1> HIDE DEF hs, rd
<1>8. /\ t \in Task /\ t.pc = task[i].pc /\ t.on = Batch /\ t.status = task[i].status
      /\ t.kind = "batch" /\ t.previous = task[i].previous /\ t.held = "no"
      /\ t.left = task[i].left \ {r} /\ t.hashes = hs /\ t.read = rd
  BY <1>1, <1>5 DEF Task
<1> HIDE DEF t
<1>9. PassInv(t)
  <2> DEFINE key == task[i].status.key
  <2>1. \A q \in Runs : task[i].hashes[q] \in {0, key[q].bytes}
    BY <1>0, <1>1 DEF PassInv
  <2>2. \A q \in Runs \ task[i].left : task[i].hashes[q] = key[q].bytes
    BY <1>0, <1>1 DEF PassInv
  <2>3. task[i].pc = "analyze" => \A q \in Runs \ task[i].left : task[i].read[q] = key[q].bytes
    BY <1>1 DEF PassInv
  <2>4. task[i].pc = "check" => task[i].read = NoHashes
    BY <1>1 DEF PassInv
  <2> HIDE DEF key
  <2>5. bytes = key[r].bytes /\ t.status.key = key
    BY <1>4, <1>8 DEF key
  <2>6. \A q \in Runs : t.hashes[q] \in {0, key[q].bytes}
    BY <1>5, <1>8, <2>1, <2>5
  <2>7. \A q \in Runs \ t.left : t.hashes[q] = key[q].bytes
    BY <1>5, <1>8, <2>1, <2>2, <2>5
  <2>8. t.pc = "analyze" => \A q \in Runs \ t.left : t.read[q] = key[q].bytes
    BY <1>5, <1>8, <2>3, <2>5
  <2>9. t.pc = "check" => t.read = NoHashes
    BY <1>6, <1>8, <2>4
  <2> QED
    BY <1>8, <2>5, <2>6, <2>7, <2>8, <2>9 DEF PassInv
<1>10. Local(t)
  BY <1>0, <1>1, <1>8, <1>9, PassLocal
<1>11. slot' \in {slot, 0, i} /\ slot' # i
  BY <1>2, Numbers DEF Released
<1> QED
  BY <1>1, <1>2, <1>7, <1>8, <1>10, <1>11, SilentKeeps

(* Hashes that agree with a revision member by member are its hash.        *)
LEMMA SameHash ==
  ASSUME NEW key \in Sources, NEW h \in Hashes, \A r \in Runs : h[r] = key[r].bytes
  PROVE  h = Hash(key)
BY DEF Hash, Hashes

(* A pass over all members has hashed the revision.                        *)
LEMMA EndPassKeeps ==
  ASSUME IInv, NEW i \in Tasks, endPass(i)
  PROVE  IInv'
<1> DEFINE key == task[i].status.key
<1>0. task[i].pc \in PassSteps
  BY DEF endPass, Passing, PassSteps
<1>1. /\ TypeInv /\ task[i] \in Task /\ task[i].pc \in JobSteps
      /\ task[i].pc \in {"check", "analyze"}
      /\ task[i].kind = "batch" /\ task[i].on = Batch /\ Unfinished(task[i].status)
      /\ task[i].status.state # "completed" /\ task[i].status \in Status
      /\ key \in Sources /\ task[i].hashes \in Hashes /\ task[i].read \in Hashes
      /\ PassInv(task[i])
  BY <1>0, PassShape
<1>2. task[i].left = {} /\ UNCHANGED <<data, here, jobs, sizes, flight, now, counters>>
  BY DEF endPass
<1>3. task[i].hashes = Hash(key)
  <2>1. \A r \in Runs : task[i].hashes[r] = key[r].bytes
    BY <1>0, <1>1, <1>2 DEF PassInv
  <2> HIDE DEF key
  <2> QED
    BY <1>1, <2>1, SameHash
<1>4. CASE Fails(i)
  BY <1>1, <1>2, <1>4, FailsKeeps
<1>5. CASE slot' = slot /\ stored' = stored /\ task[i].pc = "analyze"
           /\ task' = [task EXCEPT ![i].pc = "stage", ![i].status.hash = task[i].hashes]
  <2> DEFINE status == [task[i].status EXCEPT !.hash = task[i].hashes]
             t == [task[i] EXCEPT !.pc = "stage", !.status = status]
  <2>1. task[i].read = Hash(key)
    <3>1. \A r \in Runs : task[i].read[r] = key[r].bytes
      BY <1>1, <1>2, <1>5 DEF PassInv
    <3> HIDE DEF key
    <3> QED
      BY <1>1, <3>1, SameHash
  <2>2. /\ status \in Status /\ status.state = task[i].status.state
        /\ status.key = key /\ status.hash = task[i].hashes
    BY <1>1 DEF Status
  <2>3. task' = [task EXCEPT ![i] = t]
    BY <1>5
  <2> HIDE DEF status
  <2>4. /\ t \in Task /\ t.pc = "stage" /\ t.on = Batch /\ t.status = status
        /\ t.kind = "batch" /\ t.previous = task[i].previous /\ t.read = task[i].read
    BY <1>1, <2>2 DEF Task, JobSteps, PublishSteps
  <2> HIDE DEF t, key
  <2>5. /\ t.pc \in JobSteps \ {"queued", "failed"} /\ t.status.state # "completed"
        /\ Unfinished(t.status)
    BY <1>1, <2>2, <2>4 DEF JobSteps, PublishSteps, Unfinished
  <2>6. Local(t)
    BY <1>3, <2>1, <2>2, <2>4, <2>5 DEF Local, KindInv, RunInv, PassInv, PublishInv,
         SizeInv, JobSteps, RunSteps, PassSteps, PublishSteps, DownloadSteps, FlightSteps
  <2> QED
    BY <1>1, <1>2, <1>5, <2>3, <2>4, <2>5, <2>6, SilentKeeps
<1>6. CASE slot' = slot /\ stored' = stored /\ SameSources(i, task[i].hashes)
           /\ task' = To(i, "reuse")
  <2> DEFINE t == [task[i] EXCEPT !.pc = "reuse"]
  <2>1. /\ t \in Task /\ t.pc = "reuse" /\ t.on = Batch /\ t.status = task[i].status
        /\ t.kind = "batch" /\ t.previous = task[i].previous
        /\ task' = [task EXCEPT ![i] = t]
    BY <1>1, <1>6 DEF Task, JobSteps, PublishSteps, To
  <2>2. t.previous # NoJob /\ t.previous.hash = Hash(t.status.key)
    BY <1>3, <1>6, <2>1 DEF SameSources
  <2>3. t.pc \in JobSteps \ {"queued", "failed"}
    BY <2>1 DEF JobSteps, PublishSteps
  <2> HIDE DEF t
  <2>4. Local(t)
    BY <1>1, <2>1, <2>2 DEF Local, KindInv, RunInv, PassInv, PublishInv, SizeInv, JobSteps,
         RunSteps, PassSteps, PublishSteps, DownloadSteps, FlightSteps
  <2> QED
    BY <1>1, <1>2, <1>6, <2>1, <2>3, <2>4, SilentKeeps
<1>7. CASE slot' = slot /\ stored' = stored /\ task[i].pc # "analyze"
           /\ task' = [task EXCEPT ![i].pc = "analyze", ![i].left = Selected(key)]
  <2> DEFINE t == [task[i] EXCEPT !.pc = "analyze", !.left = Selected(key)]
  <2>1. Selected(key) \subseteq Runs /\ \A r \in Runs \ Selected(key) : key[r].bytes = 0
    BY DEF Selected, Absent
  <2>2. task[i].pc = "check"
    BY <1>1, <1>7
  <2>3. task[i].read = NoHashes /\ task[i].held = "no"
    BY <1>0, <1>1, <1>2, <2>2 DEF PassInv
  <2>4. task' = [task EXCEPT ![i] = t]
    BY <1>7
  <2> HIDE DEF key
  <2>5. /\ t \in Task /\ t.pc = "analyze" /\ t.on = Batch /\ t.status = task[i].status
        /\ t.kind = "batch" /\ t.previous = task[i].previous /\ t.read = NoHashes
        /\ t.left = Selected(key) /\ t.hashes = task[i].hashes /\ t.held = "no"
    BY <1>1, <2>1, <2>3 DEF Task, JobSteps, PassSteps
  <2> HIDE DEF t
  <2>6. PassInv(t)
    <3>1. \A r \in Runs : t.hashes[r] = key[r].bytes
      BY <1>1, <1>3, <2>5, HashType
    <3>2. \A r \in Runs \ t.left : t.read[r] = key[r].bytes
      BY <2>1, <2>5 DEF NoHashes
    <3>3. t.status.key = key
      BY <2>5 DEF key
    <3> QED
      BY <2>5, <3>1, <3>2, <3>3 DEF PassInv
  <2>7. t.pc \in PassSteps
    BY <2>5 DEF PassSteps
  <2>8. Local(t) /\ t.pc \in JobSteps \ {"queued", "failed"}
    BY <1>1, <2>5, <2>6, <2>7, PassLocal
  <2> QED
    BY <1>1, <1>2, <1>7, <2>4, <2>5, <2>8, SilentKeeps
<1> QED
  BY <1>4, <1>5, <1>6, <1>7 DEF endPass

-----------------------------------------------------------------------------
(* Steps that publish a result.                                            *)

(* Opening the directory changes nothing of what is published.             *)
LEMMA StageKeeps ==
  ASSUME IInv, NEW i \in Tasks, stageAnalysisJSON(i)
  PROVE  IInv'
<1>1. /\ TypeInv /\ task[i] \in Task /\ Local(task[i]) /\ task[i].pc = "stage"
      /\ UNCHANGED <<data, here, jobs, sizes, flight, now, counters>>
  BY DEF IInv, TypeInv, LocalInv, stageAnalysisJSON
<1>2. task[i].pc \in JobSteps
  BY <1>1 DEF JobSteps, PublishSteps
<1>3. CASE Fails(i)
  BY <1>1, <1>2, <1>3, FailsKeeps
<1>4. CASE task' = To(i, "staged") /\ slot' = slot /\ stored' = stored
  <2> DEFINE t == [task[i] EXCEPT !.pc = "staged"]
  <2>1. /\ t \in Task /\ t.pc = "staged" /\ t.on = task[i].on /\ t.status = task[i].status
        /\ t.kind = task[i].kind /\ t.previous = task[i].previous /\ t.read = task[i].read
        /\ task' = [task EXCEPT ![i] = t]
    BY <1>1, <1>4 DEF Task, JobSteps, PublishSteps, To
  <2>2. /\ t.kind \in {"run", "batch"} /\ (t.kind = "batch" <=> t.on = Batch)
        /\ Unfinished(t.status) /\ t.status.hash = Hash(t.status.key)
        /\ t.read = Hash(t.status.key)
    BY <1>1, <1>2, <2>1 DEF Local, KindInv, PublishInv
  <2>3. t.pc \in JobSteps \ {"queued", "failed"} /\ t.status.state # "completed"
    BY <2>1, <2>2 DEF JobSteps, PublishSteps, Unfinished
  <2> HIDE DEF t
  <2>4. Local(t)
    BY <2>1, <2>2 DEF Local, KindInv, RunInv, PassInv, PublishInv, SizeInv, JobSteps,
         RunSteps, PassSteps, PublishSteps, DownloadSteps, FlightSteps
  <2> QED
    BY <1>2, <1>1, <1>4, <2>1, <2>3, <2>4, SilentKeeps
<1> QED
  BY <1>3, <1>4 DEF stageAnalysisJSON

(* What is known under analysisJobMu before a job publishes.               *)
LEMMA OwnerShape ==
  ASSUME IInv, NEW i \in Tasks, task[i].pc \in JobSteps, MayPublish(i)
  PROVE  /\ jobs[task[i].on] = i /\ task[i].on \in Subjects
         /\ stored[task[i].on] \in Stored
         /\ stored[task[i].on].job.state # "completed"
         /\ task[i].previous # NoJob =>
              /\ task[i].previous.state = "completed"
              /\ Sound(task[i].previous, stored[task[i].on].artifact)
         /\ ~(task[i].on \in Runs /\ here[task[i].on] = "gone")
<1> DEFINE s == task[i].on
<1>1. jobs[s] = i /\ i # 0
  BY Numbers DEF MayPublish, Owns
<1>2. s \in Subjects /\ stored[s] \in Stored
  BY DEF IInv, TypeInv, Task
<1>3. SoundAt(stored[s], i, task[i])
  BY <1>1, <1>2 DEF IInv, SoundInv, JobOf
<1>4. ~(s \in Runs /\ here[s] = "gone")
  BY <1>1 DEF IInv, DeletedRunsStayDeleted
<1> QED
  BY <1>1, <1>2, <1>3, <1>4 DEF SoundAt

(* A reused result is of the bytes the new revision names.                 *)
LEMMA ReuseKeeps ==
  ASSUME IInv, NEW i \in Tasks, reuseAnalysisJob(i)
  PROVE  IInv'
<1> DEFINE s == task[i].on
           key == task[i].status.key
           status == [task[i].previous EXCEPT !.key = key]
           t == EndedTask(i, status)
           f == [stored[s] EXCEPT !.job = status]
<1>1. /\ TypeInv /\ task[i] \in Task /\ Local(task[i]) /\ task[i].pc = "reuse"
      /\ UNCHANGED <<data, here, jobs, sizes, flight, now, counters>>
  BY DEF IInv, TypeInv, LocalInv, reuseAnalysisJob
<1>2. task[i].pc \in JobSteps
  BY <1>1 DEF JobSteps, PublishSteps
<1>3. CASE Fails(i)
  BY <1>1, <1>2, <1>3, FailsKeeps
<1>4. CASE /\ MayPublish(i) /\ stored' = [stored EXCEPT ![s].job = status]
           /\ task' = Ended(i, status) /\ slot' = Released(i)
  <2>1. task[i].previous # NoJob /\ task[i].previous.hash = Hash(key)
    BY <1>1 DEF Local, PublishInv
  <2>2. /\ jobs[s] = i /\ s \in Subjects /\ stored[s] \in Stored
        /\ task[i].previous.state = "completed"
        /\ Sound(task[i].previous, stored[s].artifact)
        /\ ~(s \in Runs /\ here[s] = "gone")
    BY <1>2, <1>4, <2>1, OwnerShape
  <2>3. task[i].previous \in Status /\ key \in Sources
    BY <1>1 DEF Task, Status
  <2>4. /\ status \in Status /\ status.state = "completed" /\ status.key = key
        /\ status.hash = task[i].previous.hash /\ status.id = task[i].previous.id
    BY <2>2, <2>3 DEF Status
  <2> HIDE DEF status, key
  <2>5. Sound(status, stored[s].artifact)
    BY <2>1, <2>2, <2>4 DEF Sound
  <2>6. /\ t \in Task /\ Local(t) /\ t.pc = "done" /\ t.on = s /\ t.status = status
        /\ task' = [task EXCEPT ![i] = t]
    BY <1>1, <1>4, <2>4, EndedShape
  <2>7. /\ f \in Stored /\ f.job = status /\ f.artifact = stored[s].artifact
        /\ stored' = [stored EXCEPT ![s] = f]
    BY <1>1, <1>4, <2>2, <2>4 DEF Stored, TypeInv
  <2>8. slot' \in {slot, 0, i} /\ slot' # i
    BY <1>4, Numbers DEF Released
  <2> HIDE DEF t, f
  <2>9. SoundAt(f, i, t)
    BY <2>5, <2>6, <2>7, Steps DEF SoundAt
  <2>10. JobStep(i, t, f)
    BY <1>1, <1>2, <2>2, <2>6, <2>7, <2>8, <2>9 DEF JobStep
  <2> QED
    BY <2>6, <2>7, <2>10, JobStepKeeps
<1> QED
  BY <1>3, <1>4 DEF reuseAnalysisJob

(* A saved result is of its revision, also when its job is not saved.      *)
LEMMA SaveKeeps ==
  ASSUME IInv, NEW i \in Tasks, saveAnalysisJob(i)
  PROVE  IInv'
<1> DEFINE s == task[i].on
           artifact == [id |-> task[i].status.id, read |-> task[i].read]
           status == [task[i].status EXCEPT !.state = "completed"]
<1>1. /\ TypeInv /\ task[i] \in Task /\ Local(task[i]) /\ task[i].pc = "staged"
      /\ UNCHANGED <<data, here, jobs, sizes, flight, now, counters>>
  BY DEF IInv, TypeInv, LocalInv, saveAnalysisJob
<1>2. task[i].pc \in JobSteps
  BY <1>1 DEF JobSteps, PublishSteps
<1>3. /\ task[i].status \in Status /\ task[i].read \in Hashes
      /\ task[i].status.hash = Hash(task[i].status.key)
      /\ task[i].read = Hash(task[i].status.key)
  BY <1>1 DEF Local, PublishInv, Task
<1>4. artifact \in Artifact /\ artifact.id = task[i].status.id /\ artifact.read = task[i].read
  BY <1>3 DEF Artifact, Status
<1>5. /\ status \in Status /\ status.state = "completed"
      /\ status.key = task[i].status.key /\ status.hash = task[i].status.hash
      /\ status.id = task[i].status.id
  BY <1>3 DEF Status, States
<1>6. CASE Fails(i)
  BY <1>1, <1>2, <1>6, FailsKeeps
<1>7. CASE /\ MayPublish(i)
           /\ stored' = [stored EXCEPT ![s] = [job |-> status, artifact |-> artifact]]
           /\ task' = Ended(i, status) /\ slot' = Released(i)
  <2> DEFINE t == EndedTask(i, status)
             f == [job |-> status, artifact |-> artifact]
  <2>1. jobs[s] = i /\ s \in Subjects /\ ~(s \in Runs /\ here[s] = "gone")
    BY <1>2, <1>7, OwnerShape
  <2> HIDE DEF status, artifact
  <2>2. Sound(status, artifact)
    BY <1>3, <1>4, <1>5 DEF Sound
  <2>3. /\ t \in Task /\ Local(t) /\ t.pc = "done" /\ t.on = s /\ t.status = status
        /\ task' = [task EXCEPT ![i] = t]
    BY <1>1, <1>5, <1>7, EndedShape
  <2>4. f \in Stored /\ f.job = status /\ f.artifact = artifact
    BY <1>4, <1>5 DEF Stored
  <2>5. slot' \in {slot, 0, i} /\ slot' # i
    BY <1>7, Numbers DEF Released
  <2>6. stored' = [stored EXCEPT ![s] = f]
    BY <1>7
  <2> HIDE DEF t, f
  <2>7. SoundAt(f, i, t)
    BY <2>2, <2>3, <2>4, Steps DEF SoundAt
  <2>8. JobStep(i, t, f)
    BY <1>1, <1>2, <2>1, <2>3, <2>5, <2>6, <2>7 DEF JobStep
  <2> QED
    BY <2>3, <2>4, <2>8, JobStepKeeps
<1>8. CASE /\ MayPublish(i) /\ stored' = [stored EXCEPT ![s].artifact = artifact]
           /\ task' = Failing(i) /\ slot' = Released(i)
  <2> DEFINE t == FailedTask(i)
             f == [stored[s] EXCEPT !.artifact = artifact]
  <2>1. /\ jobs[s] = i /\ s \in Subjects /\ stored[s] \in Stored
        /\ stored[s].job.state # "completed" /\ ~(s \in Runs /\ here[s] = "gone")
    BY <1>2, <1>8, OwnerShape
  <2>2. /\ t \in Task /\ Local(t) /\ t.pc = "failed" /\ t.on = s
        /\ t.status = task[i].status /\ t.previous = NoJob /\ Unfinished(task[i].status)
        /\ task' = [task EXCEPT ![i] = t]
    BY <1>1, <1>2, <1>8, FailedShape
  <2> HIDE DEF artifact
  <2>3. /\ f \in Stored /\ f.job = stored[s].job /\ f.artifact = artifact
        /\ stored' = [stored EXCEPT ![s] = f]
    BY <1>1, <1>4, <1>8, <2>1 DEF Stored, TypeInv
  <2>4. slot' \in {slot, 0, i} /\ slot' # i
    BY <1>8, Numbers DEF Released
  <2> HIDE DEF t, f
  <2>5. t.pc \in JobSteps /\ t.status.state # "completed"
    BY <2>2 DEF JobSteps, Unfinished
  <2>6. SoundAt(f, i, t)
    BY <2>1, <2>2, <2>3, <2>5 DEF SoundAt, Sound
  <2>7. JobStep(i, t, f)
    BY <1>1, <1>2, <2>1, <2>2, <2>3, <2>4, <2>5, <2>6 DEF JobStep
  <2> QED
    BY <2>2, <2>3, <2>7, JobStepKeeps
<1> QED
  BY <1>6, <1>7, <1>8 DEF saveAnalysisJob

-----------------------------------------------------------------------------
(* Downloads.                                                              *)

(* Of a download only its size is of interest.                             *)
LEMMA DownloadLocal ==
  ASSUME NEW t, t.pc \in DownloadSteps, t.kind \in {"GET", "HEAD"}, t.on \in Runs,
         SizeInv(t)
  PROVE  Local(t)
BY DEF Local, KindInv, RunInv, PassInv, PublishInv, JobSteps, RunSteps, PassSteps,
       PublishSteps, DownloadSteps, FlightSteps

(* What is known of a download.                                            *)
LEMMA DownloadShape ==
  ASSUME IInv, NEW i \in Tasks, task[i].pc \in DownloadSteps
  PROVE  /\ TypeInv /\ task[i] \in Task /\ task[i].kind \in {"GET", "HEAD"}
         /\ task[i].on \in Runs /\ SizeInv(task[i])
         /\ task[i].files \in File /\ task[i].at \in Nat /\ task[i].size \in Size
         /\ \A r \in Runs : flight[r] = i => task[i].on = r /\ task[i].pc \in FlightSteps
<1>1. TypeInv /\ task[i] \in Task /\ Local(task[i])
  BY DEF IInv, TypeInv, LocalInv
<1>2. task[i].kind \in {"GET", "HEAD"} /\ task[i].on \in Runs /\ SizeInv(task[i])
  BY <1>1 DEF Local, KindInv
<1>3. task[i].files \in File /\ task[i].at \in Nat /\ task[i].size \in Size
  BY <1>1 DEF Task
<1>4. \A r \in Runs : flight[r] = i => task[i].on = r /\ task[i].pc \in FlightSteps
  BY Numbers DEF IInv, FlightInv
<1> QED
  BY <1>1, <1>2, <1>3, <1>4

(* A step that neither joins nor leaves a flight.                          *)
LEMMA FlyOn ==
  ASSUME IInv, NEW i \in Tasks, NEW t \in Task, task[i].pc \in DownloadSteps,
         t.pc \in DownloadSteps \cup {"done"}, t.on = task[i].on, Local(t),
         task[i].pc \in FlightSteps => t.pc \in FlightSteps,
         task' = [task EXCEPT ![i] = t],
         UNCHANGED <<data, here, stored, jobs, slot, sizes, flight, now, counters>>
  PROVE  IInv'
<1>1. /\ flight' \in [Runs -> Holder] /\ sizes' \in [Runs -> Size]
      /\ flight' = flight /\ sizes' = sizes
  BY DEF IInv, TypeInv
<1>2. \A r \in Runs : flight[r] = i => task[i].on = r /\ task[i].pc \in FlightSteps
  BY DownloadShape
<1>3. DownloadStep(i, t)
  BY <1>1, <1>2 DEF DownloadStep
<1> QED
  BY <1>3, DownloadStepKeeps

(* A download uses a size of its files, waits, or measures.                *)
LEMMA PrepareKeeps ==
  ASSUME IInv, NEW i \in Tasks, prepareResultArchiveInfo(i)
  PROVE  IInv'
<1> DEFINE r == task[i].on
<1>0. task[i].pc = "lookup" /\ task[i].pc \in DownloadSteps /\ task[i].pc \notin FlightSteps
  BY DEF prepareResultArchiveInfo, DownloadSteps, FlightSteps
<1>1. /\ TypeInv /\ task[i] \in Task /\ task[i].kind \in {"GET", "HEAD"} /\ r \in Runs
      /\ task[i].files \in File /\ task[i].at \in Nat
      /\ \A q \in Runs : flight[q] # i
  BY <1>0, DownloadShape
<1>2. UNCHANGED <<data, here, stored, jobs, slot, sizes, now, counters>>
  BY DEF prepareResultArchiveInfo
<1>3. flight \in [Runs -> Holder] /\ sizes \in [Runs -> Size] /\ sizes' = sizes
  BY <1>1, <1>2 DEF TypeInv
<1>4. CASE /\ Usable(i, sizes[r]) /\ flight' = flight
           /\ task' = [task EXCEPT ![i].pc = "prepared", ![i].size = sizes[r],
                                   ![i].at = useResultArchiveInfo(i, sizes[r])]
  <2> DEFINE size == sizes[r]
             at == useResultArchiveInfo(i, size)
             t == [task[i] EXCEPT !.pc = "prepared", !.size = size, !.at = at]
  <2>1. size \in Size /\ Measured(size) /\ size.of = task[i].files
    BY <1>1, <1>3, <1>4 DEF IInv, KeptInv, Usable
  <2>2. at \in Nat /\ (Pending(size.of, size.at) => at = size.at)
    BY <1>1, <2>1 DEF useResultArchiveInfo, Size
  <2>3. task' = [task EXCEPT ![i] = t]
    BY <1>4
  <2> HIDE DEF size, at
  <2>4. /\ t \in Task /\ t.pc = "prepared" /\ t.on = r /\ t.kind = task[i].kind
        /\ t.files = task[i].files /\ t.size = size /\ t.at = at
    BY <1>1, <2>1, <2>2 DEF Task, DownloadSteps
  <2> HIDE DEF t
  <2>5. SizeInv(t)
    BY <2>1, <2>2, <2>4 DEF SizeInv
  <2>6. t.pc \in DownloadSteps
    BY <2>4 DEF DownloadSteps
  <2>7. Local(t)
    BY <1>1, <2>4, <2>5, <2>6, DownloadLocal
  <2> QED
    BY <1>0, <1>2, <1>4, <2>3, <2>4, <2>6, <2>7, FlyOn
<1>5. CASE /\ flight' = flight
           /\ task' = [task EXCEPT ![i].pc = "wait", ![i].waits = flight[r]]
  <2> DEFINE t == [task[i] EXCEPT !.pc = "wait", !.waits = flight[r]]
  <2>1. task' = [task EXCEPT ![i] = t] /\ flight[r] \in Holder
    BY <1>1, <1>3, <1>5
  <2>2. t \in Task /\ t.pc = "wait" /\ t.on = r /\ t.kind = task[i].kind
    BY <1>1, <2>1 DEF Task, DownloadSteps
  <2> HIDE DEF t
  <2>3. SizeInv(t) /\ t.pc \in DownloadSteps
    BY <2>2 DEF SizeInv, DownloadSteps
  <2>4. Local(t)
    BY <1>1, <2>2, <2>3, DownloadLocal
  <2> QED
    BY <1>0, <1>2, <1>5, <2>1, <2>2, <2>3, <2>4, FlyOn
<1>6. CASE task' = To(i, "acquire") /\ flight' = [flight EXCEPT ![r] = i]
  <2> DEFINE t == [task[i] EXCEPT !.pc = "acquire"]
  <2>1. task' = [task EXCEPT ![i] = t]
    BY <1>6 DEF To
  <2>2. t \in Task /\ t.pc = "acquire" /\ t.on = r /\ t.kind = task[i].kind
    BY <1>1 DEF Task, DownloadSteps, FlightSteps
  <2> HIDE DEF t
  <2>3. SizeInv(t) /\ t.pc \in DownloadSteps /\ t.pc \in FlightSteps
    BY <2>2 DEF SizeInv, DownloadSteps, FlightSteps
  <2>4. Local(t)
    BY <1>1, <2>2, <2>3, DownloadLocal
  <2>5. /\ flight' \in [Runs -> Holder] /\ flight'[r] = i
        /\ \A q \in Runs \ {r} : flight'[q] = flight[q]
    BY <1>1, <1>3, <1>6 DEF Holder
  <2>6. DownloadStep(i, t)
    BY <1>0, <1>1, <1>2, <1>3, <2>1, <2>2, <2>3, <2>4, <2>5 DEF DownloadStep
  <2> QED
    BY <2>2, <2>6, DownloadStepKeeps
<1> QED
  BY <1>4, <1>5, <1>6 DEF prepareResultArchiveInfo

(* A waiting download tries again; a measuring one gets its turn.          *)
LEMMA FlightDoneKeeps ==
  ASSUME IInv, NEW i \in Tasks, flightDone(i) \/ acquireResultArchiveSlot(i)
  PROVE  IInv'
<1> DEFINE pc == IF task[i].pc = "wait" THEN "lookup" ELSE "measure"
           t == [task[i] EXCEPT !.pc = pc]
<1>1. /\ task[i].pc \in {"wait", "acquire"} /\ task' = To(i, pc)
      /\ UNCHANGED <<data, here, stored, jobs, slot, sizes, flight, now, counters>>
  BY DEF flightDone, acquireResultArchiveSlot
<1>2. /\ task[i].pc \in DownloadSteps /\ pc \in DownloadSteps
      /\ pc \notin {"measured", "prepared", "stream"}
      /\ task[i].pc \in FlightSteps => pc \in FlightSteps
  BY <1>1 DEF DownloadSteps, FlightSteps
<1>3. /\ TypeInv /\ task[i] \in Task /\ task[i].kind \in {"GET", "HEAD"}
      /\ task[i].on \in Runs
  BY <1>2, DownloadShape
<1> HIDE DEF pc
<1>4. t \in Task /\ t.pc = pc /\ t.on = task[i].on /\ t.kind = task[i].kind
  BY <1>2, <1>3 DEF Task
<1>5. task' = [task EXCEPT ![i] = t]
  BY <1>1 DEF To
<1> HIDE DEF t
<1>6. SizeInv(t)
  BY <1>2, <1>4 DEF SizeInv
<1>7. Local(t)
  BY <1>2, <1>3, <1>4, <1>6, DownloadLocal
<1> QED
  BY <1>1, <1>2, <1>4, <1>5, <1>7, FlyOn

(* A size is measured of the files and at the time of its task.            *)
LEMMA MeasureKeeps ==
  ASSUME IInv, NEW i \in Tasks, measure(i)
  PROVE  IInv'
<1> DEFINE files == task[i].files
           size == [of |-> files, at |-> task[i].at, bytes |-> Bytes(files, task[i].at),
                    until |-> IF Pending(files, task[i].at) THEN now + 1 ELSE 0,
                    extended |-> FALSE]
           t == [task[i] EXCEPT !.pc = "measured", !.size = size]
<1>0. task[i].pc \in DownloadSteps
  BY DEF measure, DownloadSteps, FlightSteps
<1>1. /\ TypeInv /\ task[i] \in Task /\ task[i].kind \in {"GET", "HEAD"}
      /\ task[i].on \in Runs /\ files \in File /\ task[i].at \in Nat /\ now \in Nat
  BY <1>0, DownloadShape DEF TypeInv
<1>2. UNCHANGED <<data, here, stored, jobs, slot, sizes, flight, now, counters>>
  BY DEF measure
<1>3. task' = [task EXCEPT ![i] = t]
  BY DEF measure
<1>4. Bytes(files, task[i].at) \in Nat \X Nat
  BY <1>1 DEF Bytes, File
<1>5. size \in Size /\ size.of = files /\ size.at = task[i].at /\ Measured(size)
  BY <1>1, <1>4 DEF Size, Measured
<1> HIDE DEF size
<1>6. /\ t \in Task /\ t.pc = "measured" /\ t.on = task[i].on /\ t.kind = task[i].kind
      /\ t.files = files /\ t.size = size /\ t.at = task[i].at
  BY <1>1, <1>5 DEF Task, DownloadSteps, FlightSteps
<1> HIDE DEF t
<1>7. SizeInv(t) /\ t.pc \in DownloadSteps /\ t.pc \in FlightSteps
  BY <1>5, <1>6 DEF SizeInv, DownloadSteps, FlightSteps
<1>8. Local(t)
  BY <1>1, <1>6, <1>7, DownloadLocal
<1> QED
  BY <1>0, <1>2, <1>3, <1>6, <1>7, <1>8, FlyOn

(* The end of a flight frees the run and keeps its size.                   *)
LEMMA FinishFlightKeeps ==
  ASSUME IInv, NEW i \in Tasks, finishResultArchiveFlight(i)
  PROVE  IInv'
<1> DEFINE r == task[i].on
           t == [task[i] EXCEPT !.pc = "prepared"]
<1>0. task[i].pc = "measured" /\ task[i].pc \in DownloadSteps
  BY DEF finishResultArchiveFlight, DownloadSteps, FlightSteps
<1>1. /\ TypeInv /\ task[i] \in Task /\ task[i].kind \in {"GET", "HEAD"} /\ r \in Runs
      /\ SizeInv(task[i]) /\ task[i].size \in Size
      /\ \A q \in Runs : flight[q] = i => r = q
  BY <1>0, DownloadShape
<1>2. /\ UNCHANGED <<data, here, stored, jobs, slot, now, counters>>
      /\ sizes' = (IF keepSize(r) THEN [sizes EXCEPT ![r] = task[i].size] ELSE sizes)
      /\ flight' = [flight EXCEPT ![r] = 0] /\ task' = To(i, "prepared")
  BY DEF finishResultArchiveFlight
<1>3. flight \in [Runs -> Holder] /\ sizes \in [Runs -> Size]
  BY <1>1 DEF TypeInv
<1>4. task' = [task EXCEPT ![i] = t]
  BY <1>2 DEF To
<1>5. /\ t \in Task /\ t.pc = "prepared" /\ t.on = r /\ t.kind = task[i].kind
      /\ t.files = task[i].files /\ t.size = task[i].size /\ t.at = task[i].at
  BY <1>1 DEF Task, DownloadSteps
<1> HIDE DEF t
<1>6. SizeInv(t) /\ Measured(task[i].size) /\ t.pc \in DownloadSteps
  BY <1>0, <1>1, <1>5 DEF SizeInv, DownloadSteps
<1>7. Local(t)
  BY <1>1, <1>5, <1>6, DownloadLocal
<1>8. /\ flight' \in [Runs -> Holder] /\ flight'[r] = 0
      /\ \A q \in Runs \ {r} : flight'[q] = flight[q]
  BY <1>1, <1>2, <1>3 DEF Holder
<1>9. \A q \in Runs : flight'[q] \in {flight[q], 0, i} /\ flight'[q] # i
  BY <1>1, <1>8, Numbers
<1>10. /\ sizes' \in [Runs -> Size]
       /\ \A q \in Runs : sizes'[q] = sizes[q] \/ (here[q] # "gone" /\ Measured(sizes'[q]))
  BY <1>1, <1>2, <1>3, <1>6 DEF keepSize, Present
<1>11. DownloadStep(i, t)
  BY <1>0, <1>2, <1>4, <1>5, <1>6, <1>7, <1>8, <1>9, <1>10 DEF DownloadStep
<1> QED
  BY <1>5, <1>11, DownloadStepKeeps

(* Headers are sent, or the size has become too old.                       *)
LEMMA SendHeadersKeeps ==
  ASSUME IInv, NEW i \in Tasks, sendHeaders(i)
  PROVE  IInv'
<1>0. /\ task[i].pc = "prepared" /\ task[i].pc \in DownloadSteps
      /\ task[i].pc \notin FlightSteps
  BY DEF sendHeaders, DownloadSteps, FlightSteps
<1>1. /\ TypeInv /\ task[i] \in Task /\ task[i].kind \in {"GET", "HEAD"}
      /\ task[i].on \in Runs /\ SizeInv(task[i]) /\ now \in Nat
  BY <1>0, DownloadShape DEF TypeInv
<1>2. UNCHANGED <<data, here, stored, jobs, slot, sizes, flight, now, counters>>
  BY DEF sendHeaders
<1>3. CASE task' = [task EXCEPT ![i].pc = "lookup", ![i].at = now]
  <2> DEFINE t == [task[i] EXCEPT !.pc = "lookup", !.at = now]
  <2>1. task' = [task EXCEPT ![i] = t]
    BY <1>3
  <2>2. t \in Task /\ t.pc = "lookup" /\ t.on = task[i].on /\ t.kind = task[i].kind
    BY <1>1 DEF Task, DownloadSteps
  <2> HIDE DEF t
  <2>3. SizeInv(t) /\ t.pc \in DownloadSteps
    BY <2>2 DEF SizeInv, DownloadSteps
  <2>4. Local(t)
    BY <1>1, <2>2, <2>3, DownloadLocal
  <2> QED
    BY <1>0, <1>2, <2>1, <2>2, <2>3, <2>4, FlyOn
<1>4. CASE task' = To(i, "stream")
  <2> DEFINE t == [task[i] EXCEPT !.pc = "stream"]
  <2>1. task' = [task EXCEPT ![i] = t]
    BY <1>4 DEF To
  <2>2. /\ t \in Task /\ t.pc = "stream" /\ t.on = task[i].on /\ t.kind = task[i].kind
        /\ t.files = task[i].files /\ t.size = task[i].size /\ t.at = task[i].at
    BY <1>1 DEF Task, DownloadSteps
  <2> HIDE DEF t
  <2>3. SizeInv(t) /\ t.pc \in DownloadSteps
    BY <1>0, <1>1, <2>2 DEF SizeInv, DownloadSteps
  <2>4. Local(t)
    BY <1>1, <2>2, <2>3, DownloadLocal
  <2> QED
    BY <1>0, <1>2, <2>1, <2>2, <2>3, <2>4, FlyOn
<1>5. CASE task' = Ended(i, NoJob)
  <2> DEFINE t == EndedTask(i, NoJob)
  <2>1. /\ t \in Task /\ Local(t) /\ t.pc = "done" /\ t.on = task[i].on
        /\ task' = [task EXCEPT ![i] = t]
    BY <1>1, <1>5, Constants, EndedShape
  <2> HIDE DEF t
  <2> QED
    BY <1>0, <1>2, <2>1, FlyOn
<1> QED
  BY <1>3, <1>4, <1>5 DEF sendHeaders

(* A download that ends leaves no flight behind.                           *)
LEMMA DownloadEndsKeeps ==
  ASSUME IInv, NEW i \in Tasks, streamed(i) \/ downloadEnds(i)
  PROVE  IInv'
<1> DEFINE t == EndedTask(i, NoJob)
<1>1. /\ UNCHANGED <<data, here, stored, jobs, slot, sizes, now, counters>>
      /\ task' = Ended(i, NoJob) /\ task[i].pc \in DownloadSteps
  BY DEF streamed, downloadEnds, DownloadSteps, FlightSteps
<1>2. TypeInv /\ \A q \in Runs : flight[q] = i => task[i].pc \in FlightSteps
  BY <1>1, DownloadShape
<1>3. flight \in [Runs -> Holder] /\ sizes \in [Runs -> Size]
  BY <1>2 DEF TypeInv
<1>4. /\ t \in Task /\ Local(t) /\ t.pc = "done" /\ t.on = task[i].on
      /\ task' = [task EXCEPT ![i] = t]
  BY <1>1, <1>2, Constants, EndedShape
<1>5. /\ flight' \in [Runs -> Holder]
      /\ \A q \in Runs : flight'[q] \in {flight[q], 0} /\ flight'[q] # i
  <2>1. CASE streamed(i)
    <3>1. task[i].pc \notin FlightSteps /\ flight' = flight
      BY <2>1 DEF streamed, FlightSteps
    <3> QED
      BY <1>2, <1>3, <3>1
  <2>2. CASE downloadEnds(i)
    <3>1. flight' = leaveFlight(i)
      BY <2>2 DEF downloadEnds
    <3> QED
      BY <1>3, <3>1, Numbers DEF leaveFlight, Holder
  <2> QED
    BY <2>1, <2>2
<1> HIDE DEF t
<1>6. DownloadStep(i, t)
  BY <1>1, <1>3, <1>4, <1>5 DEF DownloadStep
<1> QED
  BY <1>4, <1>6, DownloadStepKeeps

-----------------------------------------------------------------------------
(* Requests.                                                               *)

(* What a request is answered with is sound.                               *)
LEMMA LoadSound ==
  ASSUME TypeInv, SoundInv, NEW s \in Subjects
  PROVE  /\ loadAnalysisJob(s) \in Status
         /\ Sound(loadAnalysisJob(s), stored[s].artifact)
<1>1. SoundAt(stored[s], jobs[s], JobOf(s)) /\ jobs[s] \in Holder /\ stored[s] \in Stored
  BY DEF SoundInv, TypeInv
<1>2. CASE jobs[s] # 0
  <2>1. jobs[s] \in Tasks
    BY <1>1, <1>2 DEF Holder
  <2>2. task[jobs[s]].status \in Status
    BY <2>1 DEF TypeInv, Task
  <2>3. Sound(task[jobs[s]].status, stored[s].artifact)
    BY <1>1, <1>2 DEF SoundAt, JobOf
  <2> QED
    BY <1>2, <2>2, <2>3 DEF loadAnalysisJob
<1>3. CASE jobs[s] = 0
  <2>1. stored[s].job \in Status /\ Sound(stored[s].job, stored[s].artifact)
    BY <1>1 DEF SoundAt, Stored
  <2> DEFINE lost == [stored[s].job EXCEPT !.state = "interrupted"]
  <2>2. lost \in Status /\ lost.state # "completed"
    BY <2>1 DEF Status, States
  <2>3. Sound(lost, stored[s].artifact)
    BY <2>2 DEF Sound
  <2>4. loadAnalysisJob(s) = lost \/ loadAnalysisJob(s) = stored[s].job
    BY <1>3 DEF loadAnalysisJob
  <2> HIDE DEF lost
  <2> QED
    BY <2>1, <2>2, <2>3, <2>4
<1> QED
  BY <1>2, <1>3

(* A new task t has a number that nobody knows.                            *)
LEMMA NewTask ==
  ASSUME IInv, requests < MaxRequests, NEW i, i = requests + 1, NEW t \in Task, Local(t),
         task' = [task EXCEPT ![i] = t], requests' = i, slot' = slot, flight' = flight
  PROVE  /\ i \in Tasks /\ i # 0 /\ requests' \in 0 .. MaxRequests
         /\ task' \in [Tasks -> Task] /\ task'[i] = t
         /\ \A j \in Tasks \ {i} : task'[j] = task[j]
         /\ \A s \in Subjects : jobs[s] # i
         /\ \A j \in Tasks : j > requests' => task'[j] = IdleTask
         /\ LocalInv' /\ SlotInv' /\ FlightInv'
<1>1. /\ requests \in 0 .. MaxRequests /\ task \in [Tasks -> Task] /\ slot \in Holder
      /\ \A r \in Runs : flight[r] \in Holder
  BY DEF IInv, TypeInv
<1>2. i \in Tasks /\ i # 0 /\ i \in 0 .. MaxRequests /\ i > requests
  BY <1>1, AnalysisBounds DEF Tasks
<1>3. /\ task' \in [Tasks -> Task] /\ task'[i] = t
      /\ \A j \in Tasks \ {i} : task'[j] = task[j]
  BY <1>1, <1>2
<1>4. task[i].pc = "idle" /\ task[i].pc \notin JobSteps \cup {"done"} /\ task[i].pc \notin FlightSteps
  BY <1>2, Steps DEF IInv, OwnerInv, IdleTask
<1>5. \A s \in Subjects : jobs[s] # i
  BY <1>2, <1>4 DEF IInv, OwnerInv
<1>6. \A j \in Tasks : j > requests' => task'[j] = IdleTask
  <2> SUFFICES ASSUME NEW j \in Tasks, j > i PROVE task'[j] = IdleTask
    OBVIOUS
  <2>1. j # i /\ j > requests
    BY <1>1, <1>2, Numbers
  <2> QED
    BY <1>3, <2>1 DEF IInv, OwnerInv
<1>7. LocalInv'
  <2> SUFFICES ASSUME NEW j \in Tasks PROVE Local(task'[j])
    BY DEF LocalInv
  <2> QED
    BY <1>3 DEF IInv, LocalInv
<1>8. SlotInv'
  <2>1. slot # 0 => slot \in Tasks /\ slot # i
    BY <1>1, <1>4 DEF Holder, IInv, SlotInv
  <2> QED
    BY <1>3, <2>1 DEF IInv, SlotInv
<1>9. FlightInv'
  <2> SUFFICES ASSUME NEW r \in Runs, flight[r] # 0
               PROVE  task'[flight[r]].on = r /\ task'[flight[r]].pc \in FlightSteps
    BY DEF FlightInv
  <2>1. flight[r] \in Tasks /\ task[flight[r]].on = r /\ task[flight[r]].pc \in FlightSteps
    BY <1>1 DEF Holder, IInv, FlightInv
  <2> QED
    BY <1>3, <1>4, <2>1
<1> QED
  BY <1>2, <1>3, <1>5, <1>6, <1>7, <1>8, <1>9

(* A new job has a revision of its own and is all there is on the disk.    *)
LEMMA StartKeeps ==
  ASSUME IInv, NEW s \in Subjects, NEW refresh \in BOOLEAN, startAnalysisJob(s, refresh)
  PROVE  IInv'
<1> DEFINE existing == loadAnalysisJob(s)
           i == requests + 1
           status == [state |-> "queued", id |-> i, hash |-> NoHashes,
                      key |-> IF s = Batch THEN Key(s) ELSE NoSources]
           reuse == Reusable(existing) /\ ~refresh
           previous == IF reuse THEN existing ELSE NoJob
           left == Selected(status.key)
           kind == IF s = Batch THEN "batch" ELSE "run"
           pc == IF s # Batch THEN "queued" ELSE IF reuse THEN "check" ELSE "analyze"
           t == [IdleTask EXCEPT !.kind = kind, !.on = s, !.pc = pc, !.left = left,
                                 !.status = status, !.previous = previous]
           f == [stored[s] EXCEPT !.job = status]
<1>1. /\ TypeInv /\ LocalInv /\ OwnerInv /\ SoundInv /\ KeptInv /\ DeletedRunsStayDeleted
      /\ requests \in 0 .. MaxRequests /\ stored \in [Subjects -> Stored]
      /\ jobs \in [Subjects -> Holder]
  BY DEF IInv, TypeInv
<1>2. /\ requests < MaxRequests /\ CanReadSources(s) /\ requests' = i
      /\ stored' = [stored EXCEPT ![s].job = status]
      /\ jobs' = [jobs EXCEPT ![s] = i]
      /\ data' = data /\ here' = here /\ slot' = slot /\ sizes' = sizes
      /\ flight' = flight /\ now' = now /\ events' = events
  BY DEF startAnalysisJob
<1>3. task' = [task EXCEPT ![i] = t]
  BY DEF startAnalysisJob
<1>4. status \in Status /\ status.state = "queued" /\ Unfinished(status)
  BY <1>1, KeyType, Constants DEF Status, States, Unfinished
<1>5. status.key = (IF s = Batch THEN Key(s) ELSE NoSources) /\ status.key \in Sources
  BY <1>1, KeyType, Constants
<1> HIDE DEF status
<1>6. previous \in Status
  BY <1>1, LoadSound, Constants
<1>7. previous # NoJob =>
        previous.state = "completed" /\ Sound(previous, stored[s].artifact)
  BY <1>1, LoadSound DEF Reusable
<1>8. left \subseteq Runs /\ \A r \in Runs \ left : status.key[r].bytes = 0
  BY DEF Selected, Absent
<1>9. /\ kind \in {"run", "batch"} /\ (kind = "batch" <=> s = Batch)
      /\ pc \in {"queued", "check", "analyze"} /\ (pc = "queued" <=> s # Batch)
  OBVIOUS
<1> HIDE DEF existing, reuse, previous, left, kind, pc
<1>10. /\ t \in Task /\ t.pc = pc /\ t.on = s /\ t.kind = kind /\ t.status = status
       /\ t.previous = previous /\ t.left = left /\ t.hashes = NoHashes
       /\ t.read = NoHashes /\ t.held = "no"
  <2>1. pc \in JobSteps
    BY <1>9 DEF JobSteps, RunSteps, PassSteps
  <2>2. t \in Task
    BY <1>4, <1>6, <1>8, <1>9, <2>1, Constants DEF Task
  <2> QED
    BY <2>2 DEF IdleTask
<1> HIDE DEF t
<1>11. Local(t)
  <2>1. PassInv(t)
    <3>1. \A r \in Runs : NoHashes[r] = 0
      BY DEF NoHashes
    <3> QED
      BY <1>8, <1>10, <3>1 DEF PassInv
  <2>2. RunInv(t)
    BY <1>5, <1>9, <1>10 DEF RunInv
  <2>3. KindInv(t) /\ PublishInv(t) /\ SizeInv(t)
    BY <1>4, <1>9, <1>10 DEF KindInv, PublishInv, SizeInv, JobSteps, RunSteps, PassSteps,
         PublishSteps, DownloadSteps, FlightSteps
  <2> QED
    BY <2>1, <2>2, <2>3 DEF Local
<1>12. /\ i \in Tasks /\ i # 0 /\ requests' \in 0 .. MaxRequests
       /\ task' \in [Tasks -> Task] /\ task'[i] = t
       /\ \A j \in Tasks \ {i} : task'[j] = task[j]
       /\ \A q \in Subjects : jobs[q] # i
       /\ \A j \in Tasks : j > requests' => task'[j] = IdleTask
       /\ LocalInv' /\ SlotInv' /\ FlightInv'
  BY <1>2, <1>3, <1>10, <1>11, NewTask
<1> HIDE DEF i
<1>13. /\ f \in Stored /\ f.job = status /\ f.artifact = stored[s].artifact
       /\ stored' \in [Subjects -> Stored] /\ stored'[s] = f
       /\ \A q \in Subjects \ {s} : stored'[q] = stored[q]
  BY <1>1, <1>2, <1>4 DEF Stored
<1> HIDE DEF f
<1>14. /\ jobs' \in [Subjects -> Holder] /\ jobs'[s] = i
       /\ \A q \in Subjects \ {s} : jobs'[q] = jobs[q]
  BY <1>1, <1>2, <1>12 DEF Holder
<1>15. TypeInv'
  BY <1>1, <1>2, <1>12, <1>13, <1>14 DEF TypeInv
<1>16. t.pc \in JobSteps
  BY <1>9, <1>10 DEF JobSteps, RunSteps, PassSteps
<1>17. OwnerInv'
  <2> SUFFICES ASSUME NEW q \in Subjects, jobs'[q] # 0
               PROVE  task'[jobs'[q]].on = q /\ task'[jobs'[q]].pc \in JobSteps \cup {"done"}
    BY <1>12 DEF OwnerInv
  <2>1. CASE q = s
    BY <1>10, <1>12, <1>14, <1>16, <2>1
  <2>2. CASE q # s
    <3>1. jobs'[q] = jobs[q] /\ jobs[q] \in Tasks \ {i}
      BY <1>1, <1>12, <1>14, <2>2 DEF Holder
    <3> QED
      BY <1>1, <1>12, <3>1 DEF OwnerInv
  <2> QED
    BY <2>1, <2>2
<1>18. SoundInv'
  <2> SUFFICES ASSUME NEW q \in Subjects PROVE SoundAt(stored'[q], jobs'[q], JobOf(q)')
    BY DEF SoundInv
  <2>1. CASE q = s
    <3>1. JobOf(q)' = t
      BY <1>12, <1>14, <2>1 DEF JobOf
    <3>2. SoundAt(f, i, t)
      BY <1>4, <1>7, <1>10, <1>13 DEF SoundAt, Sound
    <3> QED
      BY <1>13, <1>14, <2>1, <3>1, <3>2
  <2>2. CASE q # s
    <3>1. jobs'[q] = jobs[q] /\ jobs[q] \in Holder /\ jobs[q] # i /\ stored'[q] = stored[q]
      BY <1>1, <1>12, <1>13, <1>14, <2>2
    <3>2. JobOf(q)' = JobOf(q)
      BY <1>12, <3>1 DEF JobOf, Holder
    <3> QED
      BY <1>1, <3>1, <3>2 DEF SoundInv
  <2> QED
    BY <2>1, <2>2
<1>19. DeletedRunsStayDeleted'
  <2> SUFFICES ASSUME NEW r \in Runs, here[r] = "gone"
               PROVE  stored'[r] = NoFiles /\ jobs'[r] = 0 /\ sizes[r] = NoSize
    BY <1>2 DEF DeletedRunsStayDeleted
  <2>1. r # s
    BY <1>2, Numbers DEF CanReadSources, Present
  <2> QED
    BY <1>1, <1>13, <1>14, <2>1, Numbers DEF DeletedRunsStayDeleted
<1>20. KeptInv'
  BY <1>1, <1>2 DEF KeptInv
<1> QED
  BY <1>12, <1>15, <1>17, <1>18, <1>19, <1>20 DEF IInv

(* A new download.                                                         *)
LEMMA HandleDownloadKeeps ==
  ASSUME IInv, NEW r \in Runs, NEW method \in {"GET", "HEAD"},
         handleResultDownload(r, method)
  PROVE  IInv'
<1> DEFINE i == requests + 1
           t == [IdleTask EXCEPT !.kind = method, !.on = r, !.pc = "lookup",
                                 !.files = data[r], !.at = now]
<1>1. /\ TypeInv /\ LocalInv /\ OwnerInv /\ SoundInv /\ KeptInv /\ DeletedRunsStayDeleted
      /\ now \in Nat /\ jobs \in [Subjects -> Holder]
  BY DEF IInv, TypeInv
<1>2. /\ requests < MaxRequests /\ requests' = i /\ task' = [task EXCEPT ![i] = t]
      /\ data' = data /\ here' = here /\ slot' = slot /\ sizes' = sizes /\ jobs' = jobs
      /\ stored' = stored /\ flight' = flight /\ now' = now /\ events' = events
  BY DEF handleResultDownload
<1>3. t \in Task /\ t.pc = "lookup" /\ t.on = r /\ t.kind = method
  <2>1. data[r] \in File /\ r \in Subjects
    BY <1>1, FileType, Numbers
  <2>2. t \in Task
    BY <1>1, <2>1, Constants DEF Task, DownloadSteps
  <2> QED
    BY <2>2 DEF IdleTask
<1> HIDE DEF t
<1>4. Local(t)
  <2>1. SizeInv(t) /\ t.pc \in DownloadSteps
    BY <1>3 DEF SizeInv, DownloadSteps
  <2> QED
    BY <1>3, <2>1, DownloadLocal
<1>5. /\ i \in Tasks /\ requests' \in 0 .. MaxRequests
      /\ task' \in [Tasks -> Task]
      /\ \A j \in Tasks \ {i} : task'[j] = task[j]
      /\ \A q \in Subjects : jobs[q] # i
      /\ \A j \in Tasks : j > requests' => task'[j] = IdleTask
      /\ LocalInv' /\ SlotInv' /\ FlightInv'
  BY <1>2, <1>3, <1>4, NewTask
<1> HIDE DEF i
<1>6. TypeInv'
  BY <1>1, <1>2, <1>5 DEF TypeInv
<1>7. \A s \in Subjects : jobs[s] # 0 => jobs[s] \in Tasks \ {i}
  BY <1>1, <1>5 DEF Holder
<1>8. OwnerInv'
  BY <1>1, <1>2, <1>5, <1>7 DEF OwnerInv
<1>9. SoundInv'
  <2> SUFFICES ASSUME NEW s \in Subjects PROVE SoundAt(stored'[s], jobs'[s], JobOf(s)')
    BY DEF SoundInv
  <2>1. JobOf(s)' = JobOf(s)
    BY <1>2, <1>5, <1>7 DEF JobOf
  <2> QED
    BY <1>1, <1>2, <2>1 DEF SoundInv
<1>10. KeptInv' /\ DeletedRunsStayDeleted'
  BY <1>1, <1>2 DEF KeptInv, DeletedRunsStayDeleted
<1> QED
  BY <1>5, <1>6, <1>8, <1>9, <1>10 DEF IInv

-----------------------------------------------------------------------------
(* Data, deletions, time and restarts.                                     *)

(* A size that is kept longer is the same size.                            *)
LEMMA ExtendKeeps ==
  ASSUME IInv, NEW r \in Runs, extendPendingResultArchiveCache(r)
  PROVE  IInv'
<1> DEFINE size == [sizes[r] EXCEPT !.until = now + 1, !.extended = TRUE]
<1>1. /\ Present(r) /\ sizes' = [sizes EXCEPT ![r] = size]
      /\ data' = data /\ here' = here /\ stored' = stored /\ jobs' = jobs /\ task' = task
      /\ slot' = slot /\ flight' = flight /\ now' = now /\ requests' = requests
      /\ events' = events
  BY DEF extendPendingResultArchiveCache, counters
<1>2. sizes \in [Runs -> Size] /\ now \in Nat
  BY DEF IInv, TypeInv
<1>3. size \in Size /\ (Measured(sizes[r]) => Measured(size))
  <2>1. sizes[r] \in Size
    BY <1>2
  <2>2. /\ size \in Size /\ size.bytes = sizes[r].bytes /\ size.of = sizes[r].of
        /\ size.at = sizes[r].at
    <3> DEFINE old == sizes[r]
    <3>1. old \in Size /\ now + 1 \in Nat
      BY <1>2, <2>1
    <3> HIDE DEF old
    <3>2. \A n \in Nat :
            LET new == [old EXCEPT !.until = n, !.extended = TRUE]
            IN  new \in Size /\ new.bytes = old.bytes /\ new.of = old.of /\ new.at = old.at
      BY <3>1 DEF Size
    <3> QED
      BY <3>1, <3>2 DEF old
  <2> QED
    BY <2>2 DEF Measured
<1> HIDE DEF size
<1>4. /\ sizes' \in [Runs -> Size] /\ sizes'[r] = size
      /\ \A q \in Runs \ {r} : sizes'[q] = sizes[q]
  BY <1>1, <1>2, <1>3
<1>5. TypeInv'
  BY <1>1, <1>4 DEF IInv, TypeInv
<1>6. KeptInv'
  BY <1>3, <1>4 DEF IInv, KeptInv
<1>7. DeletedRunsStayDeleted'
  BY <1>1, <1>4 DEF IInv, DeletedRunsStayDeleted, Present
<1>8. LocalInv' /\ OwnerInv' /\ SlotInv' /\ FlightInv'
  BY <1>1 DEF IInv, LocalInv, OwnerInv, SlotInv, FlightInv
<1>9. SoundInv'
  BY <1>1 DEF IInv, SoundInv, JobOf
<1> QED
  BY <1>5, <1>6, <1>7, <1>8, <1>9 DEF IInv

(* New data and time do not matter to what was captured before.            *)
LEMMA DataKeeps ==
  ASSUME IInv, data' \in [Runs -> File], now' \in Nat, events' \in Nat,
         UNCHANGED <<here, stored, jobs, task, slot, sizes, flight, requests>>
  PROVE  IInv'
<1>1. TypeInv'
  BY DEF IInv, TypeInv
<1>2. LocalInv' /\ OwnerInv' /\ SlotInv' /\ FlightInv' /\ KeptInv'
  BY DEF IInv, LocalInv, OwnerInv, SlotInv, FlightInv, KeptInv
<1>3. SoundInv' /\ DeletedRunsStayDeleted'
  BY DEF IInv, SoundInv, JobOf, DeletedRunsStayDeleted
<1> QED
  BY <1>1, <1>2, <1>3 DEF IInv

(* New telemetry and moved files.                                          *)
LEMMA SourceKeeps ==
  ASSUME IInv, NEW r \in Runs, persistEvents(r) \/ moveFiles(r)
  PROVE  IInv'
<1>1. data \in [Runs -> File] /\ now \in Nat /\ events \in Nat
  BY DEF IInv, TypeInv
<1>2. CASE persistEvents(r)
  <2>1. /\ data' = [data EXCEPT ![r].bytes = @ + 1, ![r].settled = now + 1]
        /\ events' = events + 1 /\ now' = now
        /\ UNCHANGED <<here, stored, jobs, task, slot, sizes, flight, requests>>
    BY <1>2 DEF persistEvents
  <2>2. [data[r] EXCEPT !.bytes = @ + 1, !.settled = now + 1] \in File
    <3>1. data[r] \in File
      BY <1>1
    <3>2. data[r].bytes + 1 \in Nat /\ now + 1 \in Nat
      BY <1>1, <3>1 DEF File
    <3> QED
      BY <3>1, <3>2 DEF File
  <2>3. data' \in [Runs -> File]
    BY <1>1, <2>1, <2>2
  <2> QED
    BY <1>1, <2>1, <2>3, DataKeeps
<1>3. CASE moveFiles(r)
  <2>1. /\ data' = [data EXCEPT ![r].place = @ + 1]
        /\ events' = events + 1 /\ now' = now
        /\ UNCHANGED <<here, stored, jobs, task, slot, sizes, flight, requests>>
    BY <1>3 DEF moveFiles
  <2>2. [data[r] EXCEPT !.place = @ + 1] \in File
    BY <1>1 DEF File
  <2>3. data' \in [Runs -> File]
    BY <1>1, <2>1, <2>2
  <2> QED
    BY <1>1, <2>1, <2>3, DataKeeps
<1> QED
  BY <1>2, <1>3

(* Time passes.                                                            *)
LEMMA TickKeeps ==
  ASSUME IInv, Tick
  PROVE  IInv'
<1>1. data \in [Runs -> File] /\ now \in Nat /\ events \in Nat
  BY DEF IInv, TypeInv
<1>2. /\ data' = data /\ now' = now + 1 /\ events' = events + 1
      /\ UNCHANGED <<here, stored, jobs, task, slot, sizes, flight, requests>>
  BY DEF Tick
<1> QED
  BY <1>1, <1>2, DataKeeps

(* Deleting runs, and the mean when it is among the subjects.              *)
LEMMA DeletionKeeps ==
  ASSUME IInv, NEW runs \in SUBSET Runs, NEW gone \in SUBSET runs,
         NEW subjects \in SUBSET Subjects, subjects \cap Runs = runs,
         Deletion(runs, gone, subjects),
         \A r \in runs : here[r] # "gone",
         stored' \in [Subjects -> Stored],
         \A r \in gone : stored'[r] = NoFiles,
         \A s \in Subjects \ subjects : stored'[s] = stored[s],
         \A s \in subjects : Sound(stored'[s].job, stored'[s].artifact)
  PROVE  IInv'
<1>1. /\ TypeInv /\ LocalInv /\ OwnerInv /\ SoundInv /\ SlotInv /\ FlightInv /\ KeptInv
      /\ DeletedRunsStayDeleted
  BY DEF IInv
<1>2. /\ data' = data /\ slot' = slot /\ flight' = flight /\ now' = now
      /\ requests' = requests /\ events' = events + 1
      /\ here' = [r \in Runs |-> IF r \in gone THEN "gone"
                                 ELSE IF r \in runs THEN "marked" ELSE here[r]]
      /\ jobs' = [s \in Subjects |-> IF s \in subjects THEN 0 ELSE jobs[s]]
      /\ sizes' = [r \in Runs |-> IF r \in gone THEN NoSize ELSE sizes[r]]
  BY DEF Deletion
<1>3. \A i \in Tasks :
        \/ task'[i] = task[i]
        \/ task[i].on \in subjects /\ task'[i] = [task[i] EXCEPT !.canceled = TRUE]
  BY DEF Deletion
<1>4. \A i \in Tasks : task[i] \in Task
  BY <1>1 DEF TypeInv
<1>5. ASSUME NEW i \in Tasks, NEW t, t = [task[i] EXCEPT !.canceled = TRUE]
      PROVE  /\ t \in Task /\ t.kind = task[i].kind /\ t.on = task[i].on
             /\ t.pc = task[i].pc /\ t.held = task[i].held /\ t.status = task[i].status
             /\ t.previous = task[i].previous /\ t.left = task[i].left
             /\ t.hashes = task[i].hashes /\ t.read = task[i].read
             /\ t.files = task[i].files /\ t.at = task[i].at /\ t.size = task[i].size
  <2>1. task[i] \in Task
    BY <1>4
  <2> QED
    BY <1>5, <2>1 DEF Task
<1>6. \A i \in Tasks : task'[i] \in Task /\ task'[i].on = task[i].on /\ task'[i].pc = task[i].pc
  BY <1>3, <1>4, <1>5
<1>7. task' \in [Tasks -> Task]
  <2>1. task' = [i \in Tasks |-> task'[i]]
    BY DEF Deletion
  <2> QED
    BY <1>6, <2>1
<1>8. TypeInv'
  <2>1. here' \in [Runs -> {"present", "marked", "gone"}] /\ jobs' \in [Subjects -> Holder]
    BY <1>1, <1>2 DEF TypeInv, Holder
  <2>2. sizes' \in [Runs -> Size]
    BY <1>1, <1>2, Constants DEF TypeInv
  <2> QED
    BY <1>1, <1>2, <1>7, <2>1, <2>2 DEF TypeInv
<1>9. LocalInv'
  <2> SUFFICES ASSUME NEW i \in Tasks PROVE Local(task'[i])
    BY DEF LocalInv
  <2>1. Local(task[i])
    BY <1>1 DEF LocalInv
  <2>2. CASE task'[i] = task[i]
    BY <2>1, <2>2
  <2>3. CASE task'[i] = [task[i] EXCEPT !.canceled = TRUE]
    <3> DEFINE t == task[i]
               u == task'[i]
    <3>1. /\ u.kind = t.kind /\ u.on = t.on /\ u.pc = t.pc /\ u.held = t.held
          /\ u.status = t.status /\ u.previous = t.previous /\ u.left = t.left
          /\ u.hashes = t.hashes /\ u.read = t.read /\ u.files = t.files /\ u.at = t.at
          /\ u.size = t.size
      BY <1>5, <2>3
    <3>2. Local(t)
      BY <2>1
    <3> HIDE DEF t, u
    <3>3. KindInv(u) /\ RunInv(u) /\ SizeInv(u)
      BY <3>1, <3>2 DEF Local, KindInv, RunInv, SizeInv
    <3>4. PassInv(u) /\ PublishInv(u)
      BY <3>1, <3>2 DEF Local, PassInv, PublishInv
    <3>5. Local(u)
      BY <3>3, <3>4 DEF Local
    <3> QED
      BY <3>5 DEF u
  <2> QED
    BY <1>3, <2>2, <2>3
<1>10. OwnerInv'
  <2>1. ASSUME NEW i \in Tasks, i > requests PROVE task'[i] = IdleTask
    <3>1. task[i] = IdleTask
      BY <1>1, <2>1 DEF OwnerInv
    <3>2. ~Working(i)
      BY <3>1 DEF Working, IdleTask
    <3> QED
      BY <3>1, <3>2 DEF Deletion
  <2>2. ASSUME NEW s \in Subjects, jobs'[s] # 0
        PROVE  task'[jobs'[s]].on = s /\ task'[jobs'[s]].pc \in JobSteps \cup {"done"}
    <3>1. jobs'[s] = jobs[s] /\ jobs[s] \in Tasks
      BY <1>1, <1>2, <2>2 DEF TypeInv, Holder
    <3>2. task[jobs[s]].on = s /\ task[jobs[s]].pc \in JobSteps \cup {"done"}
      BY <1>1, <2>2, <3>1 DEF OwnerInv
    <3> QED
      BY <1>6, <3>1, <3>2
  <2> QED
    BY <1>2, <2>1, <2>2 DEF OwnerInv
<1>11. SoundInv'
  <2> SUFFICES ASSUME NEW s \in Subjects PROVE SoundAt(stored'[s], jobs'[s], JobOf(s)')
    BY DEF SoundInv
  <2>1. CASE s \in subjects
    <3>1. jobs'[s] = 0
      BY <1>2, <2>1
    <3> QED
      BY <2>1, <3>1 DEF SoundAt
  <2>2. CASE s \notin subjects
    <3>1. jobs'[s] = jobs[s] /\ jobs[s] \in Holder /\ stored'[s] = stored[s]
      BY <1>1, <1>2, <2>2 DEF TypeInv
    <3>2. jobs[s] # 0 => task'[jobs[s]] = task[jobs[s]]
      BY <1>1, <1>3, <2>2, <3>1 DEF OwnerInv, Holder
    <3>3. JobOf(s)' = JobOf(s)
      BY <3>1, <3>2 DEF JobOf
    <3> QED
      BY <1>1, <3>1, <3>3 DEF SoundInv
  <2> QED
    BY <2>1, <2>2
<1>12. SlotInv'
  <2>1. slot # 0 => slot \in Tasks
    BY <1>1 DEF TypeInv, Holder
  <2> QED
    BY <1>1, <1>2, <1>6, <2>1 DEF SlotInv
<1>13. FlightInv'
  <2> SUFFICES ASSUME NEW r \in Runs, flight[r] # 0
               PROVE  task'[flight[r]].on = r /\ task'[flight[r]].pc \in FlightSteps
    BY <1>2 DEF FlightInv
  <2>1. flight[r] \in Tasks
    BY <1>1 DEF TypeInv, Holder
  <2> QED
    BY <1>1, <1>6, <2>1 DEF FlightInv
<1>14. KeptInv'
  <2>1. Measured(NoSize)
    BY DEF Measured, NoSize, Bytes, Pending, Absent
  <2> QED
    BY <1>1, <1>2, <2>1 DEF KeptInv
<1>15. DeletedRunsStayDeleted'
  <2> SUFFICES ASSUME NEW r \in Runs, here'[r] = "gone"
               PROVE  stored'[r] = NoFiles /\ jobs'[r] = 0 /\ sizes'[r] = NoSize
    BY DEF DeletedRunsStayDeleted
  <2>1. r \in Subjects
    BY Numbers
  <2>2. CASE r \in gone
    BY <1>2, <2>1, <2>2
  <2>3. CASE r \notin gone
    <3>1. r \notin runs /\ here[r] = "gone"
      BY <1>2, <2>3
    <3>2. stored[r] = NoFiles /\ jobs[r] = 0 /\ sizes[r] = NoSize
      BY <1>1, <3>1 DEF DeletedRunsStayDeleted
    <3>3. r \notin subjects
      BY <3>1
    <3> QED
      BY <1>2, <2>1, <2>3, <3>2, <3>3
  <2> QED
    BY <2>2, <2>3
<1> QED
  BY <1>8, <1>9, <1>10, <1>11, <1>12, <1>13, <1>14, <1>15 DEF IInv

(* What is left of the files of a subject when they are removed.           *)
LEMMA RestSound ==
  ASSUME TypeInv, SoundInv, NEW s \in Subjects,
         NEW rest \in {NoFiles, stored[s], [stored[s] EXCEPT !.job = NoJob],
                       [stored[s] EXCEPT !.artifact = NoArtifact]}
  PROVE  rest \in Stored /\ Sound(rest.job, rest.artifact)
<1>1. stored[s] \in Stored /\ Sound(stored[s].job, stored[s].artifact)
  BY DEF TypeInv, SoundInv, SoundAt
<1>2. NoJob.state # "completed" /\ NoFiles.job = NoJob
  BY DEF NoJob, NoFiles
<1>3. rest \in Stored
  BY <1>1, Constants DEF Stored
<1>4. CASE rest = NoFiles
  BY <1>2, <1>3, <1>4 DEF Sound
<1>5. CASE rest = stored[s]
  BY <1>1, <1>5
<1>6. CASE rest = [stored[s] EXCEPT !.job = NoJob]
  <2>1. rest.job = NoJob
    BY <1>1, <1>6 DEF Stored
  <2> QED
    BY <1>2, <1>3, <2>1 DEF Sound
<1>7. CASE rest = [stored[s] EXCEPT !.artifact = NoArtifact]
  <2>1. rest.job = stored[s].job /\ rest.artifact = NoArtifact
    BY <1>1, <1>7 DEF Stored
  <2> QED
    BY <1>1, <1>3, <2>1 DEF Sound
<1> QED
  BY <1>3, <1>4, <1>5, <1>6, <1>7

(* Deleting one run, completely or only marking it.                        *)
LEMMA DeleteResultKeeps ==
  ASSUME IInv, NEW r \in Runs, deleteSavedResult(r)
  PROVE  IInv'
<1>1. TypeInv /\ SoundInv /\ stored \in [Subjects -> Stored] /\ r \in Subjects
  BY Numbers DEF IInv, TypeInv
<1>2. here[r] # "gone"
  BY DEF deleteSavedResult
<1>3. PICK gone \in {{}, {r}} :
        /\ Deletion({r}, gone, {r})
        /\ stored' = [stored EXCEPT ![r] = IF r \in gone THEN NoFiles ELSE @]
  BY DEF deleteSavedResult
<1>4. /\ stored'[r] \in {NoFiles, stored[r]} /\ (r \in gone => stored'[r] = NoFiles)
      /\ \A s \in Subjects \ {r} : stored'[s] = stored[s]
  BY <1>1, <1>3
<1>5. stored'[r] \in Stored /\ Sound(stored'[r].job, stored'[r].artifact)
  BY <1>1, <1>4, RestSound
<1>6. stored' \in [Subjects -> Stored]
  <2>1. (IF r \in gone THEN NoFiles ELSE stored[r]) \in Stored
    BY <1>1, Constants
  <2> QED
    BY <1>1, <1>3, <2>1
<1> QED
  BY <1>1, <1>2, <1>3, <1>4, <1>5, <1>6, DeletionKeeps

(* Deleting the mean, or the batch as far as it gets.                      *)
LEMMA DeleteBatchKeeps ==
  ASSUME IInv, deleteSavedBatch
  PROVE  IInv'
<1> DEFINE members == {r \in Runs : Present(r)}
<1>1. TypeInv /\ SoundInv /\ stored \in [Subjects -> Stored]
  BY DEF IInv, TypeInv
<1>2. CASE /\ Deletion({}, {}, {Batch})
           /\ \E rest \in {NoFiles, [stored[Batch] EXCEPT !.job = NoJob],
                           [stored[Batch] EXCEPT !.artifact = NoArtifact]} :
                stored' = [stored EXCEPT ![Batch] = rest]
  <2>1. PICK rest \in {NoFiles, [stored[Batch] EXCEPT !.job = NoJob],
                       [stored[Batch] EXCEPT !.artifact = NoArtifact]} :
          stored' = [stored EXCEPT ![Batch] = rest]
    BY <1>2
  <2>2. rest \in Stored /\ Sound(rest.job, rest.artifact)
    BY <1>1, Numbers, RestSound
  <2>3. /\ stored' \in [Subjects -> Stored] /\ stored'[Batch] = rest
        /\ \A s \in Subjects \ {Batch} : stored'[s] = stored[s]
    BY <1>1, <2>1, <2>2, Numbers
  <2>4. {Batch} \in SUBSET Subjects /\ {Batch} \cap Runs = {}
    BY Numbers
  <2> QED
    BY <1>2, <2>2, <2>3, <2>4, DeletionKeeps
<1>3. CASE \E runs \in SUBSET members, gone \in SUBSET members :
             /\ gone \subseteq runs
             /\ Deletion(runs, gone, runs \cup {Batch})
             /\ stored' = [s \in Subjects |->
                             IF s \in gone \cup {Batch} THEN NoFiles ELSE stored[s]]
  <2>1. PICK runs \in SUBSET members, gone \in SUBSET members :
             /\ gone \subseteq runs
             /\ Deletion(runs, gone, runs \cup {Batch})
             /\ stored' = [s \in Subjects |->
                             IF s \in gone \cup {Batch} THEN NoFiles ELSE stored[s]]
    BY <1>3
  <2>2. /\ runs \in SUBSET Runs /\ gone \in SUBSET runs
        /\ runs \cup {Batch} \in SUBSET Subjects /\ (runs \cup {Batch}) \cap Runs = runs
    BY <2>1, Numbers
  <2>3. \A r \in runs : here[r] # "gone"
    BY <2>1 DEF Present
  <2>4. /\ stored' \in [Subjects -> Stored]
        /\ \A r \in gone : stored'[r] = NoFiles
        /\ \A s \in Subjects \ (runs \cup {Batch}) : stored'[s] = stored[s]
        /\ \A s \in runs \cup {Batch} : stored'[s] \in {NoFiles, stored[s]}
    BY <1>1, <2>1, <2>2, Constants
  <2>5. \A s \in runs \cup {Batch} : Sound(stored'[s].job, stored'[s].artifact)
    <3> SUFFICES ASSUME NEW s \in runs \cup {Batch}
                 PROVE  Sound(stored'[s].job, stored'[s].artifact)
      OBVIOUS
    <3>1. s \in Subjects
      BY <2>2
    <3>2. CASE stored'[s] = NoFiles
      BY <1>1, <3>1, <3>2, RestSound
    <3>3. CASE stored'[s] = stored[s]
      BY <1>1, <3>1, <3>3, RestSound
    <3> QED
      BY <2>4, <3>2, <3>3
  <2> QED
    BY <2>1, <2>2, <2>3, <2>4, <2>5, DeletionKeeps
<1> QED
  BY <1>2, <1>3 DEF deleteSavedBatch

(* A restart forgets tasks, owners, sizes and flights.                     *)
LEMMA RestartKeeps ==
  ASSUME IInv, controllerRestarts
  PROVE  IInv'
<1>1. /\ jobs' = [s \in Subjects |-> 0] /\ task' = [i \in Tasks |-> IdleTask]
      /\ slot' = 0 /\ sizes' = [r \in Runs |-> NoSize] /\ flight' = [r \in Runs |-> 0]
      /\ events' = events + 1
      /\ data' = data /\ here' = here /\ stored' = stored /\ now' = now
      /\ requests' = requests
  BY DEF controllerRestarts
<1>2. TypeInv'
  BY <1>1, Constants DEF IInv, TypeInv, Holder
<1>3. LocalInv'
  BY <1>1, IdleLocal DEF LocalInv
<1>4. OwnerInv' /\ SlotInv' /\ FlightInv'
  BY <1>1 DEF OwnerInv, SlotInv, FlightInv
<1>5. SoundInv'
  BY <1>1 DEF IInv, SoundInv, SoundAt
<1>6. KeptInv'
  BY <1>1 DEF KeptInv, Measured, NoSize, Bytes, Pending, Absent
<1>7. DeletedRunsStayDeleted'
  BY <1>1, Numbers DEF IInv, DeletedRunsStayDeleted
<1> QED
  BY <1>2, <1>3, <1>4, <1>5, <1>6, <1>7 DEF IInv

-----------------------------------------------------------------------------
(* The invariant.                                                          *)

(* Nothing happens.                                                        *)
LEMMA StutterKeeps ==
  ASSUME IInv, UNCHANGED vars
  PROVE  IInv'
<1>1. data' \in [Runs -> File] /\ now' \in Nat /\ events' \in Nat
  BY DEF IInv, TypeInv, vars, counters
<1>2. UNCHANGED <<here, stored, jobs, task, slot, sizes, flight, requests>>
  BY DEF vars, counters
<1> QED
  BY <1>1, <1>2, DataKeeps

(* Every step keeps the invariant.                                         *)
LEMMA NextKeeps ==
  ASSUME IInv, [Next]_vars
  PROVE  IInv'
<1>1. ASSUME NEW i \in Tasks, Analyse(i) PROVE IInv'
  BY <1>1, CaptureRunKeeps, BeginRunKeeps, AnalyzeRunKeeps, CaptureMemberKeeps,
     ReportMemberKeeps, ReadMemberKeeps, EndPassKeeps, ReuseKeeps, StageKeeps, SaveKeeps,
     WorkerFailsKeeps, RecordFailureKeeps DEF Analyse
<1>2. ASSUME NEW i \in Tasks, Download(i) \/ downloadEnds(i) PROVE IInv'
  BY <1>2, PrepareKeeps, FlightDoneKeeps, MeasureKeeps, FinishFlightKeeps,
     SendHeadersKeeps, DownloadEndsKeeps DEF Download
<1>3. ASSUME NEW s \in Subjects, NEW refresh \in BOOLEAN, startAnalysisJob(s, refresh)
      PROVE  IInv'
  BY <1>3, StartKeeps
<1>4. ASSUME NEW r \in Runs, NEW method \in {"GET", "HEAD"}, handleResultDownload(r, method)
      PROVE  IInv'
  BY <1>4, HandleDownloadKeeps
<1>5. ASSUME NEW r \in Runs,
             \/ extendPendingResultArchiveCache(r) \/ persistEvents(r)
             \/ moveFiles(r) \/ deleteSavedResult(r)
      PROVE  IInv'
  BY <1>5, ExtendKeeps, SourceKeeps, DeleteResultKeeps
<1>6. CASE deleteSavedBatch
  BY <1>6, DeleteBatchKeeps
<1>7. CASE Tick
  BY <1>7, TickKeeps
<1>8. CASE controllerRestarts
  BY <1>8, RestartKeeps
<1>9. CASE UNCHANGED vars
  BY <1>9, StutterKeeps
<1> QED
  BY <1>1, <1>2, <1>3, <1>4, <1>5, <1>6, <1>7, <1>8, <1>9 DEF Next

(* The inductive invariant holds in every reachable state, whatever the    *)
(* number of runs, requests and limits.                                    *)
THEOREM Inductive == Spec => []IInv
<1>1. Init => IInv
  BY InitKeeps
<1>2. IInv /\ [Next]_vars => IInv'
  BY NextKeeps
<1> QED
  BY <1>1, <1>2, PTL DEF Spec

(* Jobs, artifacts, sizes and tasks keep their types.                      *)
THEOREM TypeCorrect == Spec => []TypeInv
<1>1. IInv => TypeInv
  BY DEF IInv
<1> QED
  BY <1>1, Inductive, PTL

(* Nothing of a deleted run comes back.                                    *)
THEOREM DeletedForGood == Spec => []DeletedRunsStayDeleted
<1>1. IInv => DeletedRunsStayDeleted
  BY DEF IInv
<1> QED
  BY <1>1, Inductive, PTL

(* The slot and the flights belong to tasks that are at work.              *)
THEOREM NoIdleWaits == Spec => []WaitsAreForWork
<1>1. IInv => WaitsAreForWork
  <2> SUFFICES ASSUME IInv PROVE WaitsAreForWork
    OBVIOUS
  <2>1. slot # 0 => Working(slot) /\ task[slot].pc # "queued"
    <3>1. slot # 0 => slot \in Tasks
      BY DEF IInv, TypeInv, Holder
    <3> QED
      BY <3>1, WorkingSteps DEF IInv, SlotInv
  <2> QED
    BY <2>1 DEF WaitsAreForWork, IInv, FlightInv, FlightSteps
<1> QED
  BY <1>1, Inductive, PTL

(* The length in the headers of a download is that of its body.            *)
THEOREM ExactSizes == Spec => []SizesAreExact
<1>1. IInv => SizesAreExact
  <2> SUFFICES ASSUME IInv, NEW i \in Tasks, task[i].pc = "stream",
                      task[i].at >= task[i].size.at
               PROVE  task[i].size.bytes = Bytes(task[i].files, task[i].at)
    BY DEF SizesAreExact
  <2> DEFINE size == task[i].size
             at == task[i].at
  <2>1. task[i].pc \in DownloadSteps
    BY DEF DownloadSteps
  <2>2. at \in Nat /\ size \in Size /\ SizeInv(task[i])
    BY <2>1, DownloadShape
  <2>3. /\ size.bytes = Bytes(size.of, size.at) /\ size.of = task[i].files
        /\ Pending(size.of, size.at) => at = size.at
    BY <2>2 DEF SizeInv, Measured
  <2>4. size.at \in Nat /\ size.of.settled \in Nat
    BY <2>2 DEF Size, File
  <2>5. CASE Pending(size.of, size.at)
    BY <2>3, <2>5
  <2>6. CASE ~Pending(size.of, size.at)
    <3>1. ~Pending(size.of, at)
      BY <2>2, <2>4, <2>6 DEF Pending
    <3> QED
      BY <2>3, <2>6, <3>1 DEF Bytes
  <2> QED
    BY <2>5, <2>6
<1> QED
  BY <1>1, Inductive, PTL

(* What is shown as finished and not stale was computed from the bytes     *)
(* there are now.                                                          *)
THEOREM CurrentAnalyses == Spec => []ShownAnalysesAreCurrent
<1>1. IInv => ShownAnalysesAreCurrent
  <2> SUFFICES ASSUME IInv, NEW s \in Subjects,
                      ~analysisJobStatus(s).stale,
                      handleAnalysisArtifact(s, analysisJobStatus(s).id) # NoArtifact
               PROVE  LET job      == analysisJobStatus(s)
                          artifact == handleAnalysisArtifact(s, job.id)
                      IN  artifact.id = job.id /\ artifact.read = Hash(Key(s))
    BY DEF ShownAnalysesAreCurrent
  <2> DEFINE job == loadAnalysisJob(s)
             artifact == stored[s].artifact
  <2>1. Sound(job, artifact)
    BY LoadSound DEF IInv
  <2>2. job.state = "completed" /\ job.key = Key(s) /\ analysisJobStatus(s).id = job.id
    BY DEF analysisJobStatus, Reusable
  <2>3. handleAnalysisArtifact(s, analysisJobStatus(s).id) = artifact /\ artifact # NoArtifact
    BY <2>2 DEF handleAnalysisArtifact
  <2> HIDE DEF job, artifact
  <2>4. artifact.id = job.id /\ artifact.read = Hash(Key(s))
    BY <2>1, <2>2, <2>3 DEF Sound
  <2> QED
    BY <2>2, <2>3, <2>4
<1> QED
  BY <1>1, Inductive, PTL
=============================================================================
