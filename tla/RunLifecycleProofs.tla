------------------------- MODULE RunLifecycleProofs -------------------------
(***************************************************************************)
(* Proofs about RunLifecycle: a stop that found the handle of a run wins,  *)
(* iterations do not overlap, and recorded write errors reach the disk or  *)
(* stay on the list of writes to repeat.                                   *)
(***************************************************************************)
EXTENDS RunLifecycle, SequenceTheorems, FiniteSetTheorems, TLAPS

-----------------------------------------------------------------------------
(***************************************************************************)
(* The inductive invariant.  The scheduler waits for a write to disk with  *)
(* pc = "writing"; its stage is where it goes on afterwards, whether the   *)
(* write succeeds or fails.                                                *)
(***************************************************************************)
stage == IF pc = "writing" THEN persistMu.next ELSE pc

Entering  == {"admit", "next", "start", "begin", "enter"}
Started   == Entering \cup {"running", "retire"}
Finishing == {"cleanup", "flush", "sample", "final"}
Finished  == {"result", "advance"}
Stages    == Started \cup Finishing \cup Finished \cup {"cancelRest", "done"}

(* The local variables of runScenario.                                     *)
RunLocals == [err : {"none", "canceled", "failed"}, cleanup : BOOLEAN, data : BOOLEAN,
              integrity : BOOLEAN, watched : BOOLEAN, stopAll : BOOLEAN]

(* TypeOK, with the types of the variables only a proof needs.             *)
TypeInv ==
  /\ experiments \in Seq(Experiment)
  /\ Len(experiments) \in 1 .. MaxRepetitions
  /\ saved \in [Runs -> Experiment]
  /\ failedRunWrites \in SUBSET Runs /\ unreported \in SUBSET Runs
  /\ hurt \in [recorded : SUBSET Runs, dropped : SUBSET Runs]
  /\ persistMu \in [op : {"none", "update", "result", "remember", "retry"}, run : Runs,
                    image : Experiment, next : Stages]
  /\ canceled \in BOOLEAN
  /\ cancels \in SUBSET Runs /\ peers \in SUBSET Runs
  /\ pc \in Stages \cup {"writing"}
  /\ current \in 1 .. Repetitions + 1
  /\ run \in RunLocals
  /\ faults \in 0 .. MaxFaults
  /\ stopped \in [cancelable : SUBSET Runs, waiting : SUBSET Runs]

(* Who holds persistMu, and that the scheduler has an iteration.           *)
ControlInv ==
  /\ pc = "writing" <=> persistMu.op \in {"update", "result"}
  /\ pc = "writing" =>
       persistMu.next \in {"next", "begin", "enter", "result", "advance", "cancelRest"}
  /\ persistMu.op = "remember" => pc = "running" /\ persistMu.run = current
  /\ stage \notin {"cancelRest", "done"} => current \in Runs

(* A run has its handle until it is retired, and no completed run has one: *)
(* a stop that finds the handle comes before the outcome is decided.       *)
HandleInv ==
  /\ stopped.cancelable # {} \/ stopped.waiting # {} => canceled
  /\ stage \in Started => current .. Repetitions \subseteq cancels
  /\ stage \in Finishing \cup Finished =>
       current \notin cancels /\ current + 1 .. Repetitions \subseteq cancels
  /\ pc \in Finishing /\ current \in stopped.cancelable => run.err = "canceled"
  /\ \A i \in Runs : experiments[i].state = "completed" =>
       i \notin cancels /\ i \notin stopped.cancelable
  /\ persistMu.op = "remember" => persistMu.image.state \notin {"completed", "queued"}

(* Only the running iteration may have Peers; those it leaves behind make  *)
(* it fail, and with it the batch.                                         *)
PeerInv ==
  /\ stage \in {"begin", "enter", "running", "retire"} \cup Finishing \cup Finished =>
       experiments[current].state # "queued"
  /\ \A i \in peers : experiments[i].state # "queued" /\ i \notin stopped.waiting
  /\ pc = "running" => current \notin stopped.waiting
  /\ stage \in Entering => peers = {}
  /\ stage \in {"running", "retire"} \cup Finishing \cup Finished => peers \subseteq {current}
  /\ \E j \in Runs : peers \subseteq {j}
  /\ Repetitions > 1 /\ peers # {} =>
       /\ pc \in Finishing \ {"cleanup"} => run.cleanup
       /\ stage = "result" => experiments[current].state # "completed"
       /\ stage # "advance"

(* A recorded error is on disk, on the list, or in the image being written. *)
DiskInv ==
  /\ failedRunWrites \subseteq hurt.recorded
  /\ \A i \in hurt.recorded \ hurt.dropped : experiments[i].integrityError
  /\ persistMu.op = "retry" => persistMu.run \in hurt.dropped \/ persistMu.image.integrityError
  /\ pc = "writing" /\ experiments[persistMu.run].integrityError =>
       persistMu.image.integrityError \/ persistMu.run \in failedRunWrites
  /\ \A i \in Runs \ hurt.dropped : experiments[i].integrityError =>
       \/ saved[i].integrityError
       \/ i \in failedRunWrites
       \/ pc = "writing" /\ persistMu.run = i /\ persistMu.image.integrityError

IInv == TypeInv /\ ControlInv /\ HandleInv /\ PeerInv /\ DiskInv
-----------------------------------------------------------------------------
(* Lemmas about records and about the sequence that holds them.            *)

(* The records of a batch are a function on 1 .. Repetitions.              *)
LEMMA Shape ==
  ASSUME TypeInv
  PROVE  /\ Runs = 1 .. Repetitions /\ Repetitions \in Nat \ {0}
         /\ experiments \in [Runs -> Experiment]
         /\ \A i \in Runs : experiments[i] \in Experiment
BY RepetitionsAssumption DEF TypeInv, Runs, Repetitions

(* Replacing one record keeps a sequence of records of the same length.    *)
LEMMA ReplaceOne ==
  ASSUME TypeInv, NEW i \in Runs, NEW e \in Experiment,
         experiments' = [experiments EXCEPT ![i] = e]
  PROVE  /\ experiments' \in Seq(Experiment)
         /\ Repetitions' = Repetitions /\ Runs' = Runs
         /\ experiments'[i] = e
         /\ \A j \in Runs : j # i => experiments'[j] = experiments[j]
BY Shape, ExceptSeq DEF TypeInv, Runs, Repetitions

(* So does replacing them all.                                             *)
LEMMA ReplaceAll ==
  ASSUME TypeInv, experiments' \in [Runs -> Experiment]
  PROVE  /\ experiments' \in Seq(Experiment)
         /\ Repetitions' = Repetitions /\ Runs' = Runs
<1>1. experiments' \in [1 .. Repetitions -> Experiment] /\ Repetitions \in Nat
  BY Shape
<1>2. experiments' \in Seq(Experiment) /\ Len(experiments') = Repetitions
  BY <1>1, SeqDef, LenProperties
<1> QED
  BY <1>1, <1>2, Shape DEF Runs, Repetitions

(* A recorded error never makes a record completed or queued.              *)
LEMMA ErrorFacts ==
  ASSUME NEW e \in Experiment
  PROVE  /\ WithError(e) \in Experiment
         /\ WithError(e).integrityError
         /\ WithError(e).state # "completed"
         /\ WithError(e).state = "queued" <=> e.state = "queued"
BY DEF WithError, Experiment, States, DataStates

(* The initial record, and what the scheduler makes of one.                *)
LEMMA RecordTypes ==
  ASSUME NEW e \in Experiment
  PROVE  /\ Queued \in Experiment
         /\ \A st \in States : [e EXCEPT !.state = st] \in Experiment
         /\ [e EXCEPT !.dataState = "collecting"] \in Experiment
         /\ [e EXCEPT !.stopRequested = TRUE] \in Experiment
         /\ e.agents < MaxAgents => [e EXCEPT !.agents = @ + 1] \in Experiment
<1>1. MaxAgents \in Nat
  BY BoundsAssumption
<1>2. Queued \in Experiment
  BY <1>1 DEF Queued, Experiment, States, DataStates
<1>3. ASSUME e.agents < MaxAgents PROVE [e EXCEPT !.agents = @ + 1] \in Experiment
  <2>1. e.agents + 1 \in 0 .. MaxAgents
    BY <1>1, <1>3 DEF Experiment
  <2> QED BY <2>1 DEF Experiment
<1> QED
  BY <1>2, <1>3 DEF Experiment, States, DataStates
-----------------------------------------------------------------------------
(* Steps that leave the records, their files and the writers alone.        *)
QuietStep ==
  \/ nextIteration \/ waitRunStorageFails \/ enterPhases \/ createNode \/ stopAllPhase
  \/ \E i \in Runs : peersLeave(i) \/ eventWriteFails(i)
  \/ watchRunStorage \/ jobsNotStopped \/ retireHandle \/ flushRunSources
  \/ \E err \in {"none", "canceled", "failed"} : phasesEnd(err)
  \/ \E outcome \in {"ok", "notStopped", "notDrained"} : cleanup(outcome)
  \/ sampleIntegrity \/ advance \/ schedulerExits

(* Steps that change a record in memory and begin to write it.             *)
UpdateStep == admit \/ startRun \/ runScenario \/ finishRun \/ cancelQueuedIteration

(* A quiet step changes neither records nor files nor errors.              *)
LEMMA QuietFrame ==
  ASSUME QuietStep
  PROVE  UNCHANGED <<experiments, saved, failedRunWrites, persistMu, hurt, stopped, Runs, Repetitions>>
BY DEF QuietStep, nextIteration, waitRunStorageFails, enterPhases, createNode, stopAllPhase,
       peersLeave, eventWriteFails, watchRunStorage, jobsNotStopped, retireHandle,
       flushRunSources, phasesEnd, cleanup, sampleIntegrity, advance, schedulerExits,
       recordVars, schedVars, Runs, Repetitions

(* Quiet steps keep the types.                                             *)
LEMMA QuietType ==
  ASSUME TypeInv, ControlInv, QuietStep
  PROVE  TypeInv'
<1> USE DEF recordVars, schedVars, Fault, FaultsLeft
<1>f. UNCHANGED <<experiments, saved, failedRunWrites, persistMu, hurt, stopped, Runs, Repetitions>>
  BY QuietFrame
<1>s. Repetitions \in Nat \ {0} /\ Runs = 1 .. Repetitions /\ MaxFaults \in Nat
  BY Shape, BoundsAssumption
<1>1. pc = "running" => current \in Runs
  BY DEF ControlInv, stage
<1>a. unreported' \in SUBSET Runs
  <2>1. unreported' = unreported \/ \E i \in Runs : unreported' = unreported \cup {i}
    BY DEF QuietStep, nextIteration, waitRunStorageFails, enterPhases, createNode,
      stopAllPhase, peersLeave, eventWriteFails, watchRunStorage, jobsNotStopped, retireHandle,
      flushRunSources, phasesEnd, cleanup, sampleIntegrity, advance, schedulerExits
  <2> QED BY <2>1 DEF TypeInv
<1>b. canceled' \in BOOLEAN /\ cancels' \in SUBSET Runs
  <2>1. canceled' \in {canceled, TRUE} /\ cancels' \in {cancels, cancels \ {current}, {}}
    BY DEF QuietStep, nextIteration, waitRunStorageFails, enterPhases, createNode,
      stopAllPhase, peersLeave, eventWriteFails, watchRunStorage, jobsNotStopped, retireHandle,
      flushRunSources, phasesEnd, cleanup, sampleIntegrity, advance, schedulerExits
  <2> QED BY <2>1 DEF TypeInv
<1>c. peers' \in SUBSET Runs
  <2>1. peers' \subseteq peers \/ (pc = "running" /\ peers' = peers \cup {current})
    BY DEF QuietStep, nextIteration, waitRunStorageFails, enterPhases, createNode,
      stopAllPhase, peersLeave, eventWriteFails, watchRunStorage, jobsNotStopped, retireHandle,
      flushRunSources, phasesEnd, cleanup, sampleIntegrity, advance, schedulerExits
  <2> QED BY <1>1, <2>1 DEF TypeInv
<1>2. pc' \in Stages \cup {"writing"} /\ faults' \in 0 .. MaxFaults
  BY <1>s DEF QuietStep, nextIteration, waitRunStorageFails, enterPhases, createNode, stopAllPhase,
       peersLeave, eventWriteFails, watchRunStorage, jobsNotStopped, retireHandle,
       flushRunSources, phasesEnd, cleanup, sampleIntegrity, advance, schedulerExits, TypeInv,
       Stages, Started, Entering, Finishing, Finished
<1>3. current' \in 1 .. Repetitions + 1
  <2>1. CASE advance
    <3>1. current \in Runs
      BY <2>1 DEF ControlInv, stage, advance
    <3> QED BY <1>s, <2>1, <3>1 DEF advance
  <2>2. CASE ~advance
    BY <2>2 DEF QuietStep, nextIteration, waitRunStorageFails, enterPhases, createNode,
      stopAllPhase, peersLeave, eventWriteFails, watchRunStorage, jobsNotStopped, retireHandle,
      flushRunSources, phasesEnd, cleanup, sampleIntegrity, schedulerExits, TypeInv
  <2> QED BY <2>1, <2>2
<1>4. run' \in RunLocals
  <2>1. CASE sampleIntegrity
    <3>1. experiments[current].integrityError \in BOOLEAN
      BY <2>1, Shape DEF ControlInv, stage, sampleIntegrity, Experiment
    <3> QED BY <2>1, <3>1 DEF sampleIntegrity, TypeInv, RunLocals
  <2>2. CASE ~sampleIntegrity
    <3>1. \/ run' = run \/ run' = NoErrors
          \/ \E err \in {"none", "canceled", "failed"} : run' = [run EXCEPT !.err = err]
          \/ run' = [run EXCEPT !.err = IF canceled THEN "canceled" ELSE @]
          \/ run' = [run EXCEPT !.stopAll = TRUE] \/ run' = [run EXCEPT !.watched = TRUE]
          \/ run' = [run EXCEPT !.cleanup = TRUE] \/ run' = [run EXCEPT !.data = TRUE]
      BY <2>2 DEF QuietStep, nextIteration, waitRunStorageFails, enterPhases, createNode,
        stopAllPhase, peersLeave, eventWriteFails, watchRunStorage, jobsNotStopped, retireHandle,
        flushRunSources, phasesEnd, cleanup, advance, schedulerExits
    <3>2. run \in RunLocals
      BY DEF TypeInv
    <3>3. NoErrors \in RunLocals
      BY DEF NoErrors, RunLocals
    <3>4. \A err \in {"none", "canceled", "failed"} : [run EXCEPT !.err = err] \in RunLocals
      BY <3>2 DEF RunLocals
    <3>5. [run EXCEPT !.err = IF canceled THEN "canceled" ELSE @] \in RunLocals
      BY <3>2 DEF RunLocals
    <3>6. /\ [run EXCEPT !.stopAll = TRUE] \in RunLocals /\ [run EXCEPT !.watched = TRUE] \in RunLocals
          /\ [run EXCEPT !.cleanup = TRUE] \in RunLocals /\ [run EXCEPT !.data = TRUE] \in RunLocals
      BY <3>2 DEF RunLocals
    <3> QED BY <3>1, <3>2, <3>3, <3>4, <3>5, <3>6
  <2> QED BY <2>1, <2>2
<1> QED
  BY <1>f, <1>a, <1>b, <1>c, <1>2, <1>3, <1>4 DEF TypeInv

(* The actions among the quiet steps that change no control state.         *)
LEMMA QuietControl ==
  ASSUME TypeInv, ControlInv, QuietStep
  PROVE  ControlInv'
<1> USE DEF recordVars, schedVars
<1>f. UNCHANGED <<experiments, saved, failedRunWrites, persistMu, hurt, stopped, Runs, Repetitions>>
  BY QuietFrame
<1>s. Repetitions \in Nat \ {0} /\ Runs = 1 .. Repetitions /\ current \in 1 .. Repetitions + 1
  BY Shape DEF TypeInv
<1>1. /\ pc # "writing" => pc' # "writing"
      /\ pc = "writing" => pc' = pc
      /\ persistMu.op = "remember" /\ pc = "running" => pc' = pc /\ current' = current
  BY DEF QuietStep, nextIteration, waitRunStorageFails, enterPhases, createNode,
    stopAllPhase, peersLeave, eventWriteFails, watchRunStorage, jobsNotStopped, retireHandle,
    flushRunSources, phasesEnd, cleanup, sampleIntegrity, advance, schedulerExits
<1>2. stage' \notin {"cancelRest", "done"} => current' \in Runs
  <2>1. CASE advance
    BY <1>s, <2>1 DEF advance, stage, ControlInv
  <2>2. CASE ~advance
    <3>1. current' = current /\ (stage' \notin {"cancelRest", "done"} => stage \notin {"cancelRest", "done"})
      BY <1>f, <2>2 DEF stage, QuietStep, nextIteration, waitRunStorageFails, enterPhases, createNode,
        stopAllPhase, peersLeave, eventWriteFails, watchRunStorage, jobsNotStopped, retireHandle,
        flushRunSources, phasesEnd, cleanup, sampleIntegrity, schedulerExits
    <3> QED BY <3>1 DEF ControlInv
  <2> QED BY <2>1, <2>2
<1> QED
  BY <1>f, <1>1, <1>2 DEF ControlInv

(* A completed run has neither a handle nor an accepted stop, whatever     *)
(* quiet steps do to the handles.                                          *)
LEMMA QuietHandle ==
  ASSUME TypeInv, ControlInv, HandleInv, QuietStep
  PROVE  HandleInv'
<1> USE DEF recordVars, schedVars
<1>f. UNCHANGED <<experiments, saved, failedRunWrites, persistMu, hurt, stopped, Runs, Repetitions>>
  BY QuietFrame
<1>s. Repetitions \in Nat \ {0} /\ Runs = 1 .. Repetitions /\ current \in 1 .. Repetitions + 1
  BY Shape DEF TypeInv
<1>1. (canceled => canceled') /\ cancels' \subseteq cancels
  BY DEF QuietStep, nextIteration, waitRunStorageFails, enterPhases, createNode,
    stopAllPhase, peersLeave, eventWriteFails, watchRunStorage, jobsNotStopped, retireHandle,
    flushRunSources, phasesEnd, cleanup, sampleIntegrity, advance, schedulerExits
<1>2. CASE retireHandle
  <2>1. /\ pc = "retire" /\ stage = "retire" /\ pc' = "cleanup" /\ stage' = "cleanup"
        /\ current' = current /\ cancels' = cancels \ {current}
        /\ current \in Runs
    BY <1>2 DEF retireHandle, stage, ControlInv
  <2>2. current + 1 .. Repetitions \subseteq current .. Repetitions /\ current \notin current + 1 .. Repetitions
    BY <1>s
  <2>3. current \in stopped.cancelable => run'.err = "canceled"
    <3>1. run \in RunLocals
      BY DEF TypeInv
    <3> QED BY <1>2, <3>1 DEF retireHandle, HandleInv, RunLocals
  <2>4. current' \notin cancels' /\ current' + 1 .. Repetitions' \subseteq cancels'
    BY <1>f, <2>1, <2>2 DEF HandleInv, Started
  <2> QED
    BY <1>f, <1>1, <2>1, <2>3, <2>4 DEF HandleInv, Started, Entering, Finishing, Finished
<1>3. CASE advance
  <2>1. /\ pc = "advance" /\ stage = "advance" /\ pc' \in {"cancelRest", "next"} /\ stage' = pc'
        /\ current' = current + 1 /\ cancels' = cancels
    BY <1>3 DEF advance, stage
  <2> QED
    BY <1>f, <1>1, <2>1 DEF HandleInv, Started, Entering, Finishing, Finished
<1>4. CASE schedulerExits
  <2>1. stage' = "done" /\ pc' = "done"
    BY <1>4 DEF schedulerExits, stage
  <2> QED
    BY <1>f, <1>1, <2>1 DEF HandleInv, Started, Entering, Finishing, Finished
<1>5. CASE ~retireHandle /\ ~advance /\ ~schedulerExits
  <2>1. cancels' = cancels /\ current' = current
    BY <1>5 DEF QuietStep, nextIteration, waitRunStorageFails, enterPhases, createNode,
      stopAllPhase, peersLeave, eventWriteFails, watchRunStorage, jobsNotStopped,
      flushRunSources, phasesEnd, cleanup, sampleIntegrity
  <2>2. /\ stage' \in Started => stage \in Started
        /\ stage' \in Finishing \cup Finished => stage \in Finishing \cup Finished
        /\ pc' \in Finishing => pc \in Finishing
    BY <1>f, <1>5 DEF QuietStep, nextIteration, waitRunStorageFails, enterPhases, createNode,
      stopAllPhase, peersLeave, eventWriteFails, watchRunStorage, jobsNotStopped,
      flushRunSources, phasesEnd, cleanup, sampleIntegrity, stage, Started, Entering, Finishing, Finished
  <2>3. pc \in Finishing => run'.err = run.err
    <3>1. run \in RunLocals
      BY DEF TypeInv
    <3> QED
      BY <1>5, <3>1 DEF QuietStep, nextIteration, waitRunStorageFails, enterPhases, createNode,
        stopAllPhase, peersLeave, eventWriteFails, watchRunStorage, jobsNotStopped,
        flushRunSources, phasesEnd, cleanup, sampleIntegrity, Finishing, RunLocals
  <2> QED
    BY <1>f, <1>1, <2>1, <2>2, <2>3 DEF HandleInv
<1> QED
  BY <1>2, <1>3, <1>4, <1>5

(* Peers appear under the running iteration only, and the cleanup of a     *)
(* repeated run removes them or fails.                                     *)
LEMMA QuietPeers ==
  ASSUME TypeInv, ControlInv, HandleInv, PeerInv, QuietStep
  PROVE  PeerInv'
<1> USE DEF recordVars, schedVars
<1>f. UNCHANGED <<experiments, saved, failedRunWrites, persistMu, hurt, stopped, Runs, Repetitions>>
  BY QuietFrame
<1>s. Repetitions \in Nat \ {0} /\ Runs = 1 .. Repetitions /\ current \in 1 .. Repetitions + 1
  BY Shape DEF TypeInv
<1>r. run \in RunLocals
  BY DEF TypeInv
<1>1. CASE nextIteration
  <2>1. /\ pc = "next" /\ stage = "next" /\ pc' \in {"cancelRest", "start", "begin"} /\ stage' = pc'
        /\ pc' = "begin" => experiments[current].state # "queued"
        /\ current' = current /\ peers' = peers
    BY <1>1 DEF nextIteration, stage
  <2> QED
    BY <1>f, <2>1 DEF PeerInv, Entering, Finishing, Finished
<1>2. CASE enterPhases
  <2>1. /\ pc = "enter" /\ stage = "enter" /\ pc' \in {"retire", "running"} /\ stage' = pc'
        /\ pc' = "running" => ~canceled
        /\ current' = current /\ peers' = peers
    BY <1>2 DEF enterPhases, stage
  <2>2. peers = {}
    BY <2>1 DEF PeerInv, Entering
  <2>3. pc' = "running" => stopped.waiting = {}
    BY <2>1 DEF HandleInv
  <2> QED
    BY <1>f, <2>1, <2>2, <2>3 DEF PeerInv, Entering, Finishing, Finished
<1>3. CASE createNode
  <2>1. /\ pc = "running" /\ stage = "running" /\ pc' = "running" /\ stage' = "running"
        /\ current' = current /\ peers' = peers \cup {current}
        /\ current \in Runs
    BY <1>3 DEF createNode, stage, ControlInv
  <2>2. peers' \subseteq {current}
    BY <2>1 DEF PeerInv
  <2>3. experiments[current].state # "queued" /\ current \notin stopped.waiting
    BY <2>1 DEF PeerInv
  <2> QED
    BY <1>f, <2>1, <2>2, <2>3 DEF PeerInv, Entering, Finishing, Finished
<1>4. CASE \E outcome \in {"ok", "notStopped", "notDrained"} : cleanup(outcome)
  <2>1. /\ pc = "cleanup" /\ stage = "cleanup" /\ pc' = "flush" /\ stage' = "flush"
        /\ current' = current /\ peers' \subseteq peers
    BY <1>4 DEF cleanup, stage
  <2>2. peers \subseteq {current}
    BY <2>1 DEF PeerInv, Finishing
  <2>3. Repetitions > 1 /\ peers' # {} => run'.cleanup
    BY <1>4, <1>r, <2>2 DEF cleanup, NeedsCleanup, RunLocals
  <2> QED
    BY <1>f, <2>1, <2>2, <2>3 DEF PeerInv, Entering, Finishing, Finished
<1>5. CASE advance
  <2>1. /\ pc = "advance" /\ stage = "advance" /\ pc' \in {"cancelRest", "next"} /\ stage' = pc'
        /\ pc' = "next" => current # Repetitions
        /\ peers' = peers
    BY <1>5 DEF advance, stage
  <2>2. current \in Runs
    BY <2>1 DEF ControlInv
  <2>3. pc' = "next" => peers = {}
    BY <1>s, <2>1, <2>2 DEF PeerInv
  <2> QED
    BY <1>f, <2>1, <2>3 DEF PeerInv, Entering, Finishing, Finished
<1>6. CASE ~nextIteration /\ ~enterPhases /\ ~createNode /\ ~advance
           /\ ~\E outcome \in {"ok", "notStopped", "notDrained"} : cleanup(outcome)
  <2>1. current' = current /\ peers' \subseteq peers
    BY <1>6 DEF QuietStep, waitRunStorageFails, stopAllPhase, peersLeave, eventWriteFails,
      watchRunStorage, jobsNotStopped, retireHandle, flushRunSources, phasesEnd,
      sampleIntegrity, schedulerExits
  <2>2. /\ stage' = stage /\ pc' = pc
        \/ /\ pc = "start" /\ stage = pc /\ pc' = "cancelRest" /\ stage' = pc'
        \/ /\ pc = "running" /\ stage = pc /\ pc' = "retire" /\ stage' = pc'
        \/ /\ pc = "retire" /\ stage = pc /\ pc' = "cleanup" /\ stage' = pc'
        \/ /\ pc = "flush" /\ stage = pc /\ pc' = "sample" /\ stage' = pc'
        \/ /\ pc = "sample" /\ stage = pc /\ pc' = "final" /\ stage' = pc'
        \/ /\ pc = "cancelRest" /\ stage = pc /\ pc' = "done" /\ stage' = pc'
    BY <1>f, <1>6 DEF stage, QuietStep, waitRunStorageFails, stopAllPhase, peersLeave, eventWriteFails,
      watchRunStorage, jobsNotStopped, retireHandle, flushRunSources, phasesEnd,
      sampleIntegrity, schedulerExits
  <2>3. run.cleanup => run'.cleanup
    BY <1>6, <1>r DEF RunLocals, QuietStep, waitRunStorageFails, stopAllPhase, peersLeave, eventWriteFails,
      watchRunStorage, jobsNotStopped, retireHandle, flushRunSources, phasesEnd,
      sampleIntegrity, schedulerExits
  <2> QED
    BY <1>f, <2>1, <2>2, <2>3 DEF PeerInv, Entering, Finishing, Finished
<1> QED
  BY <1>1, <1>2, <1>3, <1>4, <1>5, <1>6 DEF QuietStep

(* What is on disk, on the list or being written stays so.                 *)
LEMMA QuietDisk ==
  ASSUME DiskInv, QuietStep
  PROVE  DiskInv'
<1>1. UNCHANGED <<experiments, saved, failedRunWrites, persistMu, hurt, stopped, Runs, Repetitions>>
  BY QuietFrame
<1>2. pc' = "writing" <=> pc = "writing"
  BY DEF recordVars, schedVars, QuietStep, nextIteration, waitRunStorageFails, enterPhases, createNode,
    stopAllPhase, peersLeave, eventWriteFails, watchRunStorage, jobsNotStopped, retireHandle,
    flushRunSources, phasesEnd, cleanup, sampleIntegrity, advance, schedulerExits
<1> QED
  BY <1>1, <1>2 DEF DiskInv

(* A quiet step preserves the invariant.                                   *)
LEMMA QuietPreserves ==
  ASSUME IInv, QuietStep
  PROVE  IInv'
BY QuietType, QuietControl, QuietHandle, QuietPeers, QuietDisk DEF IInv
-----------------------------------------------------------------------------
(* Updates of a record: memory first, then the file, under persistMu.      *)

(* What updateExperiment does to the records, and who holds persistMu.     *)
LEMMA UpdateFrame ==
  ASSUME TypeInv, ControlInv, NEW i \in Runs, NEW e \in Experiment, NEW next \in Stages,
         updateExperiment(i, e, next)
  PROVE  /\ experiments' \in Seq(Experiment) /\ Repetitions' = Repetitions /\ Runs' = Runs
         /\ experiments'[i] = e
         /\ \A j \in Runs : j # i => experiments'[j] = experiments[j]
         /\ pc # "writing" /\ stage = pc /\ pc' = "writing" /\ stage' = next
         /\ persistMu'.op = "update" /\ persistMu'.run = i /\ persistMu'.image = e
         /\ persistMu'.next = next
         /\ persistMu' \in [op : {"none", "update", "result", "remember", "retry"}, run : Runs,
                            image : Experiment, next : Stages]
<1>1. /\ experiments' = [experiments EXCEPT ![i] = e]
      /\ persistMu.op = "none" /\ pc' = "writing"
      /\ persistMu' = [op |-> "update", run |-> i, image |-> e, next |-> next]
  BY DEF updateExperiment
<1>2. pc # "writing"
  BY <1>1 DEF ControlInv
<1> QED
  BY <1>1, <1>2, ReplaceOne DEF stage

(* An update keeps a recorded error, in memory and in the image.           *)
LEMMA UpdateDisk ==
  ASSUME TypeInv, ControlInv, DiskInv, NEW i \in Runs, NEW e \in Experiment, NEW next \in Stages,
         updateExperiment(i, e, next),
         experiments[i].integrityError => e.integrityError,
         UNCHANGED <<saved, failedRunWrites, hurt>>
  PROVE  DiskInv'
<1>1. /\ experiments'[i] = e /\ Runs' = Runs
      /\ \A j \in Runs : j # i => experiments'[j] = experiments[j]
      /\ pc # "writing" /\ pc' = "writing"
      /\ persistMu'.op = "update" /\ persistMu'.run = i /\ persistMu'.image = e
  BY UpdateFrame
<1>2. \A j \in Runs : experiments[j].integrityError => experiments'[j].integrityError
  BY <1>1
<1>3. hurt.recorded \subseteq Runs
  BY DEF TypeInv
<1>4. \A j \in hurt'.recorded \ hurt'.dropped : experiments'[j].integrityError
  BY <1>2, <1>3 DEF DiskInv
<1>5. \A j \in Runs' \ hurt'.dropped : experiments'[j].integrityError =>
       \/ saved'[j].integrityError
       \/ j \in failedRunWrites'
       \/ pc' = "writing" /\ persistMu'.run = j /\ persistMu'.image.integrityError
  BY <1>1 DEF DiskInv
<1> QED
  BY <1>1, <1>4, <1>5 DEF DiskInv

(* The outcome of a run: completed only without any error.                 *)
LEMMA FinalOutcome ==
  /\ FinalState \in {"completed", "canceled", "failed"}
  /\ FinalState = "completed" => run.err = "none" /\ ~run.cleanup
BY DEF FinalState, ResultErr

(* Updates preserve the invariant; an update that completes a run finds    *)
(* no accepted stop of it.                                                 *)
LEMMA UpdatePreserves ==
  ASSUME IInv, UpdateStep
  PROVE  IInv'
<1> USE DEF IInv
<1>s. /\ Repetitions \in Nat \ {0} /\ Runs = 1 .. Repetitions /\ current \in 1 .. Repetitions + 1
      /\ \A i \in Runs : experiments[i] \in Experiment
  BY Shape DEF TypeInv
<1>r. run \in RunLocals
  BY DEF TypeInv
<1>1. PICK i \in Runs, e \in Experiment, next \in Stages :
        /\ updateExperiment(i, e, next)
        /\ UNCHANGED <<saved, failedRunWrites, run, unreported, canceled, cancels, peers, faults,
                       stopped, hurt>>
        /\ experiments[i].integrityError => e.integrityError
        /\ e.state # "queued"
        /\ \/ pc = "admit" /\ next = "next" /\ e.state = "running" /\ current' = current
           \/ pc = "start" /\ next = "begin" /\ e.state = "running" /\ current' = current /\ i = current
           \/ pc = "begin" /\ next = "enter" /\ e.state = experiments[i].state
                /\ current' = current /\ i = current
           \/ pc = "final" /\ next = "result" /\ e.state = FinalState /\ current' = current /\ i = current
           \/ pc = "cancelRest" /\ next = "cancelRest" /\ e.state = "canceled"
                /\ current \in Runs /\ current' = current + 1
  <2>1. CASE admit
    <3>1. 1 \in Runs /\ experiments[1] \in Experiment
      BY <1>s
    <3>2. [experiments[1] EXCEPT !.state = "running"] \in Experiment
      BY <3>1, RecordTypes DEF States
    <3>3. /\ [experiments[1] EXCEPT !.state = "running"].state = "running"
          /\ [experiments[1] EXCEPT !.state = "running"].integrityError = experiments[1].integrityError
      BY <3>1 DEF Experiment
    <3>4. "next" \in Stages
      BY DEF Stages, Started, Entering
    <3> QED BY <2>1, <3>1, <3>2, <3>3, <3>4 DEF admit
  <2>2. CASE startRun
    <3>1. current \in Runs /\ experiments[current] \in Experiment
      BY <1>s, <2>2 DEF ControlInv, stage, startRun
    <3>2. [experiments[current] EXCEPT !.state = "running"] \in Experiment
      BY <3>1, RecordTypes DEF States
    <3>3. /\ [experiments[current] EXCEPT !.state = "running"].state = "running"
          /\ [experiments[current] EXCEPT !.state = "running"].integrityError = experiments[current].integrityError
      BY <3>1 DEF Experiment
    <3>4. "begin" \in Stages
      BY DEF Stages, Started, Entering
    <3> QED BY <2>2, <3>1, <3>2, <3>3, <3>4 DEF startRun
  <2>3. CASE runScenario
    <3>1. current \in Runs /\ experiments[current] \in Experiment
      BY <1>s, <2>3 DEF ControlInv, stage, runScenario
    <3>2. [experiments[current] EXCEPT !.dataState = "collecting"] \in Experiment
      BY <3>1, RecordTypes
    <3>3. /\ [experiments[current] EXCEPT !.dataState = "collecting"].state = experiments[current].state
          /\ [experiments[current] EXCEPT !.dataState = "collecting"].integrityError = experiments[current].integrityError
      BY <3>1 DEF Experiment
    <3>4. "enter" \in Stages
      BY DEF Stages, Started, Entering
    <3>5. experiments[current].state # "queued"
      BY <2>3 DEF PeerInv, runScenario, stage
    <3> QED BY <2>3, <3>1, <3>2, <3>3, <3>4, <3>5 DEF runScenario
  <2>4. CASE finishRun
    <3> DEFINE old == experiments[current]
               final == [old EXCEPT !.state = FinalState, !.integrityError = @ \/ run.data,
                 !.dataState = IF Retained(old) THEN "collecting"
                               ELSE IF run.data \/ old.integrityError \/ run.cleanup THEN "incomplete"
                               ELSE "complete"]
    <3>1. current \in Runs /\ old \in Experiment
      BY <1>s, <2>4 DEF ControlInv, stage, finishRun
    <3>2. run.data \in BOOLEAN
      BY <1>r DEF RunLocals
    <3>3. (old.integrityError \/ run.data) \in BOOLEAN
      BY <3>1, <3>2 DEF Experiment
    <3>4. final \in Experiment
      BY <3>1, <3>3, FinalOutcome DEF Experiment, States, DataStates
    <3>5. final.state = FinalState /\ (old.integrityError => final.integrityError)
      BY <3>1 DEF Experiment
    <3>6. "result" \in Stages
      BY DEF Stages, Finished
    <3>7. updateExperiment(current, final, "result")
      BY <2>4 DEF finishRun
    <3> HIDE DEF old, final
    <3>8. experiments[current].integrityError => final.integrityError
      BY <3>5 DEF old
    <3> QED BY <2>4, <3>1, <3>4, <3>5, <3>6, <3>7, <3>8, FinalOutcome DEF finishRun
  <2>5. CASE cancelQueuedIteration
    <3>1. current \in Runs /\ experiments[current] \in Experiment
      BY <1>s, <2>5 DEF cancelQueuedIteration
    <3>2. [experiments[current] EXCEPT !.state = "canceled"] \in Experiment
      BY <3>1, RecordTypes DEF States
    <3>3. /\ [experiments[current] EXCEPT !.state = "canceled"].state = "canceled"
          /\ [experiments[current] EXCEPT !.state = "canceled"].integrityError = experiments[current].integrityError
      BY <3>1 DEF Experiment
    <3>4. "cancelRest" \in Stages
      BY DEF Stages
    <3> QED BY <2>5, <3>1, <3>2, <3>3, <3>4 DEF cancelQueuedIteration
  <2> QED
    BY <2>1, <2>2, <2>3, <2>4, <2>5 DEF UpdateStep
<1>2. /\ experiments' \in Seq(Experiment) /\ Repetitions' = Repetitions /\ Runs' = Runs
      /\ experiments'[i] = e
      /\ \A j \in Runs : j # i => experiments'[j] = experiments[j]
      /\ pc # "writing" /\ stage = pc /\ pc' = "writing" /\ stage' = next
      /\ persistMu'.op = "update" /\ persistMu'.run = i /\ persistMu'.image = e
      /\ persistMu'.next = next
      /\ persistMu' \in [op : {"none", "update", "result", "remember", "retry"}, run : Runs,
                         image : Experiment, next : Stages]
  BY <1>1, UpdateFrame
<1>3. current' \in 1 .. Repetitions + 1
  BY <1>1, <1>s
<1>4. TypeInv'
  BY <1>1, <1>2, <1>3 DEF TypeInv, Repetitions
<1>5. ControlInv'
  BY <1>1, <1>2 DEF ControlInv
<1>6. \A j \in Runs : experiments'[j].state = "completed" => j \notin cancels /\ j \notin stopped.cancelable
  <2>1. ASSUME e.state = "completed" PROVE i \notin cancels /\ i \notin stopped.cancelable
    <3>1. CASE pc = "final"
      <4>1. run.err = "none" /\ i = current /\ stage = "final"
        BY <1>1, <1>2, <2>1, <3>1, FinalOutcome
      <4> QED BY <3>1, <4>1 DEF HandleInv, Finishing
    <3>2. CASE pc = "begin"
      BY <1>1, <2>1, <3>2 DEF HandleInv
    <3> QED BY <1>1, <2>1, <3>1, <3>2
  <2> QED
    BY <1>2, <2>1 DEF HandleInv
<1>7. HandleInv'
  <2>1. /\ stage' \in Started => stage \in Started /\ current' = current
        /\ stage' \in Finishing \cup Finished => stage \in Finishing \cup Finished /\ current' = current
    BY <1>1, <1>2 DEF Started, Entering, Finishing, Finished
  <2> QED
    BY <1>1, <1>2, <1>6, <2>1 DEF HandleInv, Finishing
<1>8. PeerInv'
  <2>1. \A j \in peers : experiments'[j].state # "queued"
    BY <1>1, <1>2 DEF PeerInv, TypeInv
  <2>2. next \in {"begin", "enter", "result"} => experiments'[current'].state # "queued"
    BY <1>1, <1>2
  <2>3. next \in Entering => peers = {}
    BY <1>1, <1>2 DEF PeerInv, Entering
  <2>4. next = "result" => peers \subseteq {current'}
    BY <1>1, <1>2 DEF PeerInv, Finishing
  <2>5. Repetitions > 1 /\ peers # {} /\ next = "result" => experiments'[current'].state # "completed"
    BY <1>1, <1>2, FinalOutcome DEF PeerInv, Finishing
  <2> QED
    BY <1>1, <1>2, <2>1, <2>2, <2>3, <2>4, <2>5 DEF PeerInv, Finishing, Finished, Entering
<1>9. DiskInv'
  BY <1>1, UpdateDisk
<1> QED
  BY <1>4, <1>5, <1>7, <1>8, <1>9
-----------------------------------------------------------------------------
(* Steps that record a write error.                                        *)

(* Record i becomes e, which has the error, and is listed.                 *)
ErrorRecorded(i, e) ==
  /\ experiments' = [experiments EXCEPT ![i] = e]
  /\ failedRunWrites' = failedRunWrites \cup {i}
  /\ hurt' = [hurt EXCEPT !.recorded = @ \cup {i}]
  /\ e.integrityError /\ e.state # "completed"
  /\ e.state = "queued" => experiments[i].state = "queued"

(* The record that Hurt writes is one with the error.                      *)
LEMMA HurtRecords ==
  ASSUME TypeInv, NEW i \in Runs, Hurt(i)
  PROVE  \E e \in Experiment : ErrorRecorded(i, e)
<1>1. experiments[i] \in Experiment
  BY Shape
<1>2. experiments' = [experiments EXCEPT ![i] = WithError(experiments[i])]
  BY DEF Hurt
<1> QED
  BY <1>1, <1>2, ErrorFacts DEF Hurt, ErrorRecorded

(* No record is completed or queued again, or loses an error.              *)
LEMMA ErrorFrame ==
  ASSUME TypeInv, NEW i \in Runs, NEW e \in Experiment, ErrorRecorded(i, e)
  PROVE  /\ experiments' \in Seq(Experiment) /\ Repetitions' = Repetitions /\ Runs' = Runs
         /\ failedRunWrites' \in SUBSET Runs
         /\ hurt' \in [recorded : SUBSET Runs, dropped : SUBSET Runs]
         /\ hurt'.recorded = hurt.recorded \cup {i} /\ hurt'.dropped = hurt.dropped
         /\ experiments'[i].integrityError
         /\ \A j \in Runs : /\ experiments'[j].state = "completed" => experiments[j].state = "completed"
                            /\ experiments'[j].state = "queued" => experiments[j].state = "queued"
                            /\ experiments[j].integrityError => experiments'[j].integrityError
                            /\ j # i => experiments'[j] = experiments[j]
<1>1. experiments' = [experiments EXCEPT ![i] = e]
  BY DEF ErrorRecorded
<1>2. /\ experiments' \in Seq(Experiment) /\ Repetitions' = Repetitions /\ Runs' = Runs
      /\ experiments'[i] = e
      /\ \A j \in Runs : j # i => experiments'[j] = experiments[j]
  BY <1>1, ReplaceOne
<1>3. hurt \in [recorded : SUBSET Runs, dropped : SUBSET Runs] /\ failedRunWrites \in SUBSET Runs
  BY DEF TypeInv
<1>4. hurt' = [hurt EXCEPT !.recorded = hurt.recorded \cup {i}]
  BY DEF ErrorRecorded
<1>5. /\ hurt' \in [recorded : SUBSET Runs, dropped : SUBSET Runs]
      /\ hurt'.recorded = hurt.recorded \cup {i} /\ hurt'.dropped = hurt.dropped
  BY <1>3, <1>4
<1> QED
  BY <1>2, <1>3, <1>5 DEF ErrorRecorded

(* What becomes of the errors: the run is listed, so that the image being  *)
(* written need not have it, and the lock may be released.                 *)
LEMMA ErrorDisk ==
  ASSUME TypeInv, ControlInv, DiskInv, NEW i \in Runs, NEW e \in Experiment, ErrorRecorded(i, e),
         saved' = saved,
         \/ persistMu' = persistMu /\ (pc' = "writing" <=> pc = "writing")
         \/ persistMu.run = i /\ persistMu' = Free /\ pc' # "writing"
  PROVE  DiskInv'
<1>1. /\ Runs' = Runs
      /\ hurt'.recorded = hurt.recorded \cup {i} /\ hurt'.dropped = hurt.dropped
      /\ experiments'[i].integrityError
      /\ \A j \in Runs : /\ experiments[j].integrityError => experiments'[j].integrityError
                         /\ j # i => experiments'[j] = experiments[j]
  BY ErrorFrame
<1>2. failedRunWrites' = failedRunWrites \cup {i} /\ hurt.recorded \subseteq Runs
  BY DEF ErrorRecorded, TypeInv
<1>3. failedRunWrites' \subseteq hurt'.recorded
  BY <1>1, <1>2 DEF DiskInv
<1>4. \A j \in hurt'.recorded \ hurt'.dropped : experiments'[j].integrityError
  BY <1>1, <1>2 DEF DiskInv
<1>5. CASE persistMu' = persistMu /\ (pc' = "writing" <=> pc = "writing")
  <2>1. persistMu.run \in Runs
    BY DEF TypeInv
  <2> QED
    BY <1>1, <1>2, <1>3, <1>4, <1>5, <2>1 DEF DiskInv
<1>6. CASE persistMu.run = i /\ persistMu' = Free /\ pc' # "writing"
  BY <1>1, <1>2, <1>3, <1>4, <1>6 DEF DiskInv, Free
<1> QED
  BY <1>5, <1>6

(* The record of a released lock.                                          *)
LEMMA FreeType ==
  ASSUME TypeInv
  PROVE  Free \in [op : {"none", "update", "result", "remember", "retry"}, run : Runs,
                   image : Experiment, next : Stages]
<1>1. 1 \in Runs /\ experiments[1] \in Experiment
  BY Shape
<1>2. Queued \in Experiment
  BY <1>1, RecordTypes
<1>3. "admit" \in Stages
  BY DEF Stages, Started, Entering
<1> QED
  BY <1>1, <1>2, <1>3 DEF Free

(* A failed event write is recorded at any time.                           *)
LEMMA RecordErrorPreserves ==
  ASSUME IInv, NEW k \in Runs, recordRunWriteError(k)
  PROVE  IInv'
<1> USE DEF IInv, schedVars
<1>1. PICK e \in Experiment : ErrorRecorded(k, e)
  BY HurtRecords DEF recordRunWriteError
<1>2. /\ UNCHANGED <<saved, persistMu, pc, current, run, canceled, cancels, peers, faults, stopped>>
      /\ unreported' = unreported \ {k}
  BY DEF recordRunWriteError
<1>3. stage' = stage
  BY <1>2 DEF stage
<1>4. /\ experiments' \in Seq(Experiment) /\ Repetitions' = Repetitions /\ Runs' = Runs
      /\ failedRunWrites' \in SUBSET Runs
      /\ hurt' \in [recorded : SUBSET Runs, dropped : SUBSET Runs]
      /\ \A j \in Runs : /\ experiments'[j].state = "completed" => experiments[j].state = "completed"
                         /\ experiments'[j].state = "queued" => experiments[j].state = "queued"
  BY <1>1, ErrorFrame
<1>5. TypeInv'
  BY <1>2, <1>4 DEF TypeInv, Repetitions
<1>6. ControlInv'
  BY <1>2, <1>3, <1>4 DEF ControlInv
<1>7. HandleInv'
  BY <1>2, <1>3, <1>4 DEF HandleInv
<1>8. PeerInv'
  <2>1. stage \notin {"cancelRest", "done"} => current \in Runs
    BY DEF ControlInv
  <2>2. peers \subseteq Runs
    BY DEF TypeInv
  <2> QED
    BY <1>2, <1>3, <1>4, <2>1, <2>2 DEF PeerInv, Finishing, Finished
<1>9. DiskInv'
  BY <1>1, <1>2, ErrorDisk
<1> QED
  BY <1>5, <1>6, <1>7, <1>8, <1>9

(* The logs of the run could not be flushed.                               *)
LEMMA FlushFailsPreserves ==
  ASSUME IInv, flushFails
  PROVE  IInv'
<1> USE DEF IInv
<1>0. /\ pc = "flush" /\ stage = "flush" /\ pc' = "sample" /\ stage' = "sample"
      /\ UNCHANGED <<saved, persistMu, current, unreported, canceled, cancels, peers, stopped>>
      /\ faults < MaxFaults /\ faults' = faults + 1
      /\ run' = [run EXCEPT !.data = TRUE]
  BY DEF flushFails, stage, Fault, FaultsLeft
<1>r. current \in Runs
  BY <1>0 DEF ControlInv
<1>1. PICK e \in Experiment : ErrorRecorded(current, e)
  BY <1>r, HurtRecords DEF flushFails
<1>2. run \in RunLocals /\ run' \in RunLocals /\ run'.err = run.err /\ run'.cleanup = run.cleanup
  <2>1. run \in RunLocals
    BY DEF TypeInv
  <2> QED BY <1>0, <2>1 DEF RunLocals
<1>4. /\ experiments' \in Seq(Experiment) /\ Repetitions' = Repetitions /\ Runs' = Runs
      /\ failedRunWrites' \in SUBSET Runs
      /\ hurt' \in [recorded : SUBSET Runs, dropped : SUBSET Runs]
      /\ \A j \in Runs : /\ experiments'[j].state = "completed" => experiments[j].state = "completed"
                         /\ experiments'[j].state = "queued" => experiments[j].state = "queued"
  BY <1>r, <1>1, ErrorFrame
<1>5. TypeInv'
  <2>1. faults' \in 0 .. MaxFaults
    BY <1>0, BoundsAssumption DEF TypeInv
  <2>2. "sample" \in Stages
    BY DEF Stages, Finishing
  <2> QED
    BY <1>0, <1>2, <1>4, <2>1, <2>2 DEF TypeInv, Repetitions
<1>6. ControlInv'
  BY <1>0, <1>4 DEF ControlInv
<1>7. HandleInv'
  BY <1>0, <1>2, <1>4 DEF HandleInv, Finishing, Finished, Started, Entering
<1>8. PeerInv'
  <2>2. peers \subseteq Runs
    BY DEF TypeInv
  <2> QED
    BY <1>0, <1>r, <1>2, <1>4, <2>2 DEF PeerInv, Finishing, Finished, Entering
<1>9. DiskInv'
  BY <1>0, <1>r, <1>1, ErrorDisk
<1> QED
  BY <1>5, <1>6, <1>7, <1>8, <1>9

(* A write of a scheduler step fails: memory keeps the record.             *)
LEMMA UpdateFailsPreserves ==
  ASSUME IInv, updateFails
  PROVE  IInv'
<1> USE DEF IInv
<1> DEFINE i == persistMu.run
<1>0. /\ persistMu.op = "update" /\ pc = "writing" /\ stage = persistMu.next
      /\ persistMu' = Free /\ pc' = persistMu.next
      /\ persistMu.next \in {"next", "begin", "enter", "result", "advance", "cancelRest"}
      /\ UNCHANGED <<saved, unreported, canceled, cancels, peers, current, run, stopped>>
      /\ faults < MaxFaults /\ faults' = faults + 1
  BY DEF updateFails, stage, Fault, FaultsLeft, ControlInv
<1>a. pc' # "writing" /\ stage' = stage /\ persistMu'.op = "none"
  BY <1>0 DEF stage, Free
<1>r. i \in Runs
  BY DEF TypeInv
<1>1. PICK e \in Experiment : ErrorRecorded(i, e)
  BY <1>r, HurtRecords DEF updateFails
<1>4. /\ experiments' \in Seq(Experiment) /\ Repetitions' = Repetitions /\ Runs' = Runs
      /\ failedRunWrites' \in SUBSET Runs
      /\ hurt' \in [recorded : SUBSET Runs, dropped : SUBSET Runs]
      /\ \A j \in Runs : /\ experiments'[j].state = "completed" => experiments[j].state = "completed"
                         /\ experiments'[j].state = "queued" => experiments[j].state = "queued"
  BY <1>r, <1>1, ErrorFrame
<1>5. TypeInv'
  <2>1. faults' \in 0 .. MaxFaults
    BY <1>0, BoundsAssumption DEF TypeInv
  <2>2. pc' \in Stages
    BY <1>0 DEF TypeInv
  <2> QED
    BY <1>0, <1>4, <2>1, <2>2, FreeType DEF TypeInv, Repetitions
<1>6. ControlInv'
  BY <1>0, <1>a, <1>4 DEF ControlInv
<1>7. HandleInv'
  BY <1>0, <1>a, <1>4 DEF HandleInv, Finishing
<1>8. PeerInv'
  <2>1. stage \notin {"cancelRest", "done"} => current \in Runs
    BY DEF ControlInv
  <2>2. peers \subseteq Runs
    BY DEF TypeInv
  <2> QED
    BY <1>0, <1>a, <1>4, <2>1, <2>2 DEF PeerInv, Finishing, Finished
<1>9. DiskInv'
  BY <1>0, <1>a, <1>r, <1>1, ErrorDisk
<1> QED
  BY <1>5, <1>6, <1>7, <1>8, <1>9

(* A result that cannot be saved fails its run, whatever was recorded      *)
(* between the read and the write.                                         *)
LEMMA ResultNotPersistedPreserves ==
  ASSUME IInv, resultNotPersisted
  PROVE  IInv'
<1> USE DEF IInv
<1> DEFINE i == persistMu.run
           e == WithError([persistMu.image EXCEPT !.state = "failed"])
<1>0. /\ persistMu.op = "result" /\ persistMu' = Free /\ pc' = "cancelRest"
      /\ UNCHANGED <<saved, run, unreported, cancels, peers, stopped>>
      /\ canceled' = TRUE /\ current' = i + 1
      /\ faults < MaxFaults /\ faults' = faults + 1
  BY DEF resultNotPersisted, Fault, FaultsLeft
<1>a. stage' = "cancelRest" /\ persistMu'.op = "none"
  BY <1>0 DEF stage, Free
<1>r. i \in Runs /\ persistMu.image \in Experiment
  BY DEF TypeInv
<1>b. /\ [persistMu.image EXCEPT !.state = "failed"] \in Experiment
      /\ [persistMu.image EXCEPT !.state = "failed"].state = "failed"
  BY <1>r, RecordTypes DEF States, Experiment
<1>c. e \in Experiment /\ e.integrityError /\ e.state # "completed" /\ e.state # "queued"
  BY <1>b, ErrorFacts
<1>d. experiments' = [experiments EXCEPT ![i] = e]
  BY DEF resultNotPersisted
<1> HIDE DEF e
<1>1. ErrorRecorded(i, e)
  BY <1>c, <1>d DEF resultNotPersisted, ErrorRecorded
<1>4. /\ experiments' \in Seq(Experiment) /\ Repetitions' = Repetitions /\ Runs' = Runs
      /\ failedRunWrites' \in SUBSET Runs
      /\ hurt' \in [recorded : SUBSET Runs, dropped : SUBSET Runs]
      /\ \A j \in Runs : /\ experiments'[j].state = "completed" => experiments[j].state = "completed"
                         /\ experiments'[j].state = "queued" => experiments[j].state = "queued"
  BY <1>r, <1>c, <1>1, ErrorFrame
<1>5. TypeInv'
  <2>1. faults' \in 0 .. MaxFaults
    BY <1>0, BoundsAssumption DEF TypeInv
  <2>2. "cancelRest" \in Stages
    BY DEF Stages
  <2>3. current' \in 1 .. Repetitions + 1
    BY <1>0, <1>r, Shape
  <2> QED
    BY <1>0, <1>4, <2>1, <2>2, <2>3, FreeType DEF TypeInv, Repetitions
<1>6. ControlInv'
  BY <1>0, <1>a, <1>4 DEF ControlInv
<1>7. HandleInv'
  BY <1>0, <1>a, <1>4 DEF HandleInv, Started, Entering, Finishing, Finished
<1>8. PeerInv'
  <2>2. peers \subseteq Runs
    BY DEF TypeInv
  <2> QED
    BY <1>0, <1>a, <1>4, <2>2 DEF PeerInv, Entering, Finishing, Finished
<1>9. DiskInv'
  BY <1>0, <1>r, <1>c, <1>1, ErrorDisk
<1> QED
  BY <1>5, <1>6, <1>7, <1>8, <1>9
-----------------------------------------------------------------------------
(* Writes that succeed, and locks released without one.                    *)

(* The file of a run after a write of the image.                           *)
LEMMA SavedType ==
  ASSUME TypeInv, saved' = [saved EXCEPT ![persistMu.run] = persistMu.image]
  PROVE  /\ saved' \in [Runs -> Experiment]
         /\ saved'[persistMu.run] = persistMu.image
         /\ \A j \in Runs : j # persistMu.run => saved'[j] = saved[j]
BY DEF TypeInv

(* The image of a scheduler step reaches the disk.                         *)
LEMMA UpdatePersistedPreserves ==
  ASSUME IInv, updatePersisted
  PROVE  IInv'
<1> USE DEF IInv
<1>0. /\ persistMu.op \in {"update", "result"} /\ pc = "writing" /\ stage = persistMu.next
      /\ persistMu' = Free /\ pc' = persistMu.next
      /\ persistMu.next \in {"next", "begin", "enter", "result", "advance", "cancelRest"}
      /\ saved' = [saved EXCEPT ![persistMu.run] = persistMu.image]
      /\ UNCHANGED <<experiments, failedRunWrites, unreported, canceled, cancels, peers, current,
                     run, faults, stopped, hurt>>
  BY DEF updatePersisted, stage, ControlInv
<1>a. pc' # "writing" /\ stage' = stage /\ persistMu'.op = "none"
  BY <1>0 DEF stage, Free
<1>b. Runs' = Runs /\ Repetitions' = Repetitions
  BY <1>0 DEF Runs, Repetitions
<1>1. /\ saved' \in [Runs -> Experiment]
      /\ saved'[persistMu.run] = persistMu.image
      /\ \A j \in Runs : j # persistMu.run => saved'[j] = saved[j]
  BY <1>0, SavedType
<1>2. TypeInv'
  <2>1. pc' \in Stages
    BY <1>0 DEF TypeInv
  <2> QED
    BY <1>0, <1>b, <1>1, <2>1, FreeType DEF TypeInv
<1>3. ControlInv'
  BY <1>0, <1>a, <1>b DEF ControlInv
<1>4. HandleInv'
  BY <1>0, <1>a, <1>b DEF HandleInv, Finishing
<1>5. PeerInv'
  BY <1>0, <1>a, <1>b DEF PeerInv, Finishing
<1>6. DiskInv'
  BY <1>0, <1>a, <1>b, <1>1 DEF DiskInv
<1> QED
  BY <1>2, <1>3, <1>4, <1>5, <1>6

(* A retried write takes its run off the list, with the error on disk.     *)
LEMMA RetryPersistedPreserves ==
  ASSUME IInv, retryPersisted
  PROVE  IInv'
<1> USE DEF IInv
<1>0. /\ persistMu.op = "retry" /\ persistMu' = Free
      /\ saved' = [saved EXCEPT ![persistMu.run] = persistMu.image]
      /\ failedRunWrites' = failedRunWrites \ {persistMu.run}
      /\ UNCHANGED <<experiments, pc, current, run, unreported, canceled, cancels, peers, faults,
                     stopped, hurt>>
  BY DEF retryPersisted, schedVars
<1>a. pc # "writing" /\ stage' = stage /\ persistMu'.op = "none"
  BY <1>0 DEF stage, Free, ControlInv
<1>b. Runs' = Runs /\ Repetitions' = Repetitions
  BY <1>0 DEF Runs, Repetitions
<1>1. /\ saved' \in [Runs -> Experiment]
      /\ saved'[persistMu.run] = persistMu.image
      /\ \A j \in Runs : j # persistMu.run => saved'[j] = saved[j]
  BY <1>0, SavedType
<1>2. TypeInv'
  BY <1>0, <1>b, <1>1, FreeType DEF TypeInv
<1>3. ControlInv'
  BY <1>0, <1>a, <1>b DEF ControlInv
<1>4. HandleInv'
  BY <1>0, <1>a, <1>b DEF HandleInv
<1>5. PeerInv'
  BY <1>0, <1>a, <1>b DEF PeerInv
<1>6. DiskInv'
  BY <1>0, <1>a, <1>b, <1>1 DEF DiskInv
<1> QED
  BY <1>2, <1>3, <1>4, <1>5, <1>6

(* A retry that fails leaves everything for the next one.                  *)
LEMMA RetryFailsPreserves ==
  ASSUME IInv, retryFails
  PROVE  IInv'
<1> USE DEF IInv
<1>0. /\ persistMu.op = "retry" /\ persistMu' = Free
      /\ faults < MaxFaults /\ faults' = faults + 1
      /\ UNCHANGED <<experiments, saved, failedRunWrites, pc, current, run, unreported, canceled,
                     cancels, peers, stopped, hurt>>
  BY DEF retryFails, schedVars, Fault, FaultsLeft
<1>a. pc # "writing" /\ stage' = stage /\ persistMu'.op = "none"
  BY <1>0 DEF stage, Free, ControlInv
<1>b. Runs' = Runs /\ Repetitions' = Repetitions
  BY <1>0 DEF Runs, Repetitions
<1>2. TypeInv'
  <2>1. faults' \in 0 .. MaxFaults
    BY <1>0, BoundsAssumption DEF TypeInv
  <2> QED
    BY <1>0, <1>b, <2>1, FreeType DEF TypeInv
<1>3. ControlInv'
  BY <1>0, <1>a, <1>b DEF ControlInv
<1>4. HandleInv'
  BY <1>0, <1>a, <1>b DEF HandleInv
<1>5. PeerInv'
  BY <1>0, <1>a, <1>b DEF PeerInv
<1>6. DiskInv'
  BY <1>0, <1>a, <1>b DEF DiskInv
<1> QED
  BY <1>2, <1>3, <1>4, <1>5, <1>6

(* A join that fails fails the run.                                        *)
LEMMA RememberFailsPreserves ==
  ASSUME IInv, rememberFails
  PROVE  IInv'
<1> USE DEF IInv
<1>0. /\ persistMu.op = "remember" /\ persistMu' = Free /\ pc = "running" /\ pc' = "retire"
      /\ faults < MaxFaults /\ faults' = faults + 1
      /\ run' = [run EXCEPT !.err = "failed"]
      /\ UNCHANGED <<experiments, saved, failedRunWrites, current, unreported, canceled,
                     cancels, peers, stopped, hurt>>
  BY DEF rememberFails, ControlInv, Fault, FaultsLeft
<1>a. stage = "running" /\ stage' = "retire" /\ persistMu'.op = "none"
  BY <1>0 DEF stage, Free
<1>b. Runs' = Runs /\ Repetitions' = Repetitions
  BY <1>0 DEF Runs, Repetitions
<1>2. TypeInv'
  <2>1. faults' \in 0 .. MaxFaults
    BY <1>0, BoundsAssumption DEF TypeInv
  <2>2. run' \in RunLocals
    <3>1. run \in RunLocals
      BY DEF TypeInv
    <3> QED BY <1>0, <3>1 DEF RunLocals
  <2>3. "retire" \in Stages
    BY DEF Stages, Started
  <2> QED
    BY <1>0, <1>b, <2>1, <2>2, <2>3, FreeType DEF TypeInv
<1>3. ControlInv'
  BY <1>0, <1>a, <1>b DEF ControlInv
<1>4. HandleInv'
  BY <1>0, <1>a, <1>b DEF HandleInv, Started, Entering, Finishing, Finished
<1>5. PeerInv'
  BY <1>0, <1>a, <1>b DEF PeerInv, Entering, Finishing, Finished
<1>6. DiskInv'
  BY <1>0, <1>a, <1>b DEF DiskInv
<1> QED
  BY <1>2, <1>3, <1>4, <1>5, <1>6

(* A join puts the record back as it was read; what it drops that way is   *)
(* remembered in hurt.dropped.                                             *)
LEMMA AgentRememberedPreserves ==
  ASSUME IInv, agentRemembered
  PROVE  IInv'
<1> USE DEF IInv
<1> DEFINE i == persistMu.run
<1>0. /\ persistMu.op = "remember" /\ persistMu' = Free /\ pc = "running" /\ i = current
      /\ saved' = [saved EXCEPT ![persistMu.run] = persistMu.image]
      /\ experiments' = [experiments EXCEPT ![i] = persistMu.image]
      /\ peers' = peers \cup {i}
      /\ UNCHANGED <<failedRunWrites, pc, current, run, unreported, canceled, cancels, faults,
                     stopped>>
  BY DEF agentRemembered, schedVars, ControlInv
<1>r. i \in Runs /\ persistMu.image \in Experiment /\ hurt \in [recorded : SUBSET Runs, dropped : SUBSET Runs]
  BY DEF TypeInv
<1>a. stage = "running" /\ stage' = "running" /\ persistMu'.op = "none"
  BY <1>0 DEF stage, Free
<1>1. /\ saved' \in [Runs -> Experiment]
      /\ saved'[i] = persistMu.image
      /\ \A j \in Runs : j # i => saved'[j] = saved[j]
  BY <1>0, SavedType
<1>2. /\ experiments' \in Seq(Experiment)
      /\ Repetitions' = Repetitions /\ Runs' = Runs
      /\ experiments'[i] = persistMu.image
      /\ \A j \in Runs : j # i => experiments'[j] = experiments[j]
  BY <1>0, <1>r, ReplaceOne
<1>3. /\ hurt' \in [recorded : SUBSET Runs, dropped : SUBSET Runs]
      /\ hurt'.recorded = hurt.recorded /\ hurt.dropped \subseteq hurt'.dropped
      /\ experiments[i].integrityError /\ ~persistMu.image.integrityError => i \in hurt'.dropped
  <2>1. CASE experiments[i].integrityError /\ ~persistMu.image.integrityError
    <3>1. hurt' = [hurt EXCEPT !.dropped = hurt.dropped \cup {i}]
      BY <2>1 DEF agentRemembered
    <3> QED BY <1>r, <3>1
  <2>2. CASE ~(experiments[i].integrityError /\ ~persistMu.image.integrityError)
    BY <1>r, <2>2 DEF agentRemembered
  <2> QED BY <2>1, <2>2
<1>4. persistMu.image.state \notin {"completed", "queued"}
  BY <1>0 DEF HandleInv
<1>5. peers \subseteq {current} /\ current \notin stopped.waiting
  BY <1>0, <1>a DEF PeerInv
<1>6. TypeInv'
  <2>1. peers' \in SUBSET Runs
    BY <1>0, <1>r DEF TypeInv
  <2> QED
    BY <1>0, <1>1, <1>2, <1>3, <2>1, FreeType DEF TypeInv, Repetitions
<1>7. ControlInv'
  BY <1>0, <1>a, <1>2 DEF ControlInv
<1>8. HandleInv'
  BY <1>0, <1>a, <1>2, <1>4 DEF HandleInv, Started, Entering, Finishing, Finished
<1>9. PeerInv'
  <2>1. peers' = {current}
    BY <1>0, <1>5
  <2> QED
    BY <1>0, <1>r, <1>a, <1>2, <1>4, <1>5, <2>1 DEF PeerInv, Entering, Finishing, Finished
<1>10. DiskInv'
  <2>1. hurt.recorded \subseteq Runs
    BY <1>r
  <2>2. \A j \in hurt'.recorded \ hurt'.dropped : experiments'[j].integrityError
    BY <1>2, <1>3, <2>1 DEF DiskInv
  <2>3. failedRunWrites' \subseteq hurt'.recorded
    BY <1>0, <1>3 DEF DiskInv
  <2>4. \A j \in Runs' \ hurt'.dropped : experiments'[j].integrityError =>
          saved'[j].integrityError \/ j \in failedRunWrites'
    BY <1>0, <1>1, <1>2, <1>3 DEF DiskInv
  <2> QED
    BY <1>0, <1>a, <2>2, <2>3, <2>4 DEF DiskInv
<1> QED
  BY <1>6, <1>7, <1>8, <1>9, <1>10
-----------------------------------------------------------------------------
(* Steps that read a record under persistMu and begin to write it.         *)

(* A join reads the record of the running iteration, which has its handle  *)
(* and so is not completed.                                                *)
LEMMA RememberPreserves ==
  ASSUME IInv, rememberRunAgent
  PROVE  IInv'
<1> USE DEF IInv
<1> DEFINE image == [experiments[current] EXCEPT !.agents = @ + 1]
<1>0. /\ pc = "running" /\ persistMu.op = "none" /\ experiments[current].agents < MaxAgents
      /\ persistMu' = [op |-> "remember", run |-> current, next |-> "running", image |-> image]
      /\ UNCHANGED <<experiments, saved, failedRunWrites, pc, current, run, unreported, canceled,
                     cancels, peers, faults, stopped, hurt>>
  BY DEF rememberRunAgent, schedVars
<1>a. stage = "running" /\ stage' = "running" /\ current \in Runs
  BY <1>0 DEF stage, ControlInv
<1>b. Runs' = Runs /\ Repetitions' = Repetitions
  BY <1>0 DEF Runs, Repetitions
<1>1. image \in Experiment /\ image.state = experiments[current].state
  <2>1. experiments[current] \in Experiment
    BY <1>a, Shape
  <2> QED BY <1>0, <2>1, RecordTypes DEF Experiment
<1>2. experiments[current].state \notin {"completed", "queued"}
  <2>1. current \in current .. Repetitions
    BY <1>a, Shape
  <2>2. current \in cancels
    BY <1>a, <2>1 DEF HandleInv, Started
  <2> QED BY <1>a, <2>2 DEF HandleInv, PeerInv
<1> HIDE DEF image
<1>3. persistMu' \in [op : {"none", "update", "result", "remember", "retry"}, run : Runs,
                      image : Experiment, next : Stages]
  BY <1>0, <1>a, <1>1 DEF Stages, Started
<1>4. TypeInv'
  BY <1>0, <1>b, <1>3 DEF TypeInv
<1>5. ControlInv'
  BY <1>0, <1>a, <1>b DEF ControlInv
<1>6. HandleInv'
  BY <1>0, <1>a, <1>b, <1>1, <1>2 DEF HandleInv
<1>7. PeerInv'
  BY <1>0, <1>a, <1>b DEF PeerInv
<1>8. DiskInv'
  BY <1>0, <1>a, <1>b DEF DiskInv
<1> QED
  BY <1>4, <1>5, <1>6, <1>7, <1>8

(* A retry reads a listed record, with its error unless a join dropped it. *)
LEMMA RetryPreserves ==
  ASSUME IInv, NEW i \in Runs, retryFailedRunWrites(i)
  PROVE  IInv'
<1> USE DEF IInv
<1>0. /\ persistMu.op = "none" /\ i \in failedRunWrites
      /\ persistMu' = [op |-> "retry", run |-> i, image |-> experiments[i], next |-> pc]
      /\ UNCHANGED <<experiments, saved, failedRunWrites, pc, current, run, unreported, canceled,
                     cancels, peers, faults, stopped, hurt>>
  BY DEF retryFailedRunWrites, schedVars
<1>a. pc # "writing" /\ stage' = stage
  BY <1>0 DEF stage, ControlInv
<1>b. Runs' = Runs /\ Repetitions' = Repetitions
  BY <1>0 DEF Runs, Repetitions
<1>3. persistMu' \in [op : {"none", "update", "result", "remember", "retry"}, run : Runs,
                      image : Experiment, next : Stages]
  <2>1. pc \in Stages /\ experiments[i] \in Experiment
    BY <1>a, Shape DEF TypeInv
  <2> QED BY <1>0, <2>1
<1>4. TypeInv'
  BY <1>0, <1>b, <1>3 DEF TypeInv
<1>5. ControlInv'
  BY <1>0, <1>a, <1>b DEF ControlInv
<1>6. HandleInv'
  BY <1>0, <1>a, <1>b DEF HandleInv
<1>7. PeerInv'
  BY <1>0, <1>a, <1>b DEF PeerInv
<1>8. DiskInv'
  BY <1>0, <1>a, <1>b DEF DiskInv
<1> QED
  BY <1>4, <1>5, <1>6, <1>7, <1>8

(* The batch goes on after a completed run only, whose cleanup has removed *)
(* the Peers of a repeated run.                                            *)
LEMMA CheckResultPreserves ==
  ASSUME IInv, checkResult
  PROVE  IInv'
<1> USE DEF IInv
<1> DEFINE done == experiments[current].state = "completed"
           next == IF done THEN "advance" ELSE "cancelRest"
<1>0. /\ pc = "result" /\ persistMu.op = "none" /\ stage = "result"
      /\ \/ /\ Repetitions > 1
            /\ persistMu' = [op |-> "result", run |-> current, image |-> experiments[current],
                             next |-> next]
            /\ pc' = "writing"
         \/ persistMu' = persistMu /\ pc' = next
      /\ current' = IF done THEN current ELSE current + 1
      /\ canceled' = (canceled \/ ~done)
      /\ UNCHANGED <<experiments, saved, failedRunWrites, run, unreported, cancels, peers, faults,
                     stopped, hurt>>
  BY DEF checkResult, stage
<1>a. stage' = next /\ current \in Runs
  BY <1>0 DEF stage, ControlInv
<1>b. Runs' = Runs /\ Repetitions' = Repetitions
  BY <1>0 DEF Runs, Repetitions
<1>3. persistMu' \in [op : {"none", "update", "result", "remember", "retry"}, run : Runs,
                      image : Experiment, next : Stages]
  <2>1. next \in Stages /\ experiments[current] \in Experiment
    BY <1>a, Shape DEF Stages, Finished
  <2>2. CASE persistMu' = persistMu
    BY <2>2 DEF TypeInv
  <2>3. CASE persistMu' # persistMu
    BY <1>0, <1>a, <2>1, <2>3
  <2> QED BY <2>2, <2>3
<1>4. TypeInv'
  <2>1. pc' \in Stages \cup {"writing"} /\ current' \in 1 .. Repetitions + 1
    BY <1>0, <1>a, Shape DEF Stages, Finished
  <2>2. canceled' \in BOOLEAN
    BY <1>0
  <2> QED
    BY <1>0, <1>b, <1>3, <2>1, <2>2 DEF TypeInv
<1>5. ControlInv'
  BY <1>0, <1>a, <1>b DEF ControlInv
<1>6. HandleInv'
  <2>0. canceled => canceled'
    BY <1>0
  <2>1. /\ persistMu'.op # "remember" /\ pc' \notin Finishing
        /\ stage' \in Finishing \cup Finished => current' = current
    <3>1. persistMu'.op # "remember" /\ pc' \in {"writing", "advance", "cancelRest"}
      BY <1>0
    <3>2. stage' \in Finishing \cup Finished => current' = current
      BY <1>0, <1>a DEF Finishing, Finished
    <3> QED BY <3>1, <3>2 DEF Finishing
  <2>2. stage' \notin Started
    BY <1>a DEF Started, Entering
  <2>3. stage \in Finishing \cup Finished
    BY <1>0 DEF Finished
  <2> QED
    BY <1>0, <1>b, <2>0, <2>1, <2>2, <2>3 DEF HandleInv
<1>7. PeerInv'
  BY <1>0, <1>a, <1>b DEF PeerInv, Entering, Finishing, Finished
<1>8. DiskInv'
  <2>1. CASE persistMu' = persistMu
    BY <1>0, <1>b, <2>1 DEF DiskInv
  <2>2. CASE persistMu' # persistMu
    BY <1>0, <1>b, <2>2 DEF DiskInv
  <2> QED BY <2>1, <2>2
<1> QED
  BY <1>4, <1>5, <1>6, <1>7, <1>8
-----------------------------------------------------------------------------
(* An accepted stop: it marks records but completes and requeues none, and *)
(* finds no handle of a run that is being finalized.                       *)
LEMMA StopPreserves ==
  ASSUME IInv, NEW i \in Runs, StopScenario(i)
  PROVE  IInv'
<1> USE DEF IInv
<1> DEFINE open == {j \in Runs : experiments[j].state \in {"running", "queued"}}
           marked == [j \in Runs |-> IF j \in open
                       THEN [experiments[j] EXCEPT !.stopRequested = TRUE] ELSE experiments[j]]
<1>0. /\ Cancellable(i) /\ experiments' = marked /\ canceled' = TRUE
      /\ stopped'.cancelable = stopped.cancelable \cup
                                (IF Repetitions <= 1 THEN {i} ELSE cancels \cap open)
      /\ stopped'.waiting = stopped.waiting \cup
                             {j \in Runs : experiments[j].state = "queued"}
      /\ stopped' = [cancelable |-> stopped'.cancelable, waiting |-> stopped'.waiting]
      /\ UNCHANGED <<saved, failedRunWrites, persistMu, pc, current, run, unreported, cancels,
                     peers, faults, hurt>>
  BY DEF StopScenario, schedVars
<1>s. /\ Repetitions \in Nat \ {0} /\ Runs = 1 .. Repetitions
      /\ \A j \in Runs : experiments[j] \in Experiment
  BY Shape
<1>1. experiments' \in [Runs -> Experiment]
  BY <1>0, <1>s, RecordTypes
<1>2. /\ experiments' \in Seq(Experiment)
      /\ Repetitions' = Repetitions /\ Runs' = Runs
  BY <1>1, ReplaceAll
<1>3. \A j \in Runs : /\ experiments'[j].state = experiments[j].state
                      /\ experiments'[j].integrityError = experiments[j].integrityError
  BY <1>0, <1>s DEF Experiment
<1>4. stopped'.cancelable \subseteq stopped.cancelable \cup cancels
  BY <1>0, <1>s DEF Cancellable
<1>5. stage' = stage
  BY <1>0 DEF stage
<1> HIDE DEF marked
<1>6. TypeInv'
  <2>1. stopped.cancelable \subseteq Runs /\ stopped.waiting \subseteq Runs /\ cancels \subseteq Runs
    BY DEF TypeInv
  <2>2. stopped' \in [cancelable : SUBSET Runs, waiting : SUBSET Runs]
    BY <1>0, <1>4, <2>1
  <2> QED
    BY <1>0, <1>2, <2>2 DEF TypeInv, Repetitions
<1>7. ControlInv'
  BY <1>0, <1>2, <1>5 DEF ControlInv
<1>8. HandleInv'
  <2>1. \A j \in Runs : experiments'[j].state = "completed" => j \notin cancels /\ j \notin stopped'.cancelable
    BY <1>3, <1>4 DEF HandleInv
  <2>2. pc \in Finishing /\ current \in stopped'.cancelable => run.err = "canceled"
    <3>1. pc \in Finishing => stage = pc
      BY DEF stage, Finishing
    <3> QED BY <1>4, <3>1 DEF HandleInv
  <2> QED
    BY <1>0, <1>2, <1>5, <2>1, <2>2 DEF HandleInv
<1>9. PeerInv'
  <2>1. stage \notin {"cancelRest", "done"} => current \in Runs
    BY DEF ControlInv
  <2>2. pc = "running" => stage = "running"
    BY DEF stage
  <2>3. peers \subseteq Runs
    BY DEF TypeInv
  <2>4. \A j \in peers : experiments'[j].state # "queued" /\ j \notin stopped'.waiting
    BY <1>0, <1>3, <2>3 DEF PeerInv
  <2>5. pc = "running" => current \notin stopped'.waiting
    BY <1>0, <2>1, <2>2 DEF PeerInv
  <2>6. stage \in {"begin", "enter", "running", "retire"} \cup Finishing \cup Finished =>
          current \in Runs /\ experiments'[current].state # "queued"
    BY <1>3, <2>1 DEF PeerInv, Finishing, Finished
  <2>7. stage = "result" => experiments'[current].state = experiments[current].state
    BY <1>3, <2>1
  <2> QED
    BY <1>0, <1>2, <1>5, <2>4, <2>5, <2>6, <2>7 DEF PeerInv
<1>10. DiskInv'
  <2>1. hurt.recorded \subseteq Runs /\ persistMu.run \in Runs
    BY DEF TypeInv
  <2>2. \A j \in hurt.recorded \ hurt.dropped : experiments'[j].integrityError
    BY <1>3, <2>1 DEF DiskInv
  <2>3. \A j \in Runs \ hurt.dropped : experiments'[j].integrityError =>
       \/ saved[j].integrityError
       \/ j \in failedRunWrites
       \/ pc = "writing" /\ persistMu.run = j /\ persistMu.image.integrityError
    BY <1>3 DEF DiskInv
  <2> QED
    BY <1>0, <1>2, <1>3, <2>1, <2>2, <2>3 DEF DiskInv
<1> QED
  BY <1>6, <1>7, <1>8, <1>9, <1>10
-----------------------------------------------------------------------------
(* The invariant holds in the initial states.                              *)
LEMMA InitImplies == Init => IInv
<1> SUFFICES ASSUME Init
             PROVE  IInv
  OBVIOUS
<1>0. PICK count \in 1 .. MaxRepetitions : experiments = [i \in 1 .. count |-> Queued]
  BY DEF Init
<1>1. count \in Nat \ {0}
  BY <1>0, RepetitionsAssumption
<1>2. Queued \in Experiment /\ Queued.state = "queued" /\ ~Queued.integrityError
  BY BoundsAssumption DEF Queued, Experiment, States, DataStates
<1>3. /\ experiments \in Seq(Experiment) /\ Len(experiments) = count /\ Runs = 1 .. count
      /\ Repetitions = count /\ experiments \in [Runs -> Experiment]
  <2>1. experiments \in [1 .. count -> Experiment]
    BY <1>0, <1>2
  <2> QED
    BY <1>1, <2>1, SeqDef, LenProperties DEF Runs, Repetitions
<1>4. /\ saved = experiments /\ failedRunWrites = {} /\ persistMu = Free /\ unreported = {}
      /\ canceled = FALSE /\ cancels = Runs /\ peers = {} /\ pc = "admit" /\ current = 1
      /\ run = NoErrors /\ faults = 0
      /\ stopped = [cancelable |-> {}, waiting |-> {}]
      /\ hurt = [recorded |-> {}, dropped |-> {}]
  BY DEF Init
<1>5. stage = "admit" /\ persistMu.op = "none"
  BY <1>4 DEF stage, Free
<1>6. \A i \in Runs : experiments[i] = Queued
  BY <1>0, <1>3
<1>7. TypeInv
  <2>1. Free \in [op : {"none", "update", "result", "remember", "retry"}, run : Runs,
                  image : Experiment, next : Stages]
    BY <1>1, <1>2, <1>3 DEF Free, Stages, Started, Entering
  <2>2. NoErrors \in RunLocals
    BY DEF NoErrors, RunLocals
  <2>3. "admit" \in Stages /\ 0 \in 0 .. MaxFaults /\ 1 \in 1 .. Repetitions + 1
    BY <1>1, <1>3, BoundsAssumption DEF Stages, Started, Entering
  <2>4. Len(experiments) \in 1 .. MaxRepetitions
    BY <1>3
  <2> QED
    BY <1>3, <1>4, <2>1, <2>2, <2>3, <2>4 DEF TypeInv
<1>8. ControlInv
  BY <1>1, <1>3, <1>4, <1>5 DEF ControlInv
<1>9. HandleInv
  BY <1>2, <1>3, <1>4, <1>5, <1>6 DEF HandleInv, Finishing, Finished
<1>10. PeerInv
  <2>1. 1 \in Runs
    BY <1>1, <1>3
  <2> QED
    BY <1>4, <1>5, <2>1 DEF PeerInv, Finishing, Finished
<1>11. DiskInv
  BY <1>2, <1>4, <1>5, <1>6 DEF DiskInv
<1> QED
  BY <1>7, <1>8, <1>9, <1>10, <1>11 DEF IInv

(* Every step of the batch keeps the invariant.                            *)
LEMMA NextPreserves ==
  ASSUME IInv, [Next]_vars
  PROVE  IInv'
<1>1. CASE QuietStep
  BY <1>1, QuietPreserves
<1>2. CASE UpdateStep
  BY <1>2, UpdatePreserves
<1>3. CASE flushFails
  BY <1>3, FlushFailsPreserves
<1>4. CASE checkResult
  BY <1>4, CheckResultPreserves
<1>5. CASE WriteStep
  BY <1>5, UpdatePersistedPreserves, UpdateFailsPreserves, ResultNotPersistedPreserves,
     AgentRememberedPreserves, RememberFailsPreserves, RetryPersistedPreserves,
     RetryFailsPreserves DEF WriteStep
<1>6. CASE rememberRunAgent
  BY <1>6, RememberPreserves
<1>7. ASSUME NEW i \in Runs, StopScenario(i) \/ recordRunWriteError(i) \/ retryFailedRunWrites(i)
      PROVE  IInv'
  BY <1>7, StopPreserves, RecordErrorPreserves, RetryPreserves
<1>8. CASE UNCHANGED vars
  BY <1>8 DEF vars, recordVars, schedVars, IInv, TypeInv, ControlInv, HandleInv, PeerInv, DiskInv,
     stage, Runs, Repetitions
<1> QED
  BY <1>1, <1>2, <1>3, <1>4, <1>5, <1>6, <1>7, <1>8
     DEF Next, SchedulerStep, QuietStep, UpdateStep

(* The invariant of the batch.                                             *)
THEOREM Inductive == Spec => []IInv
<1>1. Init => IInv
  BY InitImplies
<1>2. IInv /\ [Next]_vars => IInv'
  BY NextPreserves
<1> QED
  BY <1>1, <1>2, PTL DEF Spec

(* Every variable keeps its type.                                          *)
THEOREM TypeCorrect == Spec => []TypeOK
<1>1. IInv => TypeOK
  <2> SUFFICES ASSUME IInv
               PROVE  TypeOK
    OBVIOUS
  <2>1. TypeInv /\ experiments \in [Runs -> Experiment]
    BY Shape DEF IInv
  <2> QED
    BY <2>1 DEF TypeOK, TypeInv, Repetitions, RunLocals
<1> QED
  BY <1>1, Inductive, PTL

(* A stop that found the handle of an unfinished run has won, however far  *)
(* the run was: retireHandle and StopScenario decide under cancelMu.       *)
THEOREM StopsWin == Spec => []StoppedRunsDoNotComplete
<1>1. IInv => StoppedRunsDoNotComplete
  BY DEF IInv, TypeInv, HandleInv, StoppedRunsDoNotComplete
<1> QED
  BY <1>1, Inductive, PTL

(* Iterations share neither the fleet nor an accepted stop.                *)
THEOREM NoOverlap == Spec => []IterationsDoNotOverlap
<1>1. IInv => IterationsDoNotOverlap
  <2> SUFFICES ASSUME IInv
               PROVE  IterationsDoNotOverlap
    OBVIOUS
  <2>1. PICK j \in Runs : peers \subseteq {j}
    BY DEF IInv, PeerInv
  <2>2. Cardinality(peers) <= 1
    <3>1. IsFiniteSet({j}) /\ Cardinality({j}) = 1
      BY FS_Singleton
    <3> QED BY <2>1, <3>1, FS_Subset
  <2>3. peers \cap stopped.waiting = {}
    BY DEF IInv, PeerInv
  <2> QED
    BY <2>2, <2>3 DEF IterationsDoNotOverlap, StoppedIterationsHaveNoPeers, OneRunAtATime
<1> QED
  BY <1>1, Inductive, PTL

(* A recorded error that no join dropped is on disk when the scheduler has *)
(* exited, or on the list of writes to repeat.                             *)
THEOREM ErrorsReachTheDisk == Spec => []RecordedErrorsReachTheDisk
<1>1. IInv => RecordedErrorsReachTheDisk
  BY DEF IInv, DiskInv, RecordedErrorsReachTheDisk
<1> QED
  BY <1>1, Inductive, PTL
=============================================================================
