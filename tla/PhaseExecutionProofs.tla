------------------------- MODULE PhaseExecutionProofs -------------------------
(***************************************************************************)
(* Proofs about PhaseExecution, for every set of plans, Agents and Peers:  *)
(* a valid scenario only names jobs that exist, the result of a run tells  *)
(* its failures, and a stop-all leaves nothing of an earlier generation.   *)
(***************************************************************************)
EXTENDS PhaseExecution, NaturalsInduction, WellFoundedInduction, TLAPS

-----------------------------------------------------------------------------
(* The inductive invariant.                                                *)

RunPcs    == {"loop", "phase", "exit", "stopJobs", "sample", "retire", "ended"}
ThreadPcs == {"idle", "top", "select", "work", "waiting", "ready", "stopJobs",
              "stopPeers", "refresh", "returned", "recorded", "done"}
Errors    == {"none", "failed", "canceled", "unknown", "duplicate"}
OpStates  == {"none", "todo", "placing", "placed", "calling", "backoff",
              "ok", "failed", "canceled"}
BusyOps   == {"placing", "placed", "calling", "backoff"}
Unsent    == {"todo", "placing", "placed", "backoff"}
Sent      == {"sent", "made", "full", "refused"}
NodeStates == {"none", "starting", "ready", "stopping", "stopped", "failed"}

ThreadType ==
  [pc : ThreadPcs, phase : Nat, gen : Nat, rep : Nat, canceled : BOOLEAN,
   ops : [Peers -> OpStates], goal : Agents \cup {NoGoal}, left : SUBSET (Agents \cup JobNames),
   stopped : SUBSET Agents, stopErr : BOOLEAN, err : Errors]

RequestType ==
  [st : {"none", "new"} \cup Sent, to : Agents \cup {NoGoal}, gen : Nat,
   group : {""} \cup {Phases[i].group : i \in DOMAIN Phases}]

RunType ==
  [pc : RunPcs, index : Nat \ {0}, gen : Nat, seq : Nat, err : Errors,
   cleanupErr : BOOLEAN, background : BOOLEAN]

AgentType == [fence : Nat, peers : SUBSET Peers, capacity : Nat, reported : Nat]

TypeInv ==
  /\ run \in RunType
  /\ thread \in [Threads -> ThreadType]
  /\ registered \subseteq JobNames
  /\ canceled \in BOOLEAN /\ stopRequested \in BOOLEAN
  /\ asyncErr \in BOOLEAN /\ broken \in BOOLEAN
  /\ nodes \in [Peers -> NodeStates]
  /\ reserved \in [Peers -> Agents \cup {NoGoal}]
  /\ participants \subseteq Agents
  /\ requests \in [Peers -> RequestType]
  /\ agents \in [Agents -> AgentType]
  /\ faults \in Nat

(* What is known of the jobs when the first i phases were read.            *)
Reading(phases) ==
  LET read[i \in 0 .. Len(phases)] ==
        IF i = 0 THEN NothingRead ELSE readPhase(read[i - 1], phases[i])
  IN  read

KnownBefore(i) == Reading(Phases)[i - 1].known

PhaseNumbers(p) ==
  p.job \in Nat \ {0} /\ p.repeat \in Int /\ p.count \in Int /\ p.await \in BOOLEAN

(* The plan is valid, phase by phase.                                      *)
PlanInv ==
  /\ Len(Phases) \in Nat /\ DOMAIN Phases = 1 .. Len(Phases)
  /\ \A i \in DOMAIN Phases : PhaseNumbers(Phases[i])
  /\ Reading(Phases)[0] = NothingRead
  /\ \A i \in DOMAIN Phases :
       /\ Reading(Phases)[i] = readPhase(Reading(Phases)[i - 1], Phases[i])
       /\ Reading(Phases)[i].ok
  /\ plan.onExit \in {"cancel", "drain"}

(* An Agent is behind the fence of the current generation, and empty.      *)
Fenced(a) == agents[a].fence >= run.gen /\ agents[a].peers = {}

(* The generation is over: no job is left, no Agent has a Peer.            *)
Swept == registered = {} /\ \A a \in cleanupParticipants : Fenced(a)

Live(x)    == x.pc \notin {"idle", "done"}
Action(x)  == Phases[x.phase].action
HasOp(x, states) == \E q \in Peers : x.ops[q] \in states

(* A thread that still carries a failure to its result.                    *)
Failing(x) ==
  \/ x.pc = "work" /\ HasOp(x, {"failed"})
  \/ x.pc = "returned" /\ x.err = "failed"

(* Where a thread can be in the phase it executes.                         *)
PlaceInv(t, x) ==
  /\ x.pc = "idle" => x.ops = NoOps /\ x.err = "none"
  /\ x.pc # "idle" => x.phase \in DOMAIN Phases
  /\ Live(x) => x.gen = run.gen
  /\ x.pc \in {"work", "select"} => Action(x) \in Operations
  /\ x.pc \in {"waiting", "ready"} => Action(x) \in Waits
  /\ x.pc = "waiting" => x.left \subseteq registered
  /\ x.pc \in {"stopJobs", "stopPeers", "refresh"} => Action(x) = "stop-all"
  /\ x.err # "none" => x.pc \in {"returned", "recorded", "done"}
  /\ x.err \notin {"unknown", "duplicate"}

(* A job is in the background and known as long as it runs.                *)
JobInv(t, x) ==
  /\ x.pc \in {"idle", "top", "select", "work", "returned", "recorded", "done"}
  /\ Live(x) => t \in registered /\ ~ShouldAwait(Phases[x.phase])

(* The scheduler's own thread executes the phase it has reached.           *)
MainInv(x) ==
  /\ x.pc \notin {"recorded", "done"}
  /\ ~x.canceled
  /\ run.pc = "phase" <=> x.pc # "idle"
  /\ x.pc # "idle" => x.phase = run.index /\ ShouldAwait(Phases[x.phase])

(* How far stop-all has come.                                              *)
StopInv(x) ==
  x.pc # "idle" /\ Action(x) = "stop-all" =>
    /\ x.pc \in {"top", "stopJobs"} => x.stopped = {}
    /\ x.pc = "top" /\ x.rep # 0 => Swept
    /\ x.pc = "returned" /\ x.err = "none" => Swept
    /\ x.pc \in {"stopPeers", "refresh"} =>
         /\ registered = {}
         /\ \A a \in x.stopped : Fenced(a)
         /\ x.stopErr \/ cleanupParticipants \subseteq x.left \cup x.stopped
    /\ x.pc = "refresh" => x.left = {}

(* A request of the current generation that has yet to be sent.            *)
Unused(x, q) == requests[q].st = "new" /\ (Live(x) => requests[q].gen = run.gen)

(* An operation of a join belongs to a request that was not sent before.   *)
OpsInv(x) ==
  \A q \in Peers :
    /\ x.ops[q] \in BusyOps => x.pc = "work"
    /\ x.ops[q] # "none" => q <= run.seq
    /\ x.ops[q] \in {"placing", "placed", "backoff"} => Action(x) = "join"
    /\ x.ops[q] \in Unsent /\ Action(x) = "join" => Unused(x, q)
    /\ x.ops[q] = "calling" /\ Action(x) = "join" => requests[q].gen = run.gen
    /\ x.ops[q] = "placed" => reserved[q] \in Agents

(* A cancellation has a reason: a failure beside it, or the context.       *)
CancelInv(t, x) ==
  /\ x.err = "canceled" => canceled \/ x.canceled
  /\ x.pc \in {"select", "work"} /\ HasOp(x, {"canceled"}) =>
       HasOp(x, {"failed"}) \/ canceled \/ x.canceled
  /\ t \in registered /\ x.canceled =>
       run.pc # "loop" /\ (run.pc = "phase" => Phases[run.index].action = "stop-all")

FlowInv(t, x) ==
  /\ PlaceInv(t, x)
  /\ t # Main => JobInv(t, x)
  /\ t = Main => MainInv(x) /\ StopInv(x)
  /\ CancelInv(t, x)

Local(t, x) == FlowInv(t, x) /\ OpsInv(x)

Joining(x, q) == x.ops[q] # "none" /\ Action(x) = "join"

(* A Peer is joined by one thread.                                         *)
PairInv ==
  \A t, u \in Threads : \A q \in Peers :
    Joining(thread[t], q) /\ Joining(thread[u], q) => t = u

RequestInv ==
  \A q \in Peers :
    /\ q > run.seq => requests[q] = NoRequest /\ nodes[q] = "none"
    /\ requests[q].gen <= run.gen
    /\ requests[q].st \in Sent => requests[q].to \in participants
    /\ requests[q].st = "sent" /\ requests[q].gen < run.gen =>
         requests[q].gen <= agents[requests[q].to].fence

AgentInv ==
  \A a \in Agents : \A q \in agents[a].peers :
    /\ requests[q].st = "made" /\ requests[q].to = a
    /\ requests[q].gen = run.gen

(* The scheduler: where it is, and what it knows.                          *)
RunInv ==
  /\ run.pc \in {"loop", "phase"} => run.err = "none" /\ ~run.cleanupErr
  /\ run.pc = "loop" => run.index \in 1 .. Len(Phases) + 1
  /\ run.pc = "loop" => registered = KnownBefore(run.index)
  /\ run.pc = "phase" /\ Phases[run.index].action # "stop-all" =>
       registered = KnownBefore(run.index)
  /\ run.err \notin {"unknown", "duplicate"}

NoJobRuns == \A j \in JobNames : ~Live(thread[j])

(* What the end of the run is told of the failures.                        *)
FailureInv ==
  /\ broken => \/ asyncErr \/ run.err = "failed" \/ run.cleanupErr \/ stopRequested
               \/ \E t \in Threads : Failing(thread[t])
  /\ run.pc = "exit" /\ run.err = "none" /\ plan.onExit = "drain" => NoJobRuns
  /\ run.pc \in {"sample", "retire", "ended"} /\ ~run.cleanupErr => NoJobRuns
  /\ run.pc = "retire" /\ asyncErr => run.background \/ run.cleanupErr
  /\ run.pc = "ended" /\ broken => run.err = "failed" \/ run.cleanupErr \/ stopRequested
  /\ run.pc \in {"loop", "phase", "exit"} /\ canceled => stopRequested \/ asyncErr
  /\ run.pc \in {"exit", "stopJobs", "sample"} /\ run.err = "canceled" => stopRequested \/ asyncErr
  /\ run.pc = "retire" /\ run.err = "canceled" => stopRequested \/ run.background
  /\ run.pc = "ended" /\ run.err = "canceled" => stopRequested

IInv ==
  /\ TypeInv
  /\ PlanInv
  /\ \A t \in Threads : Local(t, thread[t])
  /\ PairInv
  /\ RequestInv
  /\ AgentInv
  /\ RunInv
  /\ FailureInv

-----------------------------------------------------------------------------
(* Reading the phases.                                                     *)

(* A set of numbers with zero and the successor of each member is Nat.     *)
LEMMA NumberInduction ==
  ASSUME NEW P \in SUBSET Nat, 0 \in P, \A n \in P : n + 1 \in P
  PROVE  P = Nat
<1> DEFINE R == {ss \in Nat \X Nat : ss[1] < ss[2]}
<1>1. IsWellFoundedOn(R, Nat)
  BY NatLessThanWellFounded DEF OpToRel
<1> SUFFICES ASSUME Nat \ P # {} PROVE FALSE
  OBVIOUS
<1>2. PICK n \in Nat \ P : \A m \in Nat \ P : << m, n >> \notin R
  BY <1>1, WFMin
<1>3. n # 0 /\ n - 1 \in Nat /\ n - 1 < n /\ (n - 1) + 1 = n
  BY <1>2
<1>4. n - 1 \in P
  <2>1. << n - 1, n >> \in Nat \X Nat /\ << n - 1, n >>[1] < << n - 1, n >>[2]
    BY <1>2, <1>3
  <2>2. << n - 1, n >> \in R
    BY <2>1
  <2> QED
    BY <1>2, <1>3, <2>2
<1> QED
  BY <1>2, <1>3, <1>4

(* The function that a fold over the first n phases goes through.          *)
Folding(f, phases, n) ==
  f = [s \in SUBSET (1 .. n) |->
         IF s = {} THEN NothingRead ELSE readPhase(f[s \ {Max(s)}], phases[Max(s)])]

(* The largest of a set of numbers up to n that has n is n.                *)
LEMMA MaxOfPrefix ==
  ASSUME NEW n \in Nat, NEW s \in SUBSET (1 .. n), n \in s
  PROVE  Max(s) = n
<1>1. n \in s /\ \A y \in s : n >= y
  OBVIOUS
<1>2. Max(s) \in s /\ \A y \in s : Max(s) >= y
  BY <1>1 DEF Max
<1>3. Max(s) \in 1 .. n /\ Max(s) >= n
  BY <1>2
<1> HIDE DEF Max
<1> QED
  BY <1>3

(* It exists: a longer prefix extends what a shorter one was read into.    *)
LEMMA FoldingExists ==
  ASSUME NEW phases, NEW n \in Nat
  PROVE  \E f : Folding(f, phases, n)
<1> DEFINE P == {k \in Nat : \E f : Folding(f, phases, k)}
<1>1. 0 \in P
  <2> DEFINE f == [s \in SUBSET (1 .. 0) |-> NothingRead]
  <2>1. \A s \in SUBSET (1 .. 0) : s = {}
    OBVIOUS
  <2>2. f = [s \in SUBSET (1 .. 0) |->
         IF s = {} THEN NothingRead ELSE readPhase(f[s \ {Max(s)}], phases[Max(s)])]
    BY <2>1
  <2> QED
    BY <2>2 DEF Folding
<1>2. ASSUME NEW k \in P PROVE k + 1 \in P
  <2> DEFINE S == SUBSET (1 .. k + 1)
  <2>1. PICK f : Folding(f, phases, k)
    BY <1>2
  <2>2. f = [s \in SUBSET (1 .. k) |->
         IF s = {} THEN NothingRead ELSE readPhase(f[s \ {Max(s)}], phases[Max(s)])]
    BY <2>1 DEF Folding
  <2> DEFINE g == [s \in S |-> IF k + 1 \in s THEN readPhase(f[s \ {k + 1}], phases[k + 1]) ELSE f[s]]
  <2>3. ASSUME NEW s \in S
        PROVE  g[s] = IF s = {} THEN NothingRead ELSE readPhase(g[s \ {Max(s)}], phases[Max(s)])
    <3>1. CASE k + 1 \in s
      <4>1. Max(s) = k + 1
        BY <3>1, MaxOfPrefix, k + 1 \in Nat
      <4>2. s \ {k + 1} \in S /\ k + 1 \notin s \ {k + 1}
        OBVIOUS
      <4>3. g[s \ {k + 1}] = f[s \ {k + 1}]
        BY <4>2
      <4>4. g[s] = readPhase(f[s \ {k + 1}], phases[k + 1])
        BY <3>1
      <4> QED
        BY <3>1, <4>1, <4>3, <4>4, Zenon
    <3>2. CASE k + 1 \notin s
      <4>1. s \in SUBSET (1 .. k)
        BY <3>2
      <4>2. g[s] = f[s]
        BY <3>2
      <4>3. f[s] = IF s = {} THEN NothingRead ELSE readPhase(f[s \ {Max(s)}], phases[Max(s)])
        BY <2>2, <4>1, Zenon
      <4>4. s \ {Max(s)} \in S /\ k + 1 \notin s \ {Max(s)}
        BY <3>2
      <4>5. g[s \ {Max(s)}] = f[s \ {Max(s)}]
        BY <4>4
      <4> QED
        BY <4>2, <4>3, <4>5, Zenon
    <3> QED
      BY <3>1, <3>2
  <2>4. g = [s \in S |-> IF s = {} THEN NothingRead ELSE readPhase(g[s \ {Max(s)}], phases[Max(s)])]
    BY <2>3
  <2>5. Folding(g, phases, k + 1)
    BY <2>4 DEF Folding
  <2> QED
    BY <2>5
<1>3. P = Nat
  <2> HIDE DEF P
  <2> QED
    BY <1>1, <1>2, NumberInduction DEF P
<1> QED
  BY <1>3

(* A phase is read without an objection if the earlier ones were and it is *)
(* well formed itself.                                                     *)
LEMMA ReadPhaseOk ==
  ASSUME NEW read, NEW p, readPhase(read, p).ok
  PROVE  read.ok /\ SettingsFit(p) /\ ActionFits(p) /\ WaitFits(read, p) /\ JobIsNew(read, p)
BY Zenon DEF readPhase

(* Reading goes phase by phase, and a fold reads the same.                 *)
LEMMA ReadingIsFold ==
  ASSUME NEW phases, NEW n \in Nat, Len(phases) = n, DOMAIN phases = 1 .. n
  PROVE  /\ Reading(phases)[0] = NothingRead
         /\ \A i \in 1 .. n : Reading(phases)[i] = readPhase(Reading(phases)[i - 1], phases[i])
         /\ FoldLeft(readPhase, NothingRead, phases) = Reading(phases)[n]
<1> DEFINE iter == CHOOSE f : Folding(f, phases, n)
<1>1. Folding(iter, phases, n)
  BY FoldingExists
<1>2. FoldLeft(readPhase, NothingRead, phases) = iter[1 .. n]
  BY DEF FoldLeft, MapThenFoldSet, Folding
<1> HIDE DEF iter
<1> DEFINE R == [i \in 0 .. n |-> iter[1 .. i]]
<1>3. iter[1 .. 0] = NothingRead
  <2>1. 1 .. 0 = {} /\ 1 .. 0 \in SUBSET (1 .. n)
    OBVIOUS
  <2> QED
    BY <1>1, <2>1 DEF Folding
<1>4. ASSUME NEW i \in 1 .. n
      PROVE  iter[1 .. i] = readPhase(iter[1 .. (i - 1)], phases[i])
  <2>1. i \in Nat /\ 1 .. i \in SUBSET (1 .. n) /\ 1 .. i # {} /\ i \in 1 .. i
    BY SMTT(30)
  <2>2. 1 .. i \in SUBSET (1 .. i)
    OBVIOUS
  <2>3. Max(1 .. i) = i
    BY <2>1, <2>2, MaxOfPrefix
  <2>4. (1 .. i) \ {i} = 1 .. (i - 1)
    OBVIOUS
  <2>5. iter[1 .. i] = readPhase(iter[(1 .. i) \ {Max(1 .. i)}], phases[Max(1 .. i)])
    BY <1>1, <2>1, Zenon DEF Folding
  <2> QED
    BY <2>3, <2>4, <2>5, Zenon
<1> DEFINE Eq(f) == f = [i \in 0 .. n |-> IF i = 0 THEN NothingRead ELSE readPhase(f[i - 1], phases[i])]
<1>5. Eq(R)
  <2>1. ASSUME NEW i \in 0 .. n
        PROVE  R[i] = IF i = 0 THEN NothingRead ELSE readPhase(R[i - 1], phases[i])
    <3>1. CASE i = 0
      BY <1>3, <3>1
    <3>2. CASE i # 0
      <4>1. i \in 1 .. n /\ i - 1 \in 0 .. n
        BY <3>2
      <4>2. R[i] = iter[1 .. i] /\ R[i - 1] = iter[1 .. (i - 1)]
        BY <4>1
      <4> QED
        BY <1>4, <3>2, <4>1, <4>2, Zenon
    <3> QED
      BY <3>1, <3>2
  <2> QED
    BY <2>1
<1>6. Reading(phases) = CHOOSE f : Eq(f)
  BY DEF Reading
<1>7. Eq(Reading(phases))
  <2> HIDE DEF Eq, R
  <2> QED
    BY <1>5, <1>6
<1> DEFINE Q == Reading(phases)
<1> HIDE DEF Q
<1>8. Eq(Q)
  BY <1>7 DEF Q
<1>9. Q[0] = NothingRead
  BY <1>8
<1>10. \A i \in 1 .. n : Q[i] = readPhase(Q[i - 1], phases[i])
  BY <1>8
<1>11. \A i \in 0 .. n : Q[i] = iter[1 .. i]
  <2> DEFINE P == {i \in Nat : i \in 0 .. n => Q[i] = iter[1 .. i]}
  <2>1. 0 \in P
    BY <1>3, <1>9
  <2>2. ASSUME NEW i \in P PROVE i + 1 \in P
    <3> SUFFICES ASSUME i + 1 \in 0 .. n PROVE Q[i + 1] = iter[1 .. i + 1]
      OBVIOUS
    <3>1. i + 1 \in 1 .. n /\ i \in 0 .. n /\ (i + 1) - 1 = i
      OBVIOUS
    <3>2. Q[i] = iter[1 .. i]
      BY <3>1
    <3> QED
      BY <1>4, <1>10, <3>1, <3>2, Zenon
  <2>3. P = Nat
    <3> HIDE DEF P
    <3> QED
      BY <2>1, <2>2, NumberInduction DEF P
  <2> QED
    BY <2>3
<1> QED
  BY <1>2, <1>9, <1>10, <1>11, n \in 0 .. n DEF Q

(* When the whole was read without an objection, no phase gave one.        *)
LEMMA ValidPhases ==
  ASSUME NEW phases, NEW n \in Nat, Len(phases) = n, DOMAIN phases = 1 .. n, Validate(phases)
  PROVE  \A i \in 1 .. n : Reading(phases)[i].ok
<1> DEFINE R == Reading(phases)
<1>1. \A i \in 1 .. n : R[i] = readPhase(R[i - 1], phases[i])
  BY ReadingIsFold
<1>2. R[n].ok
  BY ReadingIsFold DEF Validate
<1> HIDE DEF R
<1> DEFINE P == {k \in Nat : k < n => R[n - k].ok}
<1>3. 0 \in P
  BY <1>2
<1>4. ASSUME NEW k \in P PROVE k + 1 \in P
  <2> SUFFICES ASSUME k + 1 < n PROVE R[n - (k + 1)].ok
    OBVIOUS
  <2>1. n - k \in 1 .. n /\ (n - k) - 1 = n - (k + 1)
    OBVIOUS
  <2>2. R[n - k].ok
    OBVIOUS
  <2>3. R[n - k] = readPhase(R[n - (k + 1)], phases[n - k])
    BY <1>1, <2>1
  <2>4. R[n - k].ok => R[n - (k + 1)].ok
    BY <2>3, ReadPhaseOk, Zenon
  <2> QED
    BY <2>2, <2>4
<1>5. P = Nat
  <2> HIDE DEF P
  <2> QED
    BY <1>3, <1>4, NumberInduction DEF P
<1>6. ASSUME NEW i \in 1 .. n PROVE R[i].ok
  <2>1. n - i \in Nat /\ n - i < n /\ n - (n - i) = i
    OBVIOUS
  <2>2. n - i \in P
    BY <1>5, <2>1
  <2> QED
    BY <2>1, <2>2
<1> QED
  BY <1>6 DEF R

(* Preparing a phase gives it a job and keeps its numbers.                 *)
LEMMA PreparedPhase ==
  ASSUME NEW p \in PhaseRecord, NEW i \in Nat \ {0}
  PROVE  PhaseNumbers(withDefaults(p, i))
<1> DEFINE w == withDefaults(p, i)
<1>1. p.job \in Nat /\ p.repeat \in Int /\ p.count \in Int /\ p.await \in BOOLEAN
  BY DEF PhaseRecord
<1>2. /\ w.job = IF p.job = 0 THEN i ELSE p.job
      /\ w.repeat = IF p.repeat = 0 THEN 1 ELSE p.repeat
      /\ w.count = p.count /\ w.await = p.await
  BY DEF PhaseRecord, withDefaults
<1> QED
  BY <1>1, <1>2 DEF PhaseNumbers

(* So every phase of a prepared sequence has numbers where numbers are     *)
(* needed.                                                                 *)
LEMMA PreparedPhases ==
  ASSUME NEW phases \in Seq(PhaseRecord)
  PROVE  /\ Len(Prepared(phases)) = Len(phases) /\ Len(phases) \in Nat
         /\ DOMAIN Prepared(phases) = 1 .. Len(phases)
         /\ \A i \in 1 .. Len(phases) : PhaseNumbers(Prepared(phases)[i])
<1> DEFINE S == {withDefaults(phases[i], i) : i \in 1 .. Len(phases)}
<1>1. Len(phases) \in Nat /\ DOMAIN phases = 1 .. Len(phases)
      /\ \A i \in 1 .. Len(phases) : phases[i] \in PhaseRecord
  OBVIOUS
<1>2. ASSUME NEW i \in 1 .. Len(phases)
      PROVE  PhaseNumbers(withDefaults(phases[i], i))
  BY <1>1, PreparedPhase, i \in Nat \ {0}
<1>3. Prepared(phases) = [i \in 1 .. Len(phases) |-> withDefaults(phases[i], i)]
  BY <1>1 DEF Prepared
<1>4. Prepared(phases) \in [1 .. Len(phases) -> S]
  BY <1>3
<1>5. Len(Prepared(phases)) = Len(phases)
  BY <1>1, <1>4
<1> QED
  BY <1>1, <1>2, <1>3, <1>5

(* What every part of the proof needs of the phases.                       *)
LEMMA PhaseFacts ==
  ASSUME PlanInv, NEW i \in DOMAIN Phases
  PROVE  /\ i \in Nat \ {0} /\ DOMAIN Phases = 1 .. Len(Phases) /\ Len(Phases) \in Nat
         /\ PhaseNumbers(Phases[i])
         /\ Phases[i].job \in JobNames
         /\ Phases[i].repeat >= 1
         /\ Phases[i].action \in Operations => Phases[i].count >= 1
         /\ ~ShouldAwait(Phases[i]) => Phases[i].action \in Operations
         /\ Phases[i].action \in Waits => Phases[i].jobs \subseteq KnownBefore(i)
         /\ Phases[i].action \notin Waits => Phases[i].jobs = {}
         /\ ~ShouldAwait(Phases[i]) => Phases[i].job \notin KnownBefore(i)
         /\ KnownBefore(i + 1) = KnownAfter(KnownBefore(i), Phases[i])
<1> DEFINE p == Phases[i]
           r == Reading(Phases)[i - 1]
<1>1. i \in Nat \ {0} /\ DOMAIN Phases = 1 .. Len(Phases) /\ Len(Phases) \in Nat /\ PhaseNumbers(p)
  BY DEF PlanInv
<1>2. p.job \in JobNames
  BY DEF JobNames
<1>3. Reading(Phases)[i] = readPhase(r, p) /\ Reading(Phases)[i].ok
  BY DEF PlanInv
<1>4. SettingsFit(p) /\ ActionFits(p) /\ WaitFits(r, p) /\ JobIsNew(r, p)
  <2> HIDE DEF p, r
  <2> QED
    BY <1>3, ReadPhaseOk, Zenon
<1>5. p.repeat >= 1 /\ (p.jobs # {} => p.action \in Waits) /\ (~ShouldAwait(p) => p.action \in Operations)
  BY <1>4, Zenon DEF SettingsFit
<1>6. p.action \in Operations => p.count >= 1
  BY <1>4 DEF ActionFits, PeersAreNamed, Operations, Lenient
<1>7. KnownBefore(i) = r.known
  BY DEF KnownBefore
<1>8. p.action \in Waits => p.jobs \subseteq r.known
  BY <1>4, Zenon DEF WaitFits
<1>9. ~ShouldAwait(p) => p.job \notin r.known
  BY <1>4, Zenon DEF JobIsNew
<1>10. KnownBefore(i + 1) = KnownAfter(r.known, p)
  <2>1. (i + 1) - 1 = i
    BY <1>1
  <2>2. KnownBefore(i + 1) = Reading(Phases)[i].known
    BY <2>1, Zenon DEF KnownBefore
  <2>3. readPhase(r, p).known = KnownAfter(r.known, p)
    BY Zenon DEF readPhase
  <2> QED
    BY <1>3, <2>2, <2>3, Zenon
<1> QED
  BY <1>1, <1>2, <1>5, <1>6, <1>7, <1>8, <1>9, <1>10, Zenon

(* The scheduler's own thread is none of the jobs.                         *)
LEMMA MainIsNoJob ==
  ASSUME PlanInv
  PROVE  Main \notin JobNames /\ Main \in Threads /\ Threads = {Main} \cup JobNames
BY DEF PlanInv, PhaseNumbers, JobNames, Threads, Main

-----------------------------------------------------------------------------
(* The initial states.                                                     *)

(* The plan of a run that begins was validated, phase by phase.            *)
LEMMA InitPlan ==
  ASSUME Init PROVE PlanInv
<1>1. PICK submitted \in Plans :
        LET phases == Prepared(submitted.phases)
        IN  Validate(phases) /\ plan = [phases |-> phases, onExit |-> submitted.onExit]
  BY DEF Init
<1> DEFINE phases == Prepared(submitted.phases)
           n == Len(submitted.phases)
<1>2. submitted.phases \in Seq(PhaseRecord) /\ submitted.onExit \in {"cancel", "drain"}
  BY PlansAssumption, PhaseBounds
<1>3. n \in Nat /\ Len(phases) = n /\ DOMAIN phases = 1 .. n
      /\ \A i \in 1 .. n : PhaseNumbers(phases[i])
  BY <1>2, PreparedPhases
<1>4. Phases = phases /\ plan.onExit = submitted.onExit /\ Validate(phases)
  BY <1>1 DEF Phases
<1> HIDE DEF phases, n
<1>5. /\ Reading(phases)[0] = NothingRead
      /\ \A i \in 1 .. n : Reading(phases)[i] = readPhase(Reading(phases)[i - 1], phases[i])
  BY <1>3, ReadingIsFold
<1>6. \A i \in 1 .. n : Reading(phases)[i].ok
  BY <1>3, <1>4, ValidPhases
<1> QED
  BY <1>2, <1>3, <1>4, <1>5, <1>6, Zenon DEF PlanInv

(* What a run begins with has the right shape.                             *)
LEMMA InitTypes ==
  ASSUME Init, PlanInv PROVE TypeInv
<1>1. IdleThread \in ThreadType
  BY DEF IdleThread, ThreadType, ThreadPcs, OpStates, NoOps, Errors
<1>2. NoRequest \in RequestType
  BY DEF NoRequest, RequestType
<1>3. run \in RunType
  BY DEF Init, RunType, RunPcs, Errors
<1>4. \A a \in Agents : agents[a] \in AgentType
  BY PhaseBounds DEF Init, AgentType
<1>5. agents \in [Agents -> AgentType]
  BY <1>4 DEF Init
<1> QED
  BY <1>1, <1>2, <1>3, <1>5 DEF Init, TypeInv, NodeStates

(* No thread has begun.                                                    *)
LEMMA InitLocal ==
  ASSUME Init, PlanInv PROVE \A t \in Threads : Local(t, thread[t])
<1> SUFFICES ASSUME NEW t \in Threads PROVE Local(t, thread[t])
  OBVIOUS
<1>1. thread[t] = IdleThread
  BY DEF Init
<1>2. IdleThread.pc = "idle" /\ IdleThread.ops = NoOps /\ IdleThread.err = "none"
      /\ IdleThread.canceled = FALSE /\ \A q \in Peers : IdleThread.ops[q] = "none"
  BY DEF IdleThread, NoOps
<1>3. run.pc = "loop"
  BY DEF Init
<1> HIDE DEF IdleThread
<1> QED
  BY <1>1, <1>2, <1>3
     DEF Local, FlowInv, PlaceInv, JobInv, MainInv, StopInv, OpsInv, CancelInv, Live, HasOp, BusyOps, Unsent

(* The invariant holds when a run begins.                                  *)
LEMMA InitInv ==
  ASSUME Init PROVE IInv
<1>1. PlanInv
  BY InitPlan
<1>2. TypeInv /\ \A t \in Threads : Local(t, thread[t])
  BY <1>1, InitTypes, InitLocal
<1>3. PairInv
  BY <1>1, MainIsNoJob DEF Init, PairInv, Joining, IdleThread, NoOps
<1>4. RequestInv
  <2>1. ASSUME NEW q \in Peers PROVE requests[q] = NoRequest /\ nodes[q] = "none"
    BY DEF Init
  <2>2. NoRequest.st = "none" /\ NoRequest.gen = 0
    BY DEF NoRequest
  <2>3. run.gen = 1
    BY DEF Init
  <2> HIDE DEF NoRequest
  <2> QED
    BY <2>1, <2>2, <2>3 DEF RequestInv, Sent
<1>5. AgentInv
  BY DEF Init, AgentInv
<1>6. RunInv
  <2>1. KnownBefore(1) = {}
    BY <1>1 DEF KnownBefore, PlanInv, NothingRead
  <2>2. Len(Phases) \in Nat
    BY <1>1 DEF PlanInv
  <2> QED
    BY <2>1, <2>2 DEF Init, RunInv
<1>7. FailureInv
  BY DEF Init, FailureInv
<1> QED
  BY <1>1, <1>2, <1>3, <1>4, <1>5, <1>6, <1>7 DEF IInv

-----------------------------------------------------------------------------
(* Steps.  Most change one thread, and of what the threads share only what *)
(* no other thread relies on.                                              *)

(* The scheduler stays where it is; Peers may have been numbered.          *)
SameRun ==
  /\ UNCHANGED <<plan, registered, canceled>>
  /\ run'.pc = run.pc /\ run'.index = run.index /\ run'.gen = run.gen /\ run'.err = run.err
  /\ run'.cleanupErr = run.cleanupErr /\ run'.background = run.background
  /\ run'.seq >= run.seq

(* Nothing thread s, in state x, relies on is taken away.                  *)
StopKept(s) ==
  s = Main /\ registered = {} =>
    participants' = participants /\ \A a \in Agents : Fenced(a) => Fenced(a)'

OpsKept(x) ==
  \A q \in Peers :
    /\ x.ops[q] \in Unsent /\ Action(x) = "join" /\ Unused(x, q) => Unused(x, q)'
    /\ x.ops[q] = "calling" /\ Action(x) = "join" => requests'[q].gen = requests[q].gen
    /\ x.ops[q] = "placed" /\ reserved[q] \in Agents => reserved'[q] \in Agents

Kept(s, x) == StopKept(s) /\ OpsKept(x)

(* What is known of where a thread is survives a step that moves neither   *)
(* the thread nor the run, unless it is in a stop-all.                     *)
LEMMA FlowKept ==
  ASSUME NEW s, NEW x \in ThreadType, participants \subseteq Agents,
         FlowInv(s, x), SameRun, StopKept(s) \/ Action(x) # "stop-all"
  PROVE  FlowInv(s, x)'
<1> USE DEF SameRun
<1>0. Phases' = Phases /\ Action(x)' = Action(x) /\ Phases[run.index]' = Phases[run.index]
  BY DEF Phases, Action
<1>1. PlaceInv(s, x)'
  BY <1>0 DEF FlowInv, PlaceInv, Live, Action
<1>2. ASSUME s # Main PROVE JobInv(s, x)'
  BY <1>0, <1>2 DEF FlowInv, JobInv, Live
<1>3. ASSUME s = Main PROVE MainInv(x)'
  BY <1>0, <1>3 DEF FlowInv, MainInv, Live
<1>4. ASSUME s = Main, Action(x) = "stop-all" PROVE StopInv(x)'
  <2>1. registered = {} => cleanupParticipants' = cleanupParticipants
    BY <1>4 DEF StopKept, cleanupParticipants
  <2>2. cleanupParticipants \subseteq Agents
    BY DEF cleanupParticipants
  <2>3. Swept => Swept'
    BY <1>4, <2>1, <2>2 DEF StopKept, Swept
  <2>4. StopInv(x)
    BY <1>4 DEF FlowInv
  <2> QED
    <3> SUFFICES ASSUME x.pc # "idle", Action(x) = "stop-all"
                 PROVE  /\ x.pc \in {"top", "stopJobs"} => x.stopped = {}
                        /\ (x.pc = "top" /\ x.rep # 0 => Swept)'
                        /\ (x.pc = "returned" /\ x.err = "none" => Swept)'
                        /\ (x.pc \in {"stopPeers", "refresh"} =>
                             /\ registered = {}
                             /\ \A a \in x.stopped : Fenced(a)
                             /\ x.stopErr \/ cleanupParticipants \subseteq x.left \cup x.stopped)'
                        /\ x.pc = "refresh" => x.left = {}
      BY <1>0 DEF StopInv
    <3>1. ASSUME x.pc \in {"stopPeers", "refresh"}
          PROVE  /\ registered' = {}
                 /\ \A a \in x.stopped : Fenced(a)'
                 /\ x.stopErr \/ cleanupParticipants' \subseteq x.left \cup x.stopped
      <4>1. registered = {} /\ \A a \in x.stopped : Fenced(a)
        BY <2>4, <3>1 DEF StopInv
      <4>2. x.stopErr \/ cleanupParticipants \subseteq x.left \cup x.stopped
        BY <2>4, <3>1 DEF StopInv
      <4>3. x.stopped \subseteq Agents
        BY DEF ThreadType
      <4>4. \A a \in x.stopped : Fenced(a)'
        BY <1>4, <4>1, <4>3 DEF StopKept
      <4> QED
        BY <2>1, <4>1, <4>2, <4>4
    <3> QED
      BY <2>3, <2>4, <3>1 DEF StopInv
<1>6. CancelInv(s, x)'
  BY <1>0 DEF FlowInv, CancelInv, HasOp
<1> QED
  <2>1. Action(x) # "stop-all" => StopInv(x)'
    BY <1>0 DEF StopInv
  <2> QED
    BY <1>1, <1>2, <1>3, <1>4, <1>6, <2>1 DEF FlowInv

(* So does all that is known of the thread, if the step keeps its          *)
(* operations.                                                             *)
LEMMA LocalKept ==
  ASSUME NEW s, NEW x \in ThreadType, participants \subseteq Agents,
         run \in RunType, run' \in RunType, Local(s, x), SameRun, Kept(s, x)
  PROVE  Local(s, x)'
<1> USE DEF SameRun
<1>0. Phases' = Phases /\ Action(x)' = Action(x)
  BY DEF Phases, Action
<1>1. FlowInv(s, x)'
  BY FlowKept DEF Local, Kept
<1>5. OpsInv(x)'
  <2> SUFFICES ASSUME NEW q \in Peers
               PROVE  /\ x.ops[q] \in BusyOps => x.pc = "work"
                      /\ x.ops[q] # "none" => q <= run'.seq
                      /\ x.ops[q] \in {"placing", "placed", "backoff"} => Action(x)' = "join"
                      /\ x.ops[q] \in Unsent /\ Action(x)' = "join" => Unused(x, q)'
                      /\ x.ops[q] = "calling" /\ Action(x)' = "join" => requests'[q].gen = run'.gen
                      /\ x.ops[q] = "placed" => reserved'[q] \in Agents
    BY DEF OpsInv
  <2>1. /\ x.ops[q] \in BusyOps => x.pc = "work"
        /\ x.ops[q] # "none" => q <= run.seq
        /\ x.ops[q] \in {"placing", "placed", "backoff"} => Action(x) = "join"
        /\ x.ops[q] \in Unsent /\ Action(x) = "join" => Unused(x, q)
        /\ x.ops[q] = "calling" /\ Action(x) = "join" => requests[q].gen = run.gen
        /\ x.ops[q] = "placed" => reserved[q] \in Agents
    BY DEF Local, OpsInv
  <2>2. run.seq \in Nat /\ run'.seq \in Nat /\ q \in Nat
    BY DEF RunType, Peers
  <2>3. x.ops[q] # "none" => q <= run'.seq
    BY <2>1, <2>2
  <2>4. x.ops[q] \in Unsent /\ Action(x) = "join" => Unused(x, q)'
    BY <2>1 DEF Kept, OpsKept
  <2> QED
    BY <1>0, <2>1, <2>3, <2>4 DEF Kept, OpsKept
<1> QED
  BY <1>1, <1>5 DEF Local

(* What the new state of a thread leaves of the old one: its joins are its *)
(* own, a failure stays with it, and only what was at work still is.       *)
Progress(t, x) ==
  /\ \A q \in Peers : Joining(x, q) => Joining(thread[t], q) \/ q > run.seq
  /\ Live(x) => Live(thread[t])
  /\ Failing(thread[t]) => Failing(x)
  /\ broken' => broken \/ Failing(x)

(* A step of one thread that keeps what is known of the others keeps the   *)
(* invariant.                                                              *)
LEMMA ThreadStep ==
  ASSUME IInv, TypeInv', NEW t \in Threads, NEW x \in ThreadType,
         thread' = [thread EXCEPT ![t] = x], SameRun, UNCHANGED <<stopRequested, asyncErr>>,
         \A s \in Threads \ {t} : Kept(s, thread[s]),
         Local(t, x)', RequestInv', AgentInv', Progress(t, x)
  PROVE  IInv'
<1>0. /\ Phases' = Phases /\ Threads' = Threads /\ JobNames' = JobNames /\ plan' = plan
      /\ registered' = registered
  BY DEF SameRun, Phases, Threads, JobNames
<1>1. PlanInv'
  BY <1>0 DEF IInv, PlanInv
<1>2. thread \in [Threads -> ThreadType] /\ run \in RunType /\ run' \in RunType /\ participants \subseteq Agents
  BY DEF IInv, TypeInv
<1>3. thread'[t] = x /\ \A s \in Threads \ {t} : thread'[s] = thread[s]
  BY <1>2
<1>4. ASSUME NEW s \in Threads' PROVE Local(s, thread[s])'
  <2>1. CASE s = t
    <3>1. Local(t, x)'
      OBVIOUS
    <3> QED
      BY <1>3, <2>1, <3>1
  <2>2. CASE s # t
    <3> DEFINE y == thread[s]
    <3>1. s \in Threads \ {t}
      BY <1>0, <2>2
    <3>2. y \in ThreadType /\ Local(s, y) /\ Kept(s, y)
      BY <1>2, <3>1 DEF IInv
    <3>3. thread'[s] = y
      BY <1>3, <3>1
    <3>4. PICK z \in ThreadType : z = thread[s]
      BY <1>2, <3>1
    <3>5. Local(s, z) /\ Kept(s, z)
      BY <3>2, <3>4
    <3>6. Local(s, z)'
      BY <1>2, <3>5, LocalKept
    <3>7. thread'[s] = z
      BY <3>3, <3>4
    <3> QED
      BY <3>6, <3>7
  <2> QED
    BY <2>1, <2>2
<1>5. PairInv'
  <2> SUFFICES ASSUME NEW u \in Threads, NEW v \in Threads, NEW q \in Peers,
                      Joining(thread'[u], q), Joining(thread'[v], q), u # v
               PROVE  FALSE
    BY <1>0 DEF PairInv, Joining, Action
  <2>1. \A s \in Threads : Joining(thread[s], q) => ~(q > run.seq)
    <3> SUFFICES ASSUME NEW s \in Threads, Joining(thread[s], q), q > run.seq PROVE FALSE
      OBVIOUS
    <3>1. q <= run.seq
      BY DEF IInv, Local, OpsInv, Joining
    <3>2. q \in Nat /\ run.seq \in Nat
      BY <1>2 DEF Peers, RunType
    <3> QED
      BY <3>1, <3>2
  <2>2. \A w, z \in Threads : Joining(thread[w], q) /\ Joining(thread[z], q) => w = z
    BY DEF IInv, PairInv
  <2>3. CASE u = t
    <3>1. Joining(thread[v], q) /\ Joining(x, q)
      BY <1>3, <2>3
    <3> QED
      BY <2>1, <2>2, <2>3, <3>1 DEF Progress
  <2>4. CASE v = t
    <3>1. Joining(thread[u], q) /\ Joining(x, q)
      BY <1>3, <2>4
    <3> QED
      BY <2>1, <2>2, <2>4, <3>1 DEF Progress
  <2>5. CASE u # t /\ v # t
    BY <1>3, <2>2, <2>5
  <2> QED
    BY <2>3, <2>4, <2>5
<1>6. RunInv'
  BY <1>0 DEF IInv, RunInv, SameRun, KnownBefore, Phases
<1>7. FailureInv'
  <2>1. \A j \in JobNames : j \in Threads
    BY <1>0 DEF Threads
  <2>2. NoJobRuns => NoJobRuns'
    BY <1>0, <1>3, <2>1 DEF NoJobRuns, Progress, Live
  <2>3. (\E s \in Threads : Failing(thread[s])) => \E s \in Threads' : Failing(thread'[s])
    BY <1>0, <1>3 DEF Progress
  <2>4. broken' => broken \/ \E s \in Threads' : Failing(thread'[s])
    BY <1>0, <1>3 DEF Progress
  <2>5. ASSUME run.pc = "ended", broken', ~broken PROVE run.cleanupErr
    <3>1. Live(x) /\ Live(thread[t])
      BY <2>5 DEF Progress, Failing, Live
    <3>2. t # Main
      BY <2>5, <3>1 DEF IInv, Local, FlowInv, MainInv, Live
    <3>3. t \in JobNames
      BY <3>2 DEF Threads
    <3> QED
      BY <2>5, <3>1, <3>3 DEF IInv, FailureInv, NoJobRuns
  <2>6. FailureInv
    BY DEF IInv
  <2>7. /\ run'.pc = run.pc /\ run'.err = run.err /\ run'.cleanupErr = run.cleanupErr
        /\ run'.background = run.background /\ canceled' = canceled
        /\ asyncErr' = asyncErr /\ stopRequested' = stopRequested
    BY DEF SameRun
  <2>8. run'.cleanupErr \in BOOLEAN
    BY <1>2 DEF RunType
  <2>9. /\ broken' => \/ asyncErr' \/ run'.err = "failed" \/ run'.cleanupErr \/ stopRequested'
                      \/ \E s \in Threads' : Failing(thread'[s])
    BY <2>3, <2>4, <2>6, <2>7 DEF FailureInv
  <2>10. run'.pc = "ended" /\ broken' => run'.err = "failed" \/ run'.cleanupErr \/ stopRequested'
    BY <2>5, <2>6, <2>7 DEF FailureInv
  <2> QED
    BY <1>0, <2>2, <2>6, <2>7, <2>9, <2>10 DEF FailureInv, Failing, HasOp
<1> QED
  BY <1>1, <1>4, <1>5, <1>6, <1>7 DEF IInv

(* Nothing is taken from anyone when nothing shared changes.               *)
LEMMA SameShared ==
  ASSUME UNCHANGED <<requests, reserved, participants, agents>>, SameRun
  PROVE  \A s, y : Kept(s, y)
BY DEF Kept, StopKept, OpsKept, Fenced, SameRun, Unused

(* A step of one thread alone.                                             *)
LEMMA OwnStep ==
  ASSUME IInv, NEW t \in Threads, NEW x \in ThreadType,
         thread' = [thread EXCEPT ![t] = x], UNCHANGED <<control, inventory, remote>>,
         broken' \in BOOLEAN, faults' \in Nat, Local(t, x), Progress(t, x)
  PROVE  IInv'
<1>1. UNCHANGED <<plan, run, registered, canceled, stopRequested, asyncErr, nodes, reserved,
                  participants, requests, agents>>
  BY DEF control, inventory, remote
<1>2. TypeInv /\ run \in RunType
  BY DEF IInv, TypeInv
<1>3. SameRun
  BY <1>1, <1>2 DEF SameRun, RunType
<1>4. TypeInv'
  <2>1. JobNames' = JobNames /\ Threads' = Threads /\ Phases' = Phases
    BY <1>1 DEF JobNames, Threads, Phases
  <2>2. ThreadType' = ThreadType /\ RequestType' = RequestType
    BY <2>1 DEF ThreadType, RequestType
  <2>3. thread' \in [Threads -> ThreadType]
    BY <1>2 DEF TypeInv
  <2> QED
    BY <1>1, <1>2, <2>1, <2>2, <2>3 DEF TypeInv
<1>5. \A s, y : Kept(s, y)
  BY <1>1, <1>3, SameShared
<1>6. Local(t, x)'
  BY <1>1, <1>2, <1>3, <1>5, LocalKept DEF TypeInv
<1>7. RequestInv' /\ AgentInv'
  BY <1>1 DEF IInv, RequestInv, AgentInv
<1> QED
  BY <1>1, <1>3, <1>4, <1>5, <1>6, <1>7, ThreadStep

-----------------------------------------------------------------------------
(* The steps of a thread by itself.                                        *)

(* What the invariant says of one thread.                                  *)
LEMMA ThreadFacts ==
  ASSUME IInv, NEW t \in Threads
  PROVE  /\ thread[t] \in ThreadType /\ Local(t, thread[t])
         /\ t # Main => t \in JobNames
         /\ broken \in BOOLEAN /\ faults \in Nat /\ run \in RunType
         /\ PlanInv /\ TypeInv
BY DEF IInv, TypeInv, Threads

(* What a repetition leaves when it is over.                               *)
LEMMA OverState ==
  ASSUME IInv, NEW t \in Threads, NEW y, y = thread[t],
         y.pc \in {"top", "select", "work", "waiting", "ready", "stopJobs", "refresh"},
         NEW err \in {"none", "failed", "canceled"},
         \A q \in Peers : y.ops[q] \notin BusyOps,
         y.pc = "work" /\ HasOp(y, {"failed"}) => err = "failed",
         err = "canceled" => canceled \/ y.canceled,
         t = Main /\ Action(y) = "stop-all" /\ err = "none" => Swept
  PROVE  /\ Over(y, err) \in ThreadType
         /\ Local(t, Over(y, err))
         /\ Failing(y) => Failing(Over(y, err))
         /\ \A q \in Peers : Joining(Over(y, err), q) => Joining(y, q)
         /\ Live(Over(y, err)) /\ Live(y)
         /\ err = "failed" => Failing(Over(y, err))
<1> DEFINE x == Over(y, err)
<1>1. y \in ThreadType /\ Local(t, y)
  BY ThreadFacts
<1>2. /\ y.ops \in [Peers -> OpStates] /\ y.rep + 1 \in Nat /\ y.phase \in Nat /\ y.gen \in Nat
      /\ y.canceled \in BOOLEAN
  BY <1>1 DEF ThreadType
<1>3. x \in ThreadType
  BY <1>1, <1>2, ZenonT(120) DEF Over, ThreadType, ThreadPcs, Errors, IdleThread, NoOps, OpStates
<1>4. /\ x.phase = y.phase /\ x.gen = y.gen /\ x.canceled = y.canceled
      /\ x.pc = IF err = "none" THEN "top" ELSE "returned"
      /\ x.err = err
      /\ x.ops = IF err = "none" THEN NoOps ELSE y.ops
      /\ err = "none" => x.stopped = {}
  BY <1>1 DEF Over, ThreadType, IdleThread
<1>5. \A q \in Peers : NoOps[q] = "none"
  BY DEF NoOps
<1> HIDE DEF x
<1>6. Action(x) = Action(y) /\ Live(x) /\ Live(y)
  BY <1>4 DEF Action, Live
<1>7. PlaceInv(t, x)
  BY <1>1, <1>4, <1>6 DEF Local, FlowInv, PlaceInv
<1>8. t # Main => JobInv(t, x)
  BY <1>1, <1>4, <1>6 DEF Local, FlowInv, JobInv
<1>9. t = Main => MainInv(x) /\ StopInv(x)
  BY <1>1, <1>4, <1>6 DEF Local, FlowInv, MainInv, StopInv
<1>10. CancelInv(t, x)
  BY <1>1, <1>4, <1>6 DEF Local, FlowInv, CancelInv
<1>11. OpsInv(x)
  <2> SUFFICES ASSUME NEW q \in Peers
               PROVE  /\ x.ops[q] \in BusyOps => x.pc = "work"
                      /\ x.ops[q] # "none" => q <= run.seq
                      /\ x.ops[q] \in {"placing", "placed", "backoff"} => Action(x) = "join"
                      /\ x.ops[q] \in Unsent /\ Action(x) = "join" => Unused(x, q)
                      /\ x.ops[q] = "calling" /\ Action(x) = "join" => requests[q].gen = run.gen
                      /\ x.ops[q] = "placed" => reserved[q] \in Agents
    BY DEF OpsInv
  <2>1. x.ops[q] = "none" \/ x.ops[q] = y.ops[q]
    BY <1>4, <1>5
  <2>2. y.ops[q] \notin BusyOps
    OBVIOUS
  <2> QED
    BY <1>1, <1>6, <2>1, <2>2 DEF Local, OpsInv, BusyOps, Unsent, Unused
<1>12. Failing(y) => Failing(x)
  BY <1>4 DEF Failing
<1>13. \A q \in Peers : Joining(x, q) => Joining(y, q)
  BY <1>4, <1>5, <1>6 DEF Joining
<1> QED
  BY <1>3, <1>4, <1>6, <1>7, <1>8, <1>9, <1>10, <1>11, <1>12, <1>13 DEF x, Local, FlowInv, Failing

(* The end of a repetition, good or bad, keeps the invariant if the error  *)
(* is accounted for.                                                       *)
LEMMA OverStep ==
  ASSUME IInv, NEW t \in Threads, NEW y, y = thread[t],
         y.pc \in {"top", "select", "work", "waiting", "ready", "stopJobs", "refresh"},
         NEW err \in {"none", "failed", "canceled"},
         \A q \in Peers : y.ops[q] \notin BusyOps,
         y.pc = "work" /\ HasOp(y, {"failed"}) => err = "failed",
         err = "canceled" => canceled \/ y.canceled,
         t = Main /\ Action(y) = "stop-all" /\ err = "none" => Swept,
         thread' = [thread EXCEPT ![t] = Over(y, err)], broken' = (broken \/ err = "failed"),
         UNCHANGED <<control, inventory, remote>>, faults' \in Nat
  PROVE  IInv'
<1> DEFINE x == Over(y, err)
<1>1. /\ x \in ThreadType
      /\ Local(t, x)
      /\ Failing(y) => Failing(x)
      /\ \A q \in Peers : Joining(x, q) => Joining(y, q)
      /\ Live(x) /\ Live(y)
      /\ err = "failed" => Failing(x)
  BY OverState
<1>2. broken \in BOOLEAN /\ broken' \in BOOLEAN
  BY ThreadFacts
<1> HIDE DEF x
<1>3. Progress(t, x)
  BY <1>1 DEF Progress
<1>4. thread' = [thread EXCEPT ![t] = x]
  BY DEF x
<1> QED
  BY <1>1, <1>2, <1>3, <1>4, OwnStep

(* No operation of a thread is at work unless the thread is.               *)
LEMMA NotBusy ==
  ASSUME IInv, NEW t \in Threads, thread[t].pc # "work"
  PROVE  \A q \in Peers : thread[t].ops[q] \notin BusyOps
BY ThreadFacts DEF Local, OpsInv

(* The last repetition is over, or the context was canceled before the     *)
(* next.                                                                   *)
LEMMA phaseRepeatedStep ==
  ASSUME IInv, NEW t \in Threads, phaseRepeated(t)
  PROVE  IInv'
<1> DEFINE y == thread[t]
<1>1. y \in ThreadType /\ Local(t, y) /\ y.pc = "top" /\ broken \in BOOLEAN /\ faults \in Nat
  BY ThreadFacts DEF phaseRepeated
<1>2. UNCHANGED <<control, broken, inventory, remote, faults>>
  BY DEF phaseRepeated
<1>3. CASE y.rep = Phase(t).repeat /\ thread' = [thread EXCEPT ![t] = [y EXCEPT !.pc = "returned"]]
  <2> DEFINE x == [y EXCEPT !.pc = "returned"]
  <2>1. x \in ThreadType
    BY <1>1 DEF ThreadType, ThreadPcs
  <2>2. /\ x.pc = "returned" /\ x.phase = y.phase /\ x.gen = y.gen /\ x.canceled = y.canceled
        /\ x.ops = y.ops /\ x.err = y.err /\ x.rep = y.rep
    BY <1>1 DEF ThreadType
  <2>3. y.rep # 0 /\ y.err = "none"
    <3>1. y.phase \in DOMAIN Phases /\ y.err = "none"
      BY <1>1 DEF Local, FlowInv, PlaceInv
    <3>2. Phases[y.phase].repeat >= 1
      BY <3>1, ThreadFacts, PhaseFacts
    <3>3. Phase(t).repeat = Phases[y.phase].repeat
      BY DEF Phase
    <3> QED
      BY <1>3, <3>1, <3>2, <3>3
  <2>4. Local(t, x)
    <3> HIDE DEF x
    <3>1. Action(x) = Action(y) /\ Live(x) /\ Live(y)
      BY <1>1, <2>2 DEF Action, Live
    <3>2. PlaceInv(t, x)
      BY <1>1, <2>2, <2>3, <3>1 DEF Local, FlowInv, PlaceInv
    <3>3. t # Main => JobInv(t, x)
      BY <1>1, <2>2, <3>1 DEF Local, FlowInv, JobInv
    <3>4. t = Main => MainInv(x) /\ StopInv(x)
      BY <1>1, <2>2, <2>3, <3>1 DEF Local, FlowInv, MainInv, StopInv
    <3>5. CancelInv(t, x)
      BY <1>1, <2>2, <2>3, <3>1 DEF Local, FlowInv, CancelInv
    <3>6. OpsInv(x)
      BY <1>1, <2>2, <3>1 DEF Local, OpsInv, Unused
    <3> QED
      BY <3>2, <3>3, <3>4, <3>5, <3>6 DEF Local, FlowInv
  <2>5. Progress(t, x)
    <3>1. Action(x) = Action(y)
      BY <2>2 DEF Action
    <3> HIDE DEF x
    <3> QED
      BY <1>1, <1>2, <2>2, <3>1 DEF Progress, Joining, Live, Failing
  <2> QED
    BY <1>1, <1>2, <1>3, <2>1, <2>4, <2>5, OwnStep
<1>4. CASE CtxDone(t) /\ thread' = [thread EXCEPT ![t] = Over(y, "canceled")]
  <2>1. canceled \/ y.canceled
    BY <1>4 DEF CtxDone
  <2>2. \A q \in Peers : y.ops[q] \notin BusyOps
    BY <1>1, NotBusy
  <2>3. broken' = (broken \/ "canceled" = "failed")
    BY <1>1, <1>2
  <2> HIDE DEF y
  <2> QED
    BY <1>1, <1>2, <1>4, <2>1, <2>2, <2>3, OverStep DEF y
<1> QED
  BY <1>3, <1>4 DEF phaseRepeated, Set

(* At the top of a repetition no operation is at work.                     *)
LEMMA AtTop ==
  ASSUME IInv, NEW t \in Threads, NEW action, Begins(t, action)
  PROVE  /\ thread[t].pc = "top" /\ Action(thread[t]) = action /\ Phase(t).action = action
         /\ thread[t].phase \in DOMAIN Phases /\ Phase(t) = Phases[thread[t].phase]
         /\ \A q \in Peers : thread[t].ops[q] \notin BusyOps
<1>1. thread[t].pc = "top" /\ Action(thread[t]) = action /\ Phase(t).action = action
  BY DEF Begins, Is, Phase, Action
<1>2. thread[t].phase \in DOMAIN Phases
  BY <1>1, ThreadFacts DEF Local, FlowInv, PlaceInv
<1>3. \A q \in Peers : thread[t].ops[q] \notin BusyOps
  BY <1>1, NotBusy
<1> QED
  BY <1>1, <1>2, <1>3 DEF Phase

(* A wait or a log changes nothing but the repetition.                     *)
LEMMA restsStep ==
  ASSUME IInv, NEW t \in Threads, rests(t)
  PROVE  IInv'
<1>1. Begins(t, "wait") \/ Begins(t, "log")
  BY DEF rests
<1>2. /\ thread[t].pc = "top" /\ Action(thread[t]) # "stop-all"
      /\ \A q \in Peers : thread[t].ops[q] \notin BusyOps
  BY <1>1, AtTop
<1>3. /\ thread' = [thread EXCEPT ![t] = Over(thread[t], "none")]
      /\ broken' = (broken \/ "none" = "failed")
      /\ UNCHANGED <<control, inventory, remote>> /\ faults' \in Nat
  BY ThreadFacts DEF rests, Ends, Set, Failure
<1> DEFINE y == thread[t]
<1> HIDE DEF y
<1> QED
  BY <1>2, <1>3, OverStep DEF y

(* Operations are chosen among Peers the inventory knows.                  *)
LEMMA OpsOnStep ==
  ASSUME IInv, NEW t \in Threads, NEW action \in Lenient, Begins(t, action),
         NEW chosen \in SUBSET Peers, \A q \in chosen : nodes[q] # "none",
         OpsOn(t, chosen), UNCHANGED <<control, broken, inventory, remote, faults>>
  PROVE  IInv'
<1> DEFINE y == thread[t]
           ops == [q \in Peers |-> IF q \in chosen THEN "todo" ELSE "none"]
           x == [y EXCEPT !.pc = "work", !.ops = ops]
<1>1. /\ y \in ThreadType /\ Local(t, y) /\ y.pc = "top" /\ broken \in BOOLEAN /\ faults \in Nat
      /\ Action(y) = action /\ run.seq \in Nat
  BY ThreadFacts, AtTop DEF RunType
<1>2. thread' = [thread EXCEPT ![t] = x]
  BY DEF OpsOn, Set
<1>3. x \in ThreadType
  BY <1>1 DEF ThreadType, ThreadPcs, OpStates
<1>4. /\ x.pc = "work" /\ x.phase = y.phase /\ x.gen = y.gen /\ x.canceled = y.canceled
      /\ x.err = y.err /\ x.rep = y.rep /\ x.ops = ops
  BY <1>1 DEF ThreadType
<1>5. \A q \in Peers : ops[q] = "none" \/ (ops[q] = "todo" /\ q \in chosen)
  OBVIOUS
<1> HIDE DEF x, ops
<1>6. Action(x) = action /\ Live(x) /\ Live(y)
  BY <1>1, <1>4 DEF Action, Live
<1>7. action \in Operations /\ action # "join" /\ action # "stop-all" /\ action \notin Waits
  BY DEF Lenient, Operations, Waits
<1>8. ~HasOp(x, {"canceled"}) /\ ~HasOp(x, {"failed"})
  BY <1>4, <1>5 DEF HasOp
<1>9. FlowInv(t, x)
  <2>1. PlaceInv(t, x)
    BY <1>1, <1>4, <1>6, <1>7 DEF Local, FlowInv, PlaceInv
  <2>2. t # Main => JobInv(t, x)
    BY <1>1, <1>4, <1>6 DEF Local, FlowInv, JobInv
  <2>3. t = Main => MainInv(x) /\ StopInv(x)
    BY <1>1, <1>4, <1>6, <1>7 DEF Local, FlowInv, MainInv, StopInv
  <2>4. CancelInv(t, x)
    BY <1>1, <1>4, <1>8 DEF Local, FlowInv, CancelInv
  <2> QED
    BY <2>1, <2>2, <2>3, <2>4 DEF FlowInv
<1>10. OpsInv(x)
  <2>1. \A q \in chosen : q <= run.seq
    <3> SUFFICES ASSUME NEW q \in chosen PROVE q <= run.seq
      OBVIOUS
    <3>1. ~(q > run.seq)
      BY DEF IInv, RequestInv
    <3>2. q \in Nat /\ run.seq \in Nat
      BY <1>1, PhaseBounds DEF Peers
    <3> QED
      BY <3>1, <3>2
  <2> QED
    BY <1>4, <1>5, <1>6, <1>7, <2>1 DEF OpsInv, BusyOps, Unsent
<1>11. Progress(t, x)
  BY <1>1, <1>4, <1>6, <1>7 DEF Progress, Joining, Failing
<1> QED
  BY <1>1, <1>2, <1>3, <1>9, <1>10, <1>11, OwnStep DEF Local

(* A publication selects ready Peers, or fails for want of them.           *)
LEMMA runPublishStep ==
  ASSUME IInv, NEW t \in Threads, runPublish(t)
  PROVE  IInv'
<1> DEFINE p          == Phase(t)
           candidates == {q \in matchingNodes(p.group, {"ready"}) : nodePublishTopics(q)}
           err        == IF p.onError = "continue" THEN "none" ELSE "failed"
<1>1. Begins(t, "publish") /\ UNCHANGED <<control, inventory, remote, faults>>
  BY DEF runPublish
<1>2. CASE (\E chosen \in AtMost(p.count, candidates) : OpsOn(t, chosen)) /\ UNCHANGED broken
  <2>1. PICK chosen \in AtMost(p.count, candidates) : OpsOn(t, chosen)
    BY <1>2
  <2>2. chosen \subseteq candidates
    BY DEF AtMost
  <2>3. chosen \in SUBSET Peers /\ \A q \in chosen : nodes[q] # "none"
    BY <2>2 DEF matchingNodes
  <2>4. "publish" \in Lenient
    BY DEF Lenient
  <2>5. UNCHANGED <<control, broken, inventory, remote, faults>>
    BY <1>1, <1>2
  <2> QED
    BY <1>1, <2>1, <2>3, <2>4, <2>5, OpsOnStep
<1>3. CASE Ends(t, err)
  <2> DEFINE y == thread[t]
  <2>1. /\ y.pc = "top" /\ Action(y) # "stop-all"
        /\ \A q \in Peers : y.ops[q] \notin BusyOps
    BY <1>1, AtTop
  <2>2. /\ thread' = [thread EXCEPT ![t] = Over(y, err)]
        /\ broken' = (broken \/ err = "failed")
        /\ faults' \in Nat
    BY <1>1, <1>3, ThreadFacts DEF Ends, Set, Failure
  <2>3. err \in {"none", "failed", "canceled"} /\ err # "canceled"
    OBVIOUS
  <2> HIDE DEF y, err
  <2> QED
    BY <1>1, <2>1, <2>2, <2>3, OverStep DEF y
<1> QED
  BY <1>2, <1>3 DEF runPublish

(* A leave selects Peers in the same way.                                  *)
LEMMA runLeaveStep ==
  ASSUME IInv, NEW t \in Threads, runLeave(t)
  PROVE  IInv'
<1> DEFINE p == Phase(t)
           S == matchingNodes(p.group, {"starting", "ready"})
<1>1. Begins(t, "leave") /\ UNCHANGED <<control, broken, inventory, remote, faults>>
  BY DEF runLeave
<1>2. PICK chosen \in AtMost(p.count, S) : OpsOn(t, chosen)
  BY DEF runLeave
<1>3. chosen \in SUBSET Peers /\ \A q \in chosen : nodes[q] # "none"
  BY DEF matchingNodes, AtMost
<1>4. "leave" \in Lenient
  BY DEF Lenient
<1> QED
  BY <1>1, <1>2, <1>3, <1>4, OpsOnStep

(* Only the scheduler's own thread waits, and then it stops nothing.       *)
LEMMA OnlyMainWaits ==
  ASSUME IInv, NEW t \in Threads, Action(thread[t]) \in Waits, Live(thread[t])
  PROVE  /\ t = Main /\ run.pc = "phase" /\ thread[t].phase = run.index
         /\ Phases[run.index].action # "stop-all"
         /\ registered = KnownBefore(run.index)
         /\ \A j \in registered : ~thread[j].canceled
<1> DEFINE y == thread[t]
<1>1. Local(t, y) /\ y.phase \in DOMAIN Phases /\ y.pc # "idle"
  BY ThreadFacts DEF Local, FlowInv, PlaceInv, Live
<1>2. Action(y) \notin Operations /\ Action(y) # "stop-all"
  BY DEF Waits, Operations
<1>3. ShouldAwait(Phases[y.phase])
  BY <1>1, <1>2, PhaseFacts, ThreadFacts, Zenon DEF Action
<1>4. t = Main
  BY <1>1, <1>3 DEF Local, FlowInv, JobInv
<1>5. run.pc = "phase" /\ y.phase = run.index
  BY <1>1, <1>4 DEF Local, FlowInv, MainInv
<1>6. Phases[run.index].action # "stop-all"
  BY <1>2, <1>5 DEF Action
<1>7. registered = KnownBefore(run.index)
  BY <1>5, <1>6 DEF IInv, RunInv
<1>8. ASSUME NEW j \in registered PROVE ~thread[j].canceled
  <2>1. j \in Threads
    BY DEF IInv, TypeInv, Threads
  <2>2. CancelInv(j, thread[j])
    BY <2>1, ThreadFacts DEF Local, FlowInv
  <2> QED
    BY <1>5, <1>6, <2>2 DEF CancelInv
<1> QED
  BY <1>4, <1>5, <1>6, <1>7, <1>8

(* Two states of a thread that differ in where it is and waits for.        *)
SameWork(x, y) ==
  /\ x.phase = y.phase /\ x.gen = y.gen /\ x.canceled = y.canceled
  /\ x.err = y.err /\ x.rep = y.rep /\ x.ops = y.ops

(* A wait goes on: only registered jobs are waited for.                    *)
LEMMA WaitStep ==
  ASSUME IInv, NEW t \in Threads, thread[t].pc \in {"top", "waiting"}, Action(thread[t]) \in Waits,
         NEW x \in ThreadType, SameWork(x, thread[t]), x.pc \in {"waiting", "ready"},
         x.pc = "waiting" => x.left \subseteq registered,
         thread' = [thread EXCEPT ![t] = x],
         UNCHANGED <<control, broken, inventory, remote, faults>>
  PROVE  IInv'
<1> DEFINE y == thread[t]
<1>1. y \in ThreadType /\ Local(t, y) /\ broken \in BOOLEAN /\ faults \in Nat
  BY ThreadFacts
<1>3. /\ x.phase = y.phase /\ x.gen = y.gen /\ x.canceled = y.canceled
      /\ x.err = y.err /\ x.rep = y.rep /\ x.ops = y.ops
  BY DEF SameWork
<1>4. Action(x) = Action(y) /\ Live(x) /\ Live(y) /\ Action(y) # "stop-all" /\ y.err = "none"
  BY <1>1, <1>3 DEF Action, Live, Waits, Local, FlowInv, PlaceInv
<1>5. t = Main
  BY <1>4, OnlyMainWaits
<1>6. FlowInv(t, x)
  <2>1. PlaceInv(t, x)
    BY <1>1, <1>3, <1>4 DEF Local, FlowInv, PlaceInv
  <2>2. MainInv(x) /\ StopInv(x)
    BY <1>1, <1>3, <1>4, <1>5 DEF Local, FlowInv, MainInv, StopInv
  <2>3. CancelInv(t, x)
    BY <1>1, <1>3, <1>4 DEF Local, FlowInv, CancelInv
  <2> QED
    BY <1>5, <2>1, <2>2, <2>3 DEF FlowInv
<1>7. OpsInv(x)
  BY <1>1, <1>3, <1>4 DEF Local, OpsInv, Unused
<1>8. Progress(t, x)
  BY <1>3, <1>4 DEF Progress, Joining, Failing
<1> QED
  BY <1>1, <1>6, <1>7, <1>8, OwnStep DEF Local

(* A wait of a valid scenario knows the jobs it names.                     *)
(* A wait finds the jobs it names: a valid plan names none that is not     *)
(* registered.                                                             *)
LEMMA waitsForJobsStep ==
  ASSUME IInv, NEW t \in Threads, waitsForJobs(t)
  PROVE  IInv'
<1> DEFINE y        == thread[t]
           p        == Phase(t)
           selected == selectJobs(p.jobs)
<1>1. PICK action \in Waits : Begins(t, action)
  BY DEF waitsForJobs, Waits
<1>2. /\ y.pc = "top" /\ Action(y) = action /\ y.phase \in DOMAIN Phases /\ p = Phases[y.phase]
      /\ Action(y) \in Waits /\ Live(y) /\ y \in ThreadType
  BY <1>1, AtTop, ThreadFacts DEF Live
<1>3. selected \subseteq registered
  <2>1. p.jobs \subseteq KnownBefore(y.phase)
    BY <1>2, PhaseFacts, ThreadFacts, Zenon DEF Action
  <2>2. y.phase = run.index /\ registered = KnownBefore(run.index)
    BY <1>2, OnlyMainWaits
  <2>3. p.jobs \subseteq registered
    BY <2>1, <2>2, Zenon
  <2> QED
    BY <2>3 DEF selectJobs
<1>4. UNCHANGED <<control, inventory, remote, faults>>
  BY DEF waitsForJobs
<1>5. CASE Set(t, [y EXCEPT !.pc = "ready"]) /\ UNCHANGED broken
  <2> DEFINE x == [y EXCEPT !.pc = "ready"]
  <2>1. thread' = [thread EXCEPT ![t] = x]
    BY <1>5 DEF Set
  <2>2. x \in ThreadType /\ SameWork(x, y) /\ x.pc = "ready"
    BY <1>2 DEF ThreadType, ThreadPcs, SameWork
  <2>3. UNCHANGED <<control, broken, inventory, remote, faults>>
    BY <1>4, <1>5
  <2> HIDE DEF x
  <2> QED
    BY <1>2, <2>1, <2>2, <2>3, WaitStep
<1>6. CASE Set(t, [y EXCEPT !.pc = "waiting", !.left = selected]) /\ UNCHANGED broken
  <2> DEFINE x == [y EXCEPT !.pc = "waiting", !.left = selected]
  <2>1. thread' = [thread EXCEPT ![t] = x]
    BY <1>6 DEF Set
  <2>2. selected \in SUBSET (Agents \cup JobNames)
    BY <1>3 DEF IInv, TypeInv
  <2> HIDE DEF p, selected
  <2>3. x \in ThreadType /\ SameWork(x, y) /\ x.pc = "waiting" /\ x.left \subseteq registered
    BY <1>2, <1>3, <2>2 DEF ThreadType, ThreadPcs, SameWork
  <2>4. UNCHANGED <<control, broken, inventory, remote, faults>>
    BY <1>4, <1>6
  <2> HIDE DEF x
  <2> QED
    BY <1>2, <2>1, <2>3, <2>4, WaitStep
<1> QED
  BY <1>3, <1>5, <1>6 DEF waitsForJobs

(* A wait returns the error of a job, of its context, or none.             *)
LEMMA jobWaitReturnsStep ==
  ASSUME IInv, NEW t \in Threads, jobWaitReturns(t)
  PROVE  IInv'
<1> DEFINE y == thread[t]
<1>1. y.pc = "waiting" /\ UNCHANGED <<control, inventory, remote, faults>>
  BY DEF jobWaitReturns
<1>2. /\ y \in ThreadType /\ Action(y) \in Waits /\ Live(y) /\ y.left \subseteq registered
      /\ Action(y) # "stop-all" /\ Phase(t).action = Action(y)
      /\ faults \in Nat
  BY <1>1, ThreadFacts DEF Local, FlowInv, PlaceInv, Live, Waits, Phase, Action
<1>3. \A q \in Peers : y.ops[q] \notin BusyOps
  BY <1>1, NotBusy
<1>4. ASSUME NEW err \in JobErrors(y.left) \cup {"canceled", "none"}, Ends(t, err),
             err = "canceled" => canceled \/ y.canceled \/ err \in JobErrors(y.left)
      PROVE  IInv'
  <2>1. ASSUME err \in JobErrors(y.left)
        PROVE  err \in {"failed", "canceled"} /\ (err = "canceled" => canceled)
    <3>1. PICK j \in y.left : Done(j) /\ err = thread[j].err /\ err # "none"
      BY <2>1 DEF JobErrors
    <3>2. j \in Threads /\ j \in registered
      BY <1>2 DEF IInv, TypeInv, Threads
    <3>3. err \in Errors /\ err \notin {"unknown", "duplicate"}
      BY <3>1, <3>2, ThreadFacts DEF ThreadType, Local, FlowInv, PlaceInv
    <3>4. err = "canceled" => canceled \/ thread[j].canceled
      BY <3>1, <3>2, ThreadFacts DEF Local, FlowInv, CancelInv
    <3>5. ~thread[j].canceled
      BY <1>2, <3>2, OnlyMainWaits
    <3> QED
      BY <3>1, <3>3, <3>4, <3>5 DEF Errors
  <2>2. err \in {"none", "failed", "canceled"} /\ (err = "canceled" => canceled \/ y.canceled)
    BY <1>4, <2>1
  <2>3. /\ thread' = [thread EXCEPT ![t] = Over(y, err)]
        /\ broken' = (broken \/ err = "failed")
        /\ faults' \in Nat
    BY <1>1, <1>2, <1>4 DEF Ends, Set, Failure
  <2> HIDE DEF y
  <2> QED
    BY <1>1, <1>2, <1>3, <2>2, <2>3, OverStep DEF y
<1>5. CASE \E err \in JobErrors(y.left) : Ends(t, err)
  BY <1>4, <1>5
<1>6. CASE Phase(t).action = "wait-ready" /\ Set(t, [y EXCEPT !.pc = "ready"]) /\ UNCHANGED broken
  <2> DEFINE x == [y EXCEPT !.pc = "ready"]
  <2>1. thread' = [thread EXCEPT ![t] = x]
    BY <1>6 DEF Set
  <2>2. x \in ThreadType /\ SameWork(x, y) /\ x.pc = "ready"
    BY <1>2 DEF ThreadType, ThreadPcs, SameWork
  <2>3. UNCHANGED <<control, broken, inventory, remote, faults>>
    BY <1>1, <1>6
  <2> HIDE DEF x
  <2> QED
    BY <1>1, <1>2, <2>1, <2>2, <2>3, WaitStep
<1>7. CASE Ends(t, "none")
  BY <1>4, <1>7
<1>8. CASE CtxDone(t) /\ Ends(t, "canceled")
  BY <1>4, <1>8 DEF CtxDone
<1> QED
  BY <1>5, <1>6, <1>7, <1>8 DEF jobWaitReturns

(* The ready barrier opens, is canceled, or runs out of time.              *)
LEMMA waitReadyStep ==
  ASSUME IInv, NEW t \in Threads, waitReady(t) \/ phaseTimesOut(t)
  PROVE  IInv'
<1> DEFINE y == thread[t]
<1>1. y.pc \in {"waiting", "ready"} /\ UNCHANGED <<control, inventory, remote, faults>>
  BY DEF waitReady, phaseTimesOut
<1>2. Action(y) # "stop-all" /\ faults \in Nat
  BY <1>1, ThreadFacts DEF Local, FlowInv, PlaceInv, Waits
<1>3. \A q \in Peers : y.ops[q] \notin BusyOps
  BY <1>1, NotBusy
<1>4. PICK err \in {"none", "failed", "canceled"} :
        Ends(t, err) /\ (err = "canceled" => canceled \/ y.canceled)
  BY DEF waitReady, phaseTimesOut, CtxDone
<1>5. /\ thread' = [thread EXCEPT ![t] = Over(y, err)]
      /\ broken' = (broken \/ err = "failed")
      /\ faults' \in Nat
  BY <1>1, <1>2, <1>4 DEF Ends, Set, Failure
<1> HIDE DEF y
<1> QED
  BY <1>1, <1>2, <1>3, <1>4, <1>5, OverStep DEF y

(* The operations of a repetition are over: a failure of one comes before  *)
(* the cancellations it caused.                                            *)
LEMMA runOperationsStep ==
  ASSUME IInv, NEW t \in Threads, runOperations(t)
  PROVE  IInv'
<1> DEFINE y   == thread[t]
           oe  == operationsError(t)
           err == IF oe = "none" /\ y.stopErr THEN "failed" ELSE oe
<1>1. y.pc = "work" /\ Ends(t, err) /\ UNCHANGED <<control, inventory, remote, faults>>
  BY DEF runOperations
<1>2. Local(t, y) /\ faults \in Nat /\ Action(y) # "stop-all"
  BY <1>1, ThreadFacts DEF Local, FlowInv, PlaceInv, Operations
<1>3. \A q \in Peers : y.ops[q] \notin BusyOps
  BY DEF runOperations, Busy, OpsIn, BusyOps
<1>4. HasOp(y, {"failed"}) <=> OpsIn(t, {"failed"}) # {}
  BY DEF HasOp, OpsIn
<1>5. Errored(t) # {} /\ ~HasOp(y, {"failed"}) => HasOp(y, {"canceled"})
  BY DEF Errored, OpsIn, HasOp
<1>6. oe \in {"none", "failed", "canceled"} /\ (HasOp(y, {"failed"}) => oe = "failed")
      /\ (oe = "canceled" => CtxDone(t) \/ (HasOp(y, {"canceled"}) /\ ~HasOp(y, {"failed"})))
  BY <1>4, <1>5 DEF operationsError
<1>7. oe = "canceled" => canceled \/ y.canceled
  BY <1>1, <1>2, <1>6 DEF CtxDone, Local, FlowInv, CancelInv
<1> HIDE DEF oe
<1>8. /\ err \in {"none", "failed", "canceled"} /\ (HasOp(y, {"failed"}) => err = "failed")
      /\ (err = "canceled" => canceled \/ y.canceled)
  BY <1>6, <1>7
<1>9. /\ thread' = [thread EXCEPT ![t] = Over(y, err)]
      /\ broken' = (broken \/ err = "failed")
      /\ faults' \in Nat
  BY <1>1, <1>2 DEF Ends, Set, Failure
<1> HIDE DEF y, err
<1> QED
  BY <1>1, <1>2, <1>3, <1>8, <1>9, OverStep DEF y

(* A job does not stop in time: the stop-all fails.                        *)
LEMMA jobsDoNotStopStep ==
  ASSUME IInv, NEW t \in Threads, jobsDoNotStop(t)
  PROVE  IInv'
<1> DEFINE y == thread[t]
<1>1. y.pc = "stopJobs" /\ UNCHANGED <<control, inventory, remote, faults>>
  BY DEF jobsDoNotStop
<1>2. \A q \in Peers : y.ops[q] \notin BusyOps
  BY <1>1, NotBusy
<1>3. /\ thread' = [thread EXCEPT ![t] = Over(y, "failed")]
      /\ broken' = (broken \/ "failed" = "failed")
      /\ faults' \in Nat
  BY ThreadFacts DEF jobsDoNotStop, Ends, Set, Failure
<1> HIDE DEF y
<1> QED
  BY <1>1, <1>2, <1>3, OverStep DEF y

(* A job is over and closes its done channel.                              *)
LEMMA jobClosesStep ==
  ASSUME IInv, NEW t \in Threads, jobCloses(t)
  PROVE  IInv'
<1> DEFINE y == thread[t]
           x == [y EXCEPT !.pc = "done"]
<1>1. /\ y \in ThreadType /\ Local(t, y) /\ y.pc = "recorded" /\ broken \in BOOLEAN /\ faults \in Nat
      /\ thread' = [thread EXCEPT ![t] = x]
      /\ UNCHANGED <<control, broken, inventory, remote, faults>>
  BY ThreadFacts DEF jobCloses, Set
<1>2. x \in ThreadType /\ x.pc = "done" /\ SameWork(x, y)
  BY <1>1 DEF ThreadType, ThreadPcs, SameWork
<1> HIDE DEF x
<1>3. t # Main /\ Action(x) = Action(y)
  BY <1>1, <1>2 DEF Local, FlowInv, MainInv, SameWork, Action
<1>4. FlowInv(t, x)
  BY <1>1, <1>2, <1>3 DEF Local, FlowInv, PlaceInv, JobInv, CancelInv, SameWork, Live
<1>5. OpsInv(x)
  BY <1>1, <1>2, <1>3 DEF Local, OpsInv, SameWork, Unused, Live
<1>6. Progress(t, x)
  BY <1>1, <1>2, <1>3 DEF Progress, SameWork, Joining, Live, Failing
<1> QED
  BY <1>1, <1>2, <1>4, <1>5, <1>6, OwnStep DEF Local

(* A join on a single Agent finds the Agent or is canceled.                *)
LEMMA selectBatchAgentStep ==
  ASSUME IInv, NEW t \in Threads, selectBatchAgent(t)
  PROVE  IInv'
<1> DEFINE y == thread[t]
<1>1. /\ y \in ThreadType /\ Local(t, y) /\ y.pc = "select" /\ broken \in BOOLEAN /\ faults \in Nat
      /\ UNCHANGED <<control, broken, inventory, remote, faults>>
  BY ThreadFacts DEF selectBatchAgent
<1>2. Action(y) \in Operations
  BY <1>1 DEF Local, FlowInv, PlaceInv
<1>3. CASE CtxDone(t) /\ thread' = [thread EXCEPT ![t] = Over(y, "canceled")]
  <2>1. canceled \/ y.canceled
    BY <1>3 DEF CtxDone
  <2>2. \A q \in Peers : y.ops[q] \notin BusyOps
    BY <1>1, NotBusy
  <2>3. broken' = (broken \/ "canceled" = "failed")
    BY <1>1
  <2> HIDE DEF y
  <2> QED
    BY <1>1, <1>3, <2>1, <2>2, <2>3, OverStep DEF y
<1>4. CASE \E a \in Roomy : thread' = [thread EXCEPT ![t] = [y EXCEPT !.pc = "work", !.goal = a]]
  <2>1. PICK a \in Roomy : thread' = [thread EXCEPT ![t] = [y EXCEPT !.pc = "work", !.goal = a]]
    BY <1>4
  <2> DEFINE x == [y EXCEPT !.pc = "work", !.goal = a]
  <2>2. a \in Agents
    BY DEF Roomy
  <2>3. x \in ThreadType /\ x.pc = "work" /\ SameWork(x, y)
    BY <1>1, <2>2 DEF ThreadType, ThreadPcs, SameWork
  <2>4. thread' = [thread EXCEPT ![t] = x]
    BY <2>1
  <2> HIDE DEF x
  <2>5. Action(x) = Action(y) /\ Live(x) /\ Live(y) /\ Action(y) # "stop-all"
    BY <1>1, <1>2, <2>3 DEF SameWork, Action, Live, Operations
  <2>6. FlowInv(t, x)
    <3>1. PlaceInv(t, x)
      BY <1>1, <1>2, <2>3, <2>5 DEF Local, FlowInv, PlaceInv, SameWork
    <3>2. t # Main => JobInv(t, x)
      BY <1>1, <2>3, <2>5 DEF Local, FlowInv, JobInv, SameWork
    <3>3. t = Main => MainInv(x) /\ StopInv(x)
      BY <1>1, <2>3, <2>5 DEF Local, FlowInv, MainInv, StopInv, SameWork
    <3>4. CancelInv(t, x)
      BY <1>1, <2>3, <2>5 DEF Local, FlowInv, CancelInv, SameWork, HasOp
    <3> QED
      BY <3>1, <3>2, <3>3, <3>4 DEF FlowInv
  <2>7. OpsInv(x)
    BY <1>1, <2>3, <2>5 DEF Local, OpsInv, SameWork, Unused, Live
  <2>8. Progress(t, x)
    BY <1>1, <2>3, <2>5 DEF Progress, SameWork, Joining, Failing
  <2> QED
    BY <1>1, <2>3, <2>4, <2>6, <2>7, <2>8, OwnStep DEF Local
<1> QED
  BY <1>3, <1>4 DEF selectBatchAgent, Set

-----------------------------------------------------------------------------
(* The operations of a thread.                                             *)

SharedTypes ==
  /\ nodes \in [Peers -> NodeStates]
  /\ reserved \in [Peers -> Agents \cup {NoGoal}]
  /\ participants \subseteq Agents
  /\ requests \in [Peers -> RequestType]
  /\ agents \in [Agents -> AgentType]
  /\ faults \in Nat

(* The operation q of thread t, in state y, becomes o.                     *)
OpMoves(t, q, y, o) ==
  /\ y = thread[t] /\ y.pc = "work" /\ y.ops[q] \notin {"none", "failed"}
  /\ o \in OpStates \ {"none"}
  /\ o = "canceled" => canceled \/ y.canceled \/ HasOp(y, {"failed", "canceled"})
  /\ o \in {"placing", "placed", "backoff"} => Action(y) = "join"
  /\ \/ thread' = [thread EXCEPT ![t] = [y EXCEPT !.ops[q] = o]]
     \/ thread' = [thread EXCEPT ![t] = [y EXCEPT !.ops[q] = o, !.stopErr = TRUE]]
  /\ broken' = (broken \/ o = "failed")
  /\ UNCHANGED control
  /\ \A p \in Peers : \/ p = q /\ Action(y) = "join"
                      \/ requests'[p] = requests[p] /\ reserved'[p] = reserved[p]
  /\ o \in Unsent /\ Action(y) = "join" => Unused(y, q)'
  /\ o = "calling" /\ Action(y) = "join" => requests'[q].gen = run.gen
  /\ o = "placed" => reserved'[q] \in Agents

(* An operation moves on: its thread stays at work, the others keep what   *)
(* they rely on, since a join is one thread's.                             *)
LEMMA OpStep ==
  ASSUME IInv, SharedTypes', RequestInv', AgentInv',
         NEW t \in Threads, NEW q \in Peers, NEW y, NEW o, OpMoves(t, q, y, o)
  PROVE  IInv'
<1> USE DEF OpMoves
<1> PICK x \in {[y EXCEPT !.ops[q] = o], [y EXCEPT !.ops[q] = o, !.stopErr = TRUE]} :
           thread' = [thread EXCEPT ![t] = x]
  OBVIOUS
<1>1. y \in ThreadType /\ Local(t, y) /\ TypeInv /\ run \in RunType /\ PlanInv /\ broken \in BOOLEAN
  BY ThreadFacts
<1>2. UNCHANGED <<plan, run, registered, canceled, stopRequested, asyncErr>>
  BY DEF control
<1>3. y.ops \in [Peers -> OpStates]
  BY <1>1 DEF ThreadType
<1>4. x \in ThreadType
  <2>1. [y.ops EXCEPT ![q] = o] \in [Peers -> OpStates]
    BY <1>3
  <2>2. [y EXCEPT !.ops[q] = o] \in ThreadType
    BY <1>1, <2>1 DEF ThreadType
  <2>3. [y EXCEPT !.ops[q] = o, !.stopErr = TRUE] \in ThreadType
    BY <1>1, <2>1 DEF ThreadType
  <2> QED
    BY <2>2, <2>3
<1>5. /\ x.phase = y.phase /\ x.gen = y.gen /\ x.canceled = y.canceled
      /\ x.err = y.err /\ x.rep = y.rep /\ x.pc = "work"
      /\ x.ops = [y.ops EXCEPT ![q] = o]
  <2>1. CASE x = [y EXCEPT !.ops[q] = o]
    BY <1>1, <2>1 DEF ThreadType
  <2>2. CASE x = [y EXCEPT !.ops[q] = o, !.stopErr = TRUE]
    BY <1>1, <2>2 DEF ThreadType
  <2> QED
    BY <2>1, <2>2
<1>6. x.ops[q] = o /\ \A p \in Peers \ {q} : x.ops[p] = y.ops[p]
  BY <1>3, <1>5
<1>7. thread' = [thread EXCEPT ![t] = x]
  OBVIOUS
<1>8. Action(x) = Action(y) /\ Live(x) /\ Live(y) /\ Action(y) \in Operations /\ Action(y) # "stop-all"
  BY <1>1, <1>5 DEF Action, Live, Local, FlowInv, PlaceInv, Operations
<1>9. HasOp(y, {"failed"}) => HasOp(x, {"failed"})
  BY <1>6 DEF HasOp
<1>10. FlowInv(t, x)
  <2>1. PlaceInv(t, x)
    BY <1>1, <1>5, <1>8 DEF Local, FlowInv, PlaceInv
  <2>2. t # Main => JobInv(t, x)
    BY <1>1, <1>5, <1>8 DEF Local, FlowInv, JobInv
  <2>3. t = Main => MainInv(x) /\ StopInv(x)
    BY <1>1, <1>5, <1>8 DEF Local, FlowInv, MainInv, StopInv
  <2>4. HasOp(y, {"failed", "canceled"}) => HasOp(x, {"failed"}) \/ canceled \/ x.canceled
    <3>1. HasOp(y, {"failed", "canceled"}) => HasOp(y, {"failed"}) \/ HasOp(y, {"canceled"})
      BY DEF HasOp
    <3>2. HasOp(y, {"canceled"}) => HasOp(y, {"failed"}) \/ canceled \/ y.canceled
      BY <1>1 DEF Local, FlowInv, CancelInv
    <3> QED
      BY <1>5, <1>9, <3>1, <3>2
  <2>5. HasOp(x, {"canceled"}) => o = "canceled" \/ HasOp(y, {"failed", "canceled"})
    BY <1>6 DEF HasOp
  <2>6. CancelInv(t, x)
    BY <1>1, <1>5, <2>4, <2>5 DEF Local, FlowInv, CancelInv
  <2> QED
    BY <2>1, <2>2, <2>3, <2>6 DEF FlowInv
<1>11. SameRun
  BY <1>1, <1>2 DEF SameRun, RunType
<1>12. FlowInv(t, x)'
  BY <1>1, <1>4, <1>8, <1>10, <1>11, FlowKept DEF TypeInv
<1>13. OpsInv(x)'
  <2>1. Action(x)' = Action(y) /\ run'.seq = run.seq
    BY <1>2, <1>8 DEF Action, Phases
  <2> SUFFICES ASSUME NEW p \in Peers
               PROVE  /\ x.ops[p] \in BusyOps => x.pc = "work"
                      /\ x.ops[p] # "none" => p <= run.seq
                      /\ x.ops[p] \in {"placing", "placed", "backoff"} => Action(y) = "join"
                      /\ x.ops[p] \in Unsent /\ Action(y) = "join" => Unused(x, p)'
                      /\ x.ops[p] = "calling" /\ Action(y) = "join" => requests'[p].gen = run'.gen
                      /\ x.ops[p] = "placed" => reserved'[p] \in Agents
    BY <2>1 DEF OpsInv
  <2>2. OpsInv(y)
    BY <1>1 DEF Local
  <2>3. CASE p = q
    <3>1. x.ops[p] = o /\ x.pc = "work"
      BY <1>5, <1>6, <2>3
    <3>2. q <= run.seq
      BY <2>2 DEF OpsInv
    <3>3. o \in Unsent /\ Action(y) = "join" => Unused(x, q)'
      BY <1>2, <1>8 DEF Unused, Live
    <3>4. run' = run
      BY <1>2
    <3> QED
      BY <2>3, <3>1, <3>2, <3>3, <3>4
  <2>4. CASE p # q
    BY <1>2, <1>8, <1>5, <1>6, <2>2, <2>4 DEF OpsInv, Unused
  <2> QED
    BY <2>3, <2>4
<1>14. Progress(t, x)
  <2>1. \A p \in Peers : Joining(x, p) => Joining(y, p)
    BY <1>6, <1>8 DEF Joining
  <2>2. Failing(y) => Failing(x)
    BY <1>5, <1>9 DEF Failing
  <2>3. o = "failed" => Failing(x)
    BY <1>5, <1>6 DEF Failing, HasOp
  <2> QED
    BY <1>8, <2>1, <2>2, <2>3 DEF Progress
<1>15. ASSUME NEW s \in Threads \ {t} PROVE Kept(s, thread[s])
  <2>1. StopKept(s)
    <3>1. t # Main => t \in registered
      BY <1>1, <1>8 DEF Local, FlowInv, JobInv
    <3> QED
      BY <3>1 DEF StopKept
  <2>2. OpsKept(thread[s])
    <3> SUFFICES ASSUME NEW p \in Peers, Action(thread[s]) = "join",
                        thread[s].ops[p] \in Unsent \cup {"calling"}
                 PROVE  requests'[p] = requests[p] /\ reserved'[p] = reserved[p]
      <4>1. OpsInv(thread[s])
        BY ThreadFacts DEF Local
      <4> QED
        BY <1>2, <4>1 DEF OpsKept, OpsInv, Unsent, Unused
    <3>1. CASE p = q /\ Action(y) = "join"
      <4>1. Joining(thread[s], q) /\ Joining(thread[t], q)
        BY <3>1 DEF Joining, Unsent
      <4> QED
        BY <4>1 DEF IInv, PairInv
    <3> QED
      BY <3>1
  <2> QED
    BY <2>1, <2>2 DEF Kept
<1>16. TypeInv'
  <2>1. JobNames' = JobNames /\ Threads' = Threads /\ Phases' = Phases
    BY <1>2 DEF JobNames, Threads, Phases
  <2>2. ThreadType' = ThreadType /\ RequestType' = RequestType
    BY <2>1 DEF ThreadType, RequestType
  <2>3. thread' \in [Threads -> ThreadType] /\ broken' \in BOOLEAN
    BY <1>1, <1>4, <1>7 DEF TypeInv
  <2> QED
    BY <1>1, <1>2, <2>1, <2>2, <2>3 DEF TypeInv, SharedTypes
<1> QED
  BY <1>2, <1>4, <1>7, <1>11, <1>12, <1>13, <1>14, <1>15, <1>16, ThreadStep DEF Local

(* What operations read and write, and most leave alone.                   *)
LEMMA SharedSame ==
  ASSUME IInv, UNCHANGED <<control, nodes, participants, requests, agents>>,
         reserved' \in [Peers -> Agents \cup {NoGoal}], faults' \in Nat
  PROVE  SharedTypes' /\ RequestInv' /\ AgentInv'
<1>1. UNCHANGED <<plan, run>> /\ TypeInv
  BY DEF control, IInv
<1>2. RequestType' = RequestType
  BY <1>1 DEF RequestType, Phases
<1>3. SharedTypes'
  BY <1>1, <1>2 DEF SharedTypes, TypeInv
<1>4. RequestInv' /\ AgentInv'
  BY <1>1 DEF IInv, RequestInv, AgentInv
<1> QED
  BY <1>3, <1>4

(* An operation at work is its thread's, which is at work.                 *)
LEMMA AtWork ==
  ASSUME IInv, NEW t \in Threads, NEW q \in Peers, thread[t].ops[q] \in BusyOps
  PROVE  /\ thread[t].pc = "work" /\ thread[t].ops[q] # "none" /\ thread[t].ops[q] # "failed"
         /\ Phase(t).action = Action(thread[t]) /\ Live(thread[t])
         /\ thread[t].ops[q] \in {"placing", "placed", "backoff"} => Action(thread[t]) = "join"
         /\ thread[t].ops[q] = "placed" => reserved[q] \in Agents
         /\ thread[t].ops[q] \in Unsent /\ Action(thread[t]) = "join" => Unused(thread[t], q)
         /\ q <= run.seq
<1>1. OpsInv(thread[t])
  BY ThreadFacts DEF Local
<1>2. thread[t].ops[q] # "none" /\ thread[t].ops[q] # "failed"
  BY DEF BusyOps
<1>3. Phase(t).action = Action(thread[t])
  BY DEF Phase, Action
<1>4. thread[t].pc = "work"
  BY <1>1 DEF OpsInv
<1> QED
  BY <1>1, <1>2, <1>3, <1>4 DEF OpsInv, Live

(* The context of an operation is done for a reason that its thread or the *)
(* run still shows.                                                        *)
LEMMA DoneContext ==
  ASSUME NEW t, OpCtxDone(t)
  PROVE  canceled \/ thread[t].canceled \/ HasOp(thread[t], {"failed", "canceled"})
BY DEF OpCtxDone, CtxDone, Errored, OpsIn, HasOp

(* An operation that is over, or goes on without touching what is shared.  *)
LEMMA OwnOpStep ==
  ASSUME IInv, NEW t \in Threads, NEW q \in Peers, NEW y, y = thread[t],
         y.pc = "work", y.ops[q] \in {"todo"} \cup BusyOps, NEW o \in OpStates \ {"none", "todo", "placed", "backoff"},
         o = "canceled" => OpCtxDone(t),
         o = "placing" => Action(y) = "join" /\ Unused(y, q),
         o = "calling" => Action(y) # "join",
         thread' = [thread EXCEPT ![t] = [y EXCEPT !.ops[q] = o]],
         broken' = (broken \/ o = "failed"), faults' \in Nat,
         UNCHANGED <<control, nodes, participants, requests, agents>>,
         \/ UNCHANGED reserved
         \/ Action(y) = "join" /\ reserved' = [reserved EXCEPT ![q] = NoGoal]
  PROVE  IInv'
<1>1. reserved \in [Peers -> Agents \cup {NoGoal}] /\ run' = run
  BY DEF IInv, TypeInv, control
<1>2. reserved' \in [Peers -> Agents \cup {NoGoal}]
  BY <1>1
<1>3. SharedTypes' /\ RequestInv' /\ AgentInv'
  BY <1>2, SharedSame
<1>4. y.ops[q] # "none" /\ y.ops[q] # "failed"
  BY DEF BusyOps
<1>5. o = "canceled" => canceled \/ y.canceled \/ HasOp(y, {"failed", "canceled"})
  BY DoneContext
<1>6. o \in {"placing", "placed", "backoff"} => Action(y) = "join"
  OBVIOUS
<1>7. \A p \in Peers : \/ p = q /\ Action(y) = "join"
                       \/ requests'[p] = requests[p] /\ reserved'[p] = reserved[p]
  BY <1>1
<1>8. o \in Unsent /\ Action(y) = "join" => Unused(y, q)'
  BY <1>1 DEF Unused, Unsent
<1>9. o \in OpStates \ {"none"} /\ o # "placed"
  OBVIOUS
<1>10. o = "placed" => reserved'[q] \in Agents
  BY <1>9
<1>11. o = "calling" /\ Action(y) = "join" => requests'[q].gen = run.gen
  OBVIOUS
<1>12. OpMoves(t, q, y, o)
  BY <1>4, <1>5, <1>6, <1>7, <1>8, <1>9, <1>10, <1>11 DEF OpMoves
<1> QED
  BY <1>3, <1>12, OpStep

(* A worker takes the next operation; a join is placed first.              *)
LEMMA dispatchStep ==
  ASSUME IInv, NEW t \in Threads, NEW q \in Peers, dispatch(t, q)
  PROVE  IInv'
<1> DEFINE y == thread[t]
           o == IF Phase(t).action = "join" THEN "placing" ELSE "calling"
<1>1. /\ y.pc = "work" /\ y.ops[q] = "todo" /\ Phase(t).action = Action(y)
      /\ Local(t, y) /\ faults \in Nat /\ broken \in BOOLEAN
  BY ThreadFacts DEF dispatch, OpsIn, Phase, Action
<1>2. thread' = [thread EXCEPT ![t] = [y EXCEPT !.ops[q] = o]]
      /\ UNCHANGED <<control, broken, inventory, remote, faults>>
  BY DEF dispatch, Set
<1>3. o \in OpStates \ {"none", "todo", "placed", "backoff"} /\ o # "canceled" /\ o # "failed"
  BY DEF OpStates
<1>4. /\ o = "placing" => Action(y) = "join" /\ Unused(y, q)
      /\ o = "calling" => Action(y) # "join"
  BY <1>1 DEF Local, OpsInv, Unsent
<1>5. UNCHANGED <<nodes, reserved, participants, requests, agents>> /\ broken' = (broken \/ o = "failed")
  BY <1>1, <1>2, <1>3 DEF inventory, remote
<1> HIDE DEF y, o
<1> QED
  BY <1>1, <1>2, <1>3, <1>4, <1>5, OwnOpStep DEF y

(* Failures are counted.                                                   *)
LEMMA FaultCounts ==
  ASSUME IInv, Fault
  PROVE  faults' \in Nat
BY DEF IInv, TypeInv, Fault

(* An operation that is over and changes nothing but its reservation.      *)
LEMMA OpEndsStep ==
  ASSUME IInv, NEW t \in Threads, NEW q \in Peers, thread[t].ops[q] \in BusyOps,
         NEW o \in {"ok", "failed", "canceled"}, OpEnds(t, q, o), o = "canceled" => OpCtxDone(t),
         faults' \in Nat, UNCHANGED <<control, nodes, participants, remote>>,
         \/ UNCHANGED reserved
         \/ Action(thread[t]) = "join" /\ reserved' = [reserved EXCEPT ![q] = NoGoal]
  PROVE  IInv'
<1> DEFINE y == thread[t]
<1>1. y.pc = "work" /\ y.ops[q] \in {"todo"} \cup BusyOps
  BY AtWork
<1>2. /\ thread' = [thread EXCEPT ![t] = [y EXCEPT !.ops[q] = o]]
      /\ broken' = (broken \/ o = "failed")
  BY DEF OpEnds, Set, Failure
<1>3. UNCHANGED <<requests, agents>>
  BY DEF remote
<1>4. o \in OpStates \ {"none", "todo", "placed", "backoff"} /\ o # "placing" /\ o # "calling"
  BY DEF OpStates
<1>5. \/ UNCHANGED reserved
      \/ Action(y) = "join" /\ reserved' = [reserved EXCEPT ![q] = NoGoal]
  OBVIOUS
<1> HIDE DEF y
<1> QED
  BY <1>1, <1>2, <1>3, <1>4, <1>5, OwnOpStep DEF y

(* A join reserves an Agent, fails, or is canceled.                        *)
LEMMA acquireAgentStep ==
  ASSUME IInv, NEW t \in Threads, NEW q \in Peers, acquireAgent(t, q)
  PROVE  IInv'
<1> DEFINE y == thread[t]
<1>1. /\ y.ops[q] = "placing" /\ y.ops[q] \in BusyOps /\ y.ops[q] \in Unsent
      /\ UNCHANGED <<control, nodes, participants, remote, faults>>
      /\ faults' \in Nat /\ broken \in BOOLEAN
  BY ThreadFacts DEF acquireAgent, BusyOps, Unsent
<1>2. CASE OpCtxDone(t) /\ OpEnds(t, q, "canceled") /\ UNCHANGED reserved
  BY <1>1, <1>2, OpEndsStep
<1>3. CASE \E a \in Candidates(t) :
              /\ reserved' = [reserved EXCEPT ![q] = a]
              /\ Set(t, [thread[t] EXCEPT !.ops[q] = "placed"]) /\ UNCHANGED broken
  <2>1. PICK a \in Candidates(t) :
              /\ reserved' = [reserved EXCEPT ![q] = a]
              /\ Set(t, [thread[t] EXCEPT !.ops[q] = "placed"]) /\ UNCHANGED broken
    BY <1>3
  <2>2. a \in Agents
    BY DEF Candidates, Roomy
  <2>3. reserved \in [Peers -> Agents \cup {NoGoal}]
    BY DEF IInv, TypeInv
  <2>4. reserved' \in [Peers -> Agents \cup {NoGoal}] /\ reserved'[q] = a
        /\ \A p \in Peers \ {q} : reserved'[p] = reserved[p]
    BY <2>1, <2>2, <2>3
  <2>5. SharedTypes' /\ RequestInv' /\ AgentInv'
    BY <1>1, <2>4, SharedSame DEF remote
  <2>6. y.pc = "work" /\ Action(y) = "join" /\ Unused(y, q)
    BY <1>1, AtWork
  <2>7. UNCHANGED <<run, requests>>
    BY <1>1 DEF control, remote
  <2>8. Unused(y, q)'
    BY <2>6, <2>7 DEF Unused, Live
  <2>9. OpMoves(t, q, y, "placed")
    <3>1. thread' = [thread EXCEPT ![t] = [y EXCEPT !.ops[q] = "placed"]] /\ "placed" \in OpStates
      BY <2>1 DEF Set, OpStates
    <3>2. \A p \in Peers : p = q \/ (requests'[p] = requests[p] /\ reserved'[p] = reserved[p])
      BY <2>4, <2>7
    <3> HIDE DEF y
    <3>3. y = thread[t]
      BY DEF y
    <3> QED
      BY <1>1, <2>1, <2>2, <2>4, <2>6, <2>8, <3>1, <3>2, <3>3 DEF OpMoves
  <2> HIDE DEF y
  <2> QED
    BY <2>5, <2>9, OpStep
<1> QED
  BY <1>2, <1>3 DEF acquireAgent

(* A create is sent, and the Agent is remembered before it is.             *)
LEMMA sendCreateStep ==
  ASSUME IInv, NEW t \in Threads, NEW q \in Peers, sendCreate(t, q)
  PROVE  IInv'
<1> DEFINE y == thread[t]
<1>1. /\ y.ops[q] = "placed" /\ y.ops[q] \in BusyOps /\ y.ops[q] \in Unsent
      /\ UNCHANGED <<control, nodes, agents>> /\ UNCHANGED <<plan, run>>
      /\ faults \in Nat /\ broken \in BOOLEAN
  BY ThreadFacts DEF sendCreate, BusyOps, Unsent, control
<1>2. /\ y.pc = "work" /\ Action(y) = "join" /\ reserved[q] \in Agents /\ q <= run.seq
      /\ requests[q].st = "new" /\ requests[q].gen = run.gen
  BY <1>1, AtWork DEF Unused
<1>3. /\ reserved \in [Peers -> Agents \cup {NoGoal}] /\ participants \subseteq Agents
      /\ requests \in [Peers -> RequestType] /\ nodes \in [Peers -> NodeStates]
      /\ agents \in [Agents -> AgentType] /\ run.seq \in Nat /\ run.gen \in Nat
      /\ RequestInv /\ AgentInv
  BY DEF IInv, TypeInv, RunType
<1>4. RequestType' = RequestType /\ AgentType' = AgentType
  BY <1>1 DEF RequestType, Phases, AgentType
<1>5. /\ participants \cup {reserved[q]} \subseteq Agents
      /\ [reserved EXCEPT ![q] = NoGoal] \in [Peers -> Agents \cup {NoGoal}]
      /\ \A p \in Peers \ {q} : [reserved EXCEPT ![q] = NoGoal][p] = reserved[p]
  BY <1>2, <1>3
<1>6. CASE /\ rememberRunAgent(t, q)
           /\ requests' = [requests EXCEPT ![q].st = "sent", ![q].to = reserved[q]]
           /\ Set(t, [thread[t] EXCEPT !.ops[q] = "calling"])
           /\ UNCHANGED <<broken, reserved, faults>>
  <2>1. /\ requests'[q] = [requests[q] EXCEPT !.st = "sent", !.to = reserved[q]]
        /\ \A p \in Peers \ {q} : requests'[p] = requests[p]
    BY <1>3, <1>6
  <2>2. /\ requests'[q].st = "sent" /\ requests'[q].to = reserved[q]
        /\ requests'[q].gen = run.gen /\ requests'[q] \in RequestType
    BY <1>2, <1>3, <2>1 DEF RequestType, Sent
  <2>3. requests' \in [Peers -> RequestType]
    BY <1>3, <1>6, <2>1, <2>2
  <2>4. SharedTypes'
    BY <1>1, <1>3, <1>4, <1>5, <1>6, <2>3 DEF SharedTypes, rememberRunAgent
  <2>5. RequestInv'
    <3> SUFFICES ASSUME NEW p \in Peers
                 PROVE  /\ p > run.seq => requests'[p] = NoRequest /\ nodes[p] = "none"
                        /\ requests'[p].gen <= run.gen
                        /\ requests'[p].st \in Sent => requests'[p].to \in participants'
                        /\ requests'[p].st = "sent" /\ requests'[p].gen < run.gen =>
                             requests'[p].gen <= agents[requests'[p].to].fence
      BY <1>1 DEF RequestInv
    <3>1. CASE p = q
      <4>1. reserved[q] \in participants'
        BY <1>6 DEF rememberRunAgent
      <4>2. q \in Nat /\ ~(q > run.seq) /\ run.gen <= run.gen /\ ~(run.gen < run.gen)
        BY <1>2, <1>3, PhaseBounds DEF Peers
      <4> QED
        BY <2>2, <3>1, <4>1, <4>2
    <3>2. CASE p # q
      <4>1. requests'[p] = requests[p] /\ participants \subseteq participants'
        BY <1>6, <2>1, <3>2 DEF rememberRunAgent
      <4> QED
        BY <1>3, <4>1 DEF RequestInv
    <3> QED
      BY <3>1, <3>2
  <2>6. AgentInv'
    <3>1. \A a \in Agents : q \notin agents[a].peers
      BY <1>2, <1>3 DEF AgentInv
    <3>2. \A a \in Agents : \A p \in agents[a].peers : p \in Peers
      BY <1>3 DEF AgentType
    <3> QED
      BY <1>1, <1>3, <2>1, <3>1, <3>2 DEF AgentInv
  <2>7. OpMoves(t, q, y, "calling")
    <3>1. thread' = [thread EXCEPT ![t] = [y EXCEPT !.ops[q] = "calling"]] /\ "calling" \in OpStates \ {"none"}
      BY <1>6 DEF Set, OpStates
    <3>2. \A p \in Peers : p = q \/ (requests'[p] = requests[p] /\ reserved'[p] = reserved[p])
      BY <1>6, <2>1
    <3>3. broken' = (broken \/ "calling" = "failed") /\ "calling" \notin Unsent
      BY <1>1, <1>6 DEF Unsent
    <3> HIDE DEF y
    <3>4. y = thread[t]
      BY DEF y
    <3> QED
      BY <1>1, <1>2, <2>2, <3>1, <3>2, <3>3, <3>4 DEF OpMoves
  <2> HIDE DEF y
  <2> QED
    BY <2>4, <2>5, <2>6, <2>7, OpStep
<1>7. CASE /\ OpCtxDone(t)
           /\ rememberRunAgent(t, q)
           /\ OpEnds(t, q, "canceled") /\ releaseReservation(q)
           /\ UNCHANGED <<requests, faults>>
  <2>1. SharedTypes'
    BY <1>1, <1>3, <1>4, <1>5, <1>7 DEF SharedTypes, rememberRunAgent, releaseReservation
  <2>2. RequestInv' /\ AgentInv'
    BY <1>1, <1>3, <1>7 DEF RequestInv, AgentInv, rememberRunAgent
  <2>3. OpMoves(t, q, y, "canceled")
    <3>1. thread' = [thread EXCEPT ![t] = [y EXCEPT !.ops[q] = "canceled"]] /\ "canceled" \in OpStates \ {"none"}
      BY <1>7 DEF OpEnds, Set, OpStates
    <3>2. \A p \in Peers : p = q \/ (requests'[p] = requests[p] /\ reserved'[p] = reserved[p])
      BY <1>5, <1>7 DEF releaseReservation
    <3>3. broken' = (broken \/ "canceled" = "failed") /\ "canceled" \notin Unsent
      BY <1>7 DEF Unsent, OpEnds, Failure
    <3>4. canceled \/ y.canceled \/ HasOp(y, {"failed", "canceled"})
      BY <1>7, DoneContext
    <3> HIDE DEF y
    <3>5. y = thread[t]
      BY DEF y
    <3> QED
      BY <1>1, <1>2, <3>1, <3>2, <3>3, <3>4, <3>5 DEF OpMoves
  <2> HIDE DEF y
  <2> QED
    BY <2>1, <2>2, <2>3, OpStep
<1>8. CASE /\ Fault
           /\ OpEnds(t, q, "failed") /\ releaseReservation(q)
           /\ UNCHANGED <<participants, requests>>
  BY <1>1, <1>2, <1>8, FaultCounts, OpEndsStep DEF releaseReservation, remote
<1> QED
  BY <1>6, <1>7, <1>8 DEF sendCreate

(* The caller gives up; the request stays on its way.                      *)
LEMMA createAbandonedStep ==
  ASSUME IInv, NEW t \in Threads, NEW q \in Peers, createAbandoned(t, q)
  PROVE  IInv'
<1>1. /\ thread[t].ops[q] \in BusyOps /\ Action(thread[t]) = "join"
      /\ reserved' = [reserved EXCEPT ![q] = NoGoal]
      /\ UNCHANGED <<control, nodes, participants, remote>>
  BY DEF createAbandoned, Is, Phase, Action, BusyOps, releaseReservation
<1>2. CASE Fault /\ OpEnds(t, q, "failed")
  BY <1>1, <1>2, FaultCounts, OpEndsStep
<1>3. CASE OpCtxDone(t) /\ OpEnds(t, q, "canceled") /\ UNCHANGED faults
  BY <1>1, <1>3, ThreadFacts, OpEndsStep
<1> QED
  BY <1>2, <1>3 DEF createAbandoned

(* A create that met a full Agent is tried again or canceled.              *)
LEMMA backsOffStep ==
  ASSUME IInv, NEW t \in Threads, NEW q \in Peers, backsOff(t, q)
  PROVE  IInv'
<1> DEFINE y == thread[t]
<1>1. /\ y.ops[q] = "backoff" /\ y.ops[q] \in BusyOps /\ y.ops[q] \in Unsent
      /\ UNCHANGED <<control, inventory, remote, faults>> /\ faults' \in Nat /\ broken \in BOOLEAN
      /\ UNCHANGED <<nodes, reserved, participants, requests, agents>>
  BY ThreadFacts DEF backsOff, BusyOps, Unsent, inventory, remote
<1>2. y.pc = "work" /\ Action(y) = "join" /\ Unused(y, q)
  BY <1>1, AtWork
<1>3. CASE Set(t, [thread[t] EXCEPT !.ops[q] = "placing"]) /\ UNCHANGED broken
  <2>1. thread' = [thread EXCEPT ![t] = [y EXCEPT !.ops[q] = "placing"]]
        /\ broken' = (broken \/ "placing" = "failed")
        /\ "placing" \in OpStates \ {"none", "todo", "placed", "backoff"}
    BY <1>1, <1>3 DEF Set, OpStates
  <2> HIDE DEF y
  <2> QED
    BY <1>1, <1>2, <2>1, OwnOpStep DEF y
<1>4. CASE OpCtxDone(t) /\ OpEnds(t, q, "canceled")
  BY <1>1, <1>4, OpEndsStep
<1> QED
  BY <1>3, <1>4 DEF backsOff

(* An operation that went wrong is tolerated, fails its phase, or was      *)
(* canceled.                                                               *)
LEMMA phaseOperationErrorStep ==
  ASSUME IInv, NEW t \in Threads, NEW q \in Peers, thread[t].ops[q] \in BusyOps,
         phaseOperationError(t, q), UNCHANGED <<control, inventory, remote>>
  PROVE  IInv'
<1>1. UNCHANGED <<nodes, reserved, participants>> /\ faults \in Nat
  BY ThreadFacts DEF inventory
<1>2. CASE OpCtxDone(t) /\ OpEnds(t, q, "canceled") /\ UNCHANGED faults
  BY <1>1, <1>2, OpEndsStep
<1>3. CASE OpEnds(t, q, "ok") /\ UNCHANGED faults
  BY <1>1, <1>3, OpEndsStep
<1>4. CASE Fault /\ OpEnds(t, q, "failed")
  BY <1>1, <1>4, FaultCounts, OpEndsStep
<1>5. CASE OpEnds(t, q, "failed") /\ UNCHANGED faults
  BY <1>1, <1>5, OpEndsStep
<1> QED
  BY <1>2, <1>3, <1>4, <1>5 DEF phaseOperationError

(* A publication succeeds or goes wrong.                                   *)
LEMMA publishesStep ==
  ASSUME IInv, NEW t \in Threads, NEW q \in Peers, publishes(t, q)
  PROVE  IInv'
<1>1. thread[t].ops[q] \in BusyOps /\ UNCHANGED <<control, inventory, remote>>
  BY DEF publishes, BusyOps
<1>2. CASE OpEnds(t, q, "ok") /\ UNCHANGED faults
  BY <1>1, <1>2, ThreadFacts, OpEndsStep DEF inventory
<1>3. CASE phaseOperationError(t, q)
  BY <1>1, <1>3, phaseOperationErrorStep
<1> QED
  BY <1>2, <1>3 DEF publishes

(* The answer of an Agent is read: made, or full and to be placed again.   *)
LEMMA createAnsweredStep ==
  ASSUME IInv, NEW t \in Threads, NEW q \in Peers, createAnswered(t, q)
  PROVE  IInv'
<1> DEFINE y == thread[t]
<1>1. /\ y.ops[q] = "calling" /\ y.ops[q] \in BusyOps /\ Action(y) = "join"
      /\ reserved' = [reserved EXCEPT ![q] = NoGoal]
      /\ UNCHANGED <<control, participants, agents, faults>> /\ UNCHANGED <<plan, run>>
      /\ faults \in Nat /\ broken \in BOOLEAN
  BY ThreadFacts DEF createAnswered, BusyOps, Is, Phase, Action, releaseReservation, control
<1>2. y.pc = "work" /\ q <= run.seq /\ requests[q].gen = run.gen
  BY <1>1, AtWork, ThreadFacts DEF Local, OpsInv
<1>3. /\ reserved \in [Peers -> Agents \cup {NoGoal}] /\ participants \subseteq Agents
      /\ requests \in [Peers -> RequestType] /\ nodes \in [Peers -> NodeStates]
      /\ agents \in [Agents -> AgentType] /\ run.seq \in Nat /\ run.gen \in Nat
      /\ RequestInv /\ AgentInv
  BY DEF IInv, TypeInv, RunType
<1>4. RequestType' = RequestType /\ AgentType' = AgentType
  BY <1>1 DEF RequestType, Phases, AgentType
<1>5. /\ reserved' \in [Peers -> Agents \cup {NoGoal}]
      /\ \A p \in Peers \ {q} : reserved'[p] = reserved[p]
  BY <1>1, <1>3
<1>6. \A p \in Peers : p > run.seq => p # q
  BY <1>2, <1>3, PhaseBounds DEF Peers
<1>7. CASE /\ nodes' = [nodes EXCEPT ![q] = IF @ = "none" THEN "starting" ELSE @]
           /\ OpEnds(t, q, "ok") /\ UNCHANGED requests
  <2>1. nodes' \in [Peers -> NodeStates] /\ \A p \in Peers : p # q => nodes'[p] = nodes[p]
    BY <1>3, <1>7 DEF NodeStates
  <2>2. SharedTypes'
    BY <1>1, <1>3, <1>4, <1>5, <1>7, <2>1 DEF SharedTypes
  <2>3. RequestInv'
    BY <1>1, <1>3, <1>6, <1>7, <2>1 DEF RequestInv
  <2>4. AgentInv'
    BY <1>1, <1>3, <1>7 DEF AgentInv
  <2>5. OpMoves(t, q, y, "ok")
    <3>1. thread' = [thread EXCEPT ![t] = [y EXCEPT !.ops[q] = "ok"]] /\ "ok" \in OpStates \ {"none"}
      BY <1>7 DEF OpEnds, Set, OpStates
    <3>2. \A p \in Peers : p = q \/ (requests'[p] = requests[p] /\ reserved'[p] = reserved[p])
      BY <1>5, <1>7
    <3>3. broken' = (broken \/ "ok" = "failed") /\ "ok" \notin Unsent
      BY <1>7 DEF Unsent, OpEnds, Failure
    <3> HIDE DEF y
    <3>4. y = thread[t]
      BY DEF y
    <3> QED
      BY <1>1, <1>2, <3>1, <3>2, <3>3, <3>4 DEF OpMoves
  <2> HIDE DEF y
  <2> QED
    BY <2>2, <2>3, <2>4, <2>5, OpStep
<1>8. CASE /\ requests[q].st = "full"
           /\ Set(t, [thread[t] EXCEPT !.ops[q] = "backoff"])
           /\ requests' = [requests EXCEPT ![q].st = "new", ![q].to = NoGoal]
           /\ UNCHANGED <<nodes, broken>>
  <2>1. /\ requests'[q] = [requests[q] EXCEPT !.st = "new", !.to = NoGoal]
        /\ \A p \in Peers \ {q} : requests'[p] = requests[p]
    BY <1>3, <1>8
  <2>2. /\ requests'[q].st = "new" /\ requests'[q].gen = run.gen /\ requests'[q] \in RequestType
    BY <1>2, <1>3, <2>1 DEF RequestType
  <2>3. requests' \in [Peers -> RequestType]
    BY <1>3, <1>8, <2>1, <2>2
  <2>4. SharedTypes'
    BY <1>1, <1>3, <1>4, <1>5, <1>8, <2>3 DEF SharedTypes
  <2>5. RequestInv'
    <3> SUFFICES ASSUME NEW p \in Peers
                 PROVE  /\ p > run.seq => requests'[p] = NoRequest /\ nodes[p] = "none"
                        /\ requests'[p].gen <= run.gen
                        /\ requests'[p].st \in Sent => requests'[p].to \in participants
                        /\ requests'[p].st = "sent" /\ requests'[p].gen < run.gen =>
                             requests'[p].gen <= agents[requests'[p].to].fence
      BY <1>1, <1>8 DEF RequestInv
    <3>1. CASE p = q
      BY <1>3, <1>6, <2>2, <3>1 DEF Sent
    <3>2. CASE p # q
      BY <1>3, <2>1, <3>2 DEF RequestInv
    <3> QED
      BY <3>1, <3>2
  <2>6. AgentInv'
    <3>1. \A a \in Agents : q \notin agents[a].peers
      BY <1>8, <1>3 DEF AgentInv
    <3>2. \A a \in Agents : \A p \in agents[a].peers : p \in Peers
      BY <1>3 DEF AgentType
    <3> QED
      BY <1>1, <1>3, <2>1, <3>1, <3>2 DEF AgentInv
  <2>7. OpMoves(t, q, y, "backoff")
    <3>1. thread' = [thread EXCEPT ![t] = [y EXCEPT !.ops[q] = "backoff"]] /\ "backoff" \in OpStates \ {"none"}
      BY <1>8 DEF Set, OpStates
    <3>2. \A p \in Peers : p = q \/ (requests'[p] = requests[p] /\ reserved'[p] = reserved[p])
      BY <1>5, <2>1
    <3>3. broken' = (broken \/ "backoff" = "failed")
      BY <1>1, <1>8
    <3>4. Unused(y, q)'
      BY <1>1, <2>2 DEF Unused
    <3> HIDE DEF y
    <3>5. y = thread[t]
      BY DEF y
    <3> QED
      BY <1>1, <1>2, <3>1, <3>2, <3>3, <3>4, <3>5 DEF OpMoves
  <2> HIDE DEF y
  <2> QED
    BY <2>4, <2>5, <2>6, <2>7, OpStep
<1> QED
  BY <1>7, <1>8 DEF createAnswered

(* A stop takes a Peer from its Agent and nothing else.                    *)
Shrinks ==
  /\ agents' \in [Agents -> AgentType]
  /\ \A a \in Agents : agents'[a].fence = agents[a].fence /\ agents'[a].peers \subseteq agents[a].peers

(* An Agent that stops a Peer has no more Peers than before.               *)
LEMMA StopShrinks ==
  ASSUME IInv, NEW q \in Peers, AgentStops(q) \/ UNCHANGED agents
  PROVE  Shrinks
<1>1. agents \in [Agents -> AgentType]
  BY DEF IInv, TypeInv
<1>2. CASE AgentStops(q)
  <2> DEFINE b == requests[q].to
             gone == [agents EXCEPT ![b].peers = @ \ {q}]
  <2>1. agents' = gone
    BY <1>2 DEF AgentStops
  <2> HIDE DEF b
  <2>2. ASSUME NEW a \in Agents
        PROVE  /\ gone[a] \in AgentType /\ gone[a].fence = agents[a].fence
               /\ gone[a].peers \subseteq agents[a].peers
    <3>1. CASE a = b
      BY <1>1, <3>1 DEF AgentType
    <3>2. CASE a # b
      BY <1>1, <3>2
    <3> QED
      BY <3>1, <3>2
  <2> QED
    BY <1>1, <2>1, <2>2 DEF Shrinks
<1>3. CASE UNCHANGED agents
  BY <1>1, <1>3 DEF Shrinks
<1> QED
  BY <1>2, <1>3

(* Fewer Peers on the Agents disturb nothing that is shared.               *)
LEMMA ShrunkShared ==
  ASSUME IInv, UNCHANGED <<plan, run, requests, reserved, participants>>, Shrinks,
         nodes' \in [Peers -> NodeStates], \A p \in Peers : p > run.seq => nodes'[p] = nodes[p],
         faults' \in Nat
  PROVE  SharedTypes' /\ RequestInv' /\ AgentInv'
<1>1. TypeInv /\ RequestInv /\ AgentInv
  BY DEF IInv
<1>2. RequestType' = RequestType /\ AgentType' = AgentType
  BY DEF RequestType, Phases, AgentType
<1>3. SharedTypes'
  BY <1>1, <1>2 DEF SharedTypes, TypeInv, Shrinks
<1>4. RequestInv'
  <2>1. \A p \in Peers : requests[p].st \in Sent => requests[p].to \in Agents
    BY <1>1 DEF RequestInv, TypeInv
  <2> QED
    BY <1>1, <2>1 DEF RequestInv, Shrinks, Sent
<1>5. AgentInv'
  BY <1>1 DEF AgentInv, Shrinks
<1> QED
  BY <1>3, <1>4, <1>5

(* A publication or a leave is over.                                       *)
LEMMA StopOpStep ==
  ASSUME IInv, NEW t \in Threads, NEW q \in Peers, thread[t].ops[q] = "calling",
         NEW o \in {"ok", "failed", "canceled"}, o = "canceled" => OpCtxDone(t),
         \/ Set(t, [thread[t] EXCEPT !.ops[q] = o])
         \/ Set(t, [thread[t] EXCEPT !.ops[q] = o, !.stopErr = TRUE]),
         Failure(o), UNCHANGED <<control, reserved, participants, requests>>, Shrinks,
         nodes' = nodes \/ nodes' = [nodes EXCEPT ![q] = "stopping"], faults' \in Nat
  PROVE  IInv'
<1> DEFINE y == thread[t]
<1>1. /\ y.pc = "work" /\ y.ops[q] \notin {"none", "failed"} /\ q <= run.seq
      /\ UNCHANGED <<plan, run>>
  BY AtWork DEF BusyOps, control
<1>2. nodes \in [Peers -> NodeStates] /\ run.seq \in Nat
  BY DEF IInv, TypeInv, RunType
<1>3. \A p \in Peers : p > run.seq => p # q
  BY <1>1, <1>2, PhaseBounds DEF Peers
<1>4. nodes' \in [Peers -> NodeStates] /\ \A p \in Peers : p > run.seq => nodes'[p] = nodes[p]
  BY <1>2, <1>3 DEF NodeStates
<1>5. SharedTypes' /\ RequestInv' /\ AgentInv'
  BY <1>1, <1>4, ShrunkShared
<1>6. OpMoves(t, q, y, o)
  <2>1. \/ thread' = [thread EXCEPT ![t] = [y EXCEPT !.ops[q] = o]]
        \/ thread' = [thread EXCEPT ![t] = [y EXCEPT !.ops[q] = o, !.stopErr = TRUE]]
    BY DEF Set
  <2>2. o \in OpStates \ {"none"} /\ o \notin Unsent /\ o # "calling" /\ o \notin {"placing", "placed", "backoff"}
    BY DEF OpStates, Unsent
  <2>3. broken' = (broken \/ o = "failed")
    BY DEF Failure
  <2>4. o = "canceled" => canceled \/ y.canceled \/ HasOp(y, {"failed", "canceled"})
    BY DoneContext
  <2> HIDE DEF y
  <2>5. y = thread[t]
    BY DEF y
  <2> QED
    BY <1>1, <2>1, <2>2, <2>3, <2>4, <2>5 DEF OpMoves
<1> HIDE DEF y
<1> QED
  BY <1>5, <1>6, OpStep

(* A Peer is stopped and marked as stopping.                               *)
LEMMA leavesStep ==
  ASSUME IInv, NEW t \in Threads, NEW q \in Peers, leaves(t, q)
  PROVE  IInv'
<1>1. Shrinks
  BY StopShrinks DEF leaves
<1>2. /\ thread[t].ops[q] = "calling" /\ faults' \in Nat
      /\ nodes' = [nodes EXCEPT ![q] = "stopping"]
      /\ Set(t, [thread[t] EXCEPT !.ops[q] = "ok"]) /\ Failure("ok")
      /\ UNCHANGED <<control, reserved, participants, requests>>
  BY ThreadFacts DEF leaves, OpEnds
<1> QED
  BY <1>1, <1>2, StopOpStep

(* The answer is lost, whether or not the Agent stopped the Peer.          *)
LEMMA callFailsStep ==
  ASSUME IInv, NEW t \in Threads, NEW q \in Peers, callFails(t, q)
  PROVE  IInv'
<1>1. Shrinks
  BY StopShrinks DEF callFails
<1>2. thread[t].ops[q] = "calling" /\ UNCHANGED <<control, reserved, participants, requests>> /\ nodes' = nodes
      /\ broken \in BOOLEAN
  BY ThreadFacts DEF callFails, inventory
<1>3. CASE OpCtxDone(t) /\ OpEnds(t, q, "canceled") /\ UNCHANGED faults
  BY <1>1, <1>2, <1>3, ThreadFacts, StopOpStep DEF OpEnds
<1>4. CASE Fault /\ Set(t, [thread[t] EXCEPT !.ops[q] = "ok", !.stopErr = TRUE]) /\ UNCHANGED broken
  <2>1. Failure("ok")
    BY <1>2, <1>4 DEF Failure
  <2> QED
    BY <1>1, <1>2, <1>4, <2>1, FaultCounts, StopOpStep
<1>5. CASE Fault /\ OpEnds(t, q, IF Phase(t).onError = "continue" THEN "ok" ELSE "failed")
  <2>1. PICK o \in {"ok", "failed"} : OpEnds(t, q, o)
    BY <1>5
  <2> QED
    BY <1>1, <1>2, <1>5, <2>1, FaultCounts, StopOpStep DEF OpEnds
<1> QED
  BY <1>3, <1>4, <1>5 DEF callFails

(* Every step of an operation keeps the invariant.                         *)
LEMMA OperationStep ==
  ASSUME IInv, NEW t \in Threads, NEW q \in Peers, Operation(t, q)
  PROVE  IInv'
BY dispatchStep, acquireAgentStep, sendCreateStep, createAnsweredStep, createAbandonedStep,
   backsOffStep, publishesStep, leavesStep, callFailsStep DEF Operation

-----------------------------------------------------------------------------
(* Joins, and the end of a generation.                                     *)

(* A join takes sequence numbers that no thread and no request has had.    *)
LEMMA runJoinStep ==
  ASSUME IInv, NEW t \in Threads, runJoin(t)
  PROVE  IInv'
<1> DEFINE y     == thread[t]
           p     == Phase(t)
           batch == run.seq + 1 .. run.seq + p.count
           ops   == [q \in Peers |-> IF q \in batch THEN "todo" ELSE "none"]
           x     == [y EXCEPT !.pc = IF p.placement = "single-agent" THEN "select" ELSE "work",
                              !.ops = ops]
           fresh == [st |-> "new", to |-> NoGoal, gen |-> y.gen, group |-> p.group]
<1>1. /\ y \in ThreadType /\ Local(t, y) /\ y.pc = "top" /\ Action(y) = "join"
      /\ y.phase \in DOMAIN Phases /\ p = Phases[y.phase] /\ p.action = "join"
  BY ThreadFacts, AtTop DEF runJoin
<1>2. p.count \in Nat /\ p.count >= 1
  BY <1>1, ThreadFacts, PhaseFacts DEF Operations, PhaseNumbers
<1>3. /\ run' = [run EXCEPT !.seq = @ + p.count] /\ thread' = [thread EXCEPT ![t] = x]
      /\ requests' = [q \in Peers |-> IF q \in batch THEN fresh ELSE requests[q]]
      /\ UNCHANGED <<plan, registered, canceled, stopRequested, asyncErr, broken, agents, faults>>
      /\ UNCHANGED <<nodes, reserved, participants>>
  BY DEF runJoin, Set, inventory
<1>4. /\ run \in RunType /\ participants \subseteq Agents /\ requests \in [Peers -> RequestType]
      /\ TypeInv /\ RequestInv /\ AgentInv /\ broken \in BOOLEAN
  BY DEF IInv, TypeInv
<1>5. /\ run'.pc = run.pc /\ run'.index = run.index /\ run'.gen = run.gen /\ run'.err = run.err
      /\ run'.cleanupErr = run.cleanupErr /\ run'.background = run.background
      /\ run'.seq = run.seq + p.count
  BY <1>3, <1>4 DEF RunType
<1>6. run' \in RunType /\ run.seq \in Nat /\ run'.seq \in Nat /\ run'.seq >= run.seq /\ run.gen \in Nat
  BY <1>2, <1>3, <1>4 DEF RunType
<1>7. SameRun
  BY <1>3, <1>5, <1>6 DEF SameRun
<1>8. \A q \in Peers : q \in Nat
  BY PhaseBounds DEF Peers
<1>9. \A q \in Peers : q \in batch => q > run.seq /\ q <= run'.seq
  BY <1>2, <1>5, <1>6, <1>8
<1>10. \A q \in Peers : q > run'.seq => q > run.seq /\ q \notin batch
  BY <1>2, <1>5, <1>6, <1>8
<1>11. x \in ThreadType
  BY <1>1 DEF ThreadType, ThreadPcs, OpStates
<1>28. PICK z \in ThreadType : z = x
  BY <1>11
<1>12. /\ z.pc \in {"select", "work"} /\ z.phase = y.phase /\ z.gen = y.gen /\ z.canceled = y.canceled
       /\ z.err = y.err /\ z.rep = y.rep /\ z.ops = ops
  BY <1>1, <1>28 DEF ThreadType
<1>13. \A q \in Peers : ops[q] = IF q \in batch THEN "todo" ELSE "none"
  OBVIOUS
<1>14. y.gen = run.gen /\ y.gen \in Nat
  BY <1>1 DEF Local, FlowInv, PlaceInv, Live, ThreadType
<1>15. /\ fresh.st = "new" /\ fresh.gen = run.gen
       /\ fresh \in RequestType
  BY <1>1, <1>14 DEF RequestType
<1>16. \A q \in Peers : requests'[q] = IF q \in batch THEN fresh ELSE requests[q]
  BY <1>3
<1> HIDE DEF x, ops, fresh, batch
<1>17. Action(z) = "join" /\ Live(z) /\ Live(y)
  BY <1>1, <1>12 DEF Action, Live
<1>18. FlowInv(t, z)
  <2>1. PlaceInv(t, z)
    BY <1>1, <1>12, <1>17 DEF Local, FlowInv, PlaceInv, Operations
  <2>2. t # Main => JobInv(t, z)
    BY <1>1, <1>12, <1>17 DEF Local, FlowInv, JobInv
  <2>3. t = Main => MainInv(z) /\ StopInv(z)
    BY <1>1, <1>12, <1>17 DEF Local, FlowInv, MainInv, StopInv
  <2>4. ~HasOp(z, {"canceled"})
    BY <1>12, <1>13 DEF HasOp
  <2>5. CancelInv(t, z)
    BY <1>1, <1>12, <2>4 DEF Local, FlowInv, CancelInv
  <2> QED
    BY <2>1, <2>2, <2>3, <2>5 DEF FlowInv
<1>19. FlowInv(t, z)'
  BY <1>4, <1>7, <1>17, <1>18, FlowKept
<1>20. OpsInv(z)'
  <2>1. Action(z)' = "join"
    BY <1>3, <1>17 DEF Action, Phases
  <2> SUFFICES ASSUME NEW q \in Peers
               PROVE  /\ z.ops[q] \in BusyOps => z.pc = "work"
                      /\ z.ops[q] # "none" => q <= run'.seq
                      /\ z.ops[q] \in {"placing", "placed", "backoff"} => Action(z)' = "join"
                      /\ z.ops[q] \in Unsent /\ Action(z)' = "join" => Unused(z, q)'
                      /\ z.ops[q] = "calling" /\ Action(z)' = "join" => requests'[q].gen = run'.gen
                      /\ z.ops[q] = "placed" => reserved'[q] \in Agents
    BY DEF OpsInv
  <2>2. z.ops[q] = IF q \in batch THEN "todo" ELSE "none"
    BY <1>12, <1>13
  <2>3. CASE q \in batch
    <3>1. Unused(z, q)'
      BY <1>5, <1>15, <1>16, <2>3 DEF Unused
    <3>2. q <= run'.seq
      BY <1>9, <2>3
    <3> QED
      BY <2>1, <2>2, <2>3, <3>1, <3>2 DEF BusyOps
  <2>4. CASE q \notin batch
    BY <2>2, <2>4 DEF BusyOps, Unsent
  <2> QED
    BY <2>3, <2>4
<1>27. thread' = [thread EXCEPT ![t] = z] /\ UNCHANGED <<stopRequested, asyncErr>>
  BY <1>3, <1>28
<1>21. TypeInv'
  <2>1. JobNames' = JobNames /\ Threads' = Threads /\ Phases' = Phases
    BY <1>3 DEF JobNames, Threads, Phases
  <2>2. ThreadType' = ThreadType /\ RequestType' = RequestType
    BY <2>1 DEF ThreadType, RequestType
  <2>3. thread' \in [Threads -> ThreadType]
    BY <1>4, <1>27 DEF TypeInv
  <2>4. requests' \in [Peers -> RequestType]
    <3>1. \A q \in Peers : requests'[q] \in RequestType
      BY <1>4, <1>15, <1>16
    <3> QED
      BY <1>3, <3>1
  <2> QED
    BY <1>3, <1>4, <1>6, <2>1, <2>2, <2>3, <2>4 DEF TypeInv
<1>22. ASSUME NEW s \in Threads \ {t} PROVE Kept(s, thread[s])
  <2>1. StopKept(s)
    BY <1>3, <1>5 DEF StopKept, Fenced
  <2>2. \A q \in Peers : thread[s].ops[q] # "none" => requests'[q] = requests[q]
    <3>1. OpsInv(thread[s])
      BY ThreadFacts DEF Local
    <3>2. \A q \in Peers : thread[s].ops[q] # "none" => ~(q > run.seq)
      BY <1>6, <1>8, <3>1 DEF OpsInv
    <3> QED
      BY <1>9, <1>16, <3>2
  <2>3. OpsKept(thread[s])
    BY <1>3, <1>5, <2>2 DEF OpsKept, Unsent, Unused
  <2> QED
    BY <2>1, <2>3 DEF Kept
<1>23. RequestInv'
  BY <1>3, <1>4, <1>5, <1>6, <1>10, <1>15, <1>16 DEF RequestInv, Sent
<1>24. AgentInv'
  <2>1. ASSUME NEW a \in Agents, NEW q \in agents[a].peers PROVE requests'[q] = requests[q]
    <3>1. q \in Peers /\ requests[q].st = "made"
      BY <1>4, <2>1 DEF AgentInv, TypeInv, AgentType
    <3>2. ~(q > run.seq)
      <4>1. NoRequest.st # "made"
        BY DEF NoRequest
      <4> QED
        BY <1>4, <3>1, <4>1 DEF RequestInv
    <3> QED
      BY <1>9, <1>16, <3>1, <3>2
  <2> QED
    BY <1>3, <1>4, <1>5, <2>1 DEF AgentInv
<1>25. Progress(t, z)
  <2>1. \A q \in Peers : Joining(z, q) => q > run.seq
    BY <1>9, <1>12, <1>13 DEF Joining
  <2>2. ~Failing(y)
    BY <1>1 DEF Failing
  <2> QED
    BY <1>3, <1>17, <2>1, <2>2 DEF Progress
<1>26. Local(t, z)'
  BY <1>19, <1>20 DEF Local
<1> QED
  BY <1>7, <1>21, <1>22, <1>23, <1>24, <1>25, <1>26, <1>27, ThreadStep

(* A step of one thread that learns of the nodes.                          *)
LEMMA NodesStep ==
  ASSUME IInv, NEW t \in Threads, NEW x \in ThreadType,
         thread' = [thread EXCEPT ![t] = x], UNCHANGED <<control, reserved, participants, remote>>,
         nodes' \in [Peers -> NodeStates], \A p \in Peers : p > run.seq => nodes'[p] = nodes[p],
         broken' \in BOOLEAN, faults' \in Nat, Local(t, x), Progress(t, x)
  PROVE  IInv'
<1>1. UNCHANGED <<plan, run, registered, canceled, stopRequested, asyncErr, reserved,
                  participants, requests, agents>>
  BY DEF control, remote
<1>2. TypeInv /\ run \in RunType /\ agents \in [Agents -> AgentType]
  BY DEF IInv, TypeInv
<1>3. SameRun
  BY <1>1, <1>2 DEF SameRun, RunType
<1>4. Shrinks
  BY <1>1, <1>2 DEF Shrinks
<1>5. SharedTypes' /\ RequestInv' /\ AgentInv'
  BY <1>1, <1>4, ShrunkShared
<1>6. TypeInv'
  <2>1. JobNames' = JobNames /\ Threads' = Threads /\ Phases' = Phases
    BY <1>1 DEF JobNames, Threads, Phases
  <2>2. ThreadType' = ThreadType /\ RequestType' = RequestType
    BY <2>1 DEF ThreadType, RequestType
  <2>3. thread' \in [Threads -> ThreadType]
    BY <1>2 DEF TypeInv
  <2> QED
    BY <1>1, <1>2, <1>5, <2>1, <2>2, <2>3 DEF TypeInv, SharedTypes
<1>7. \A s, y : Kept(s, y)
  BY <1>1, <1>3, SameShared
<1>8. Local(t, x)'
  BY <1>1, <1>2, <1>3, <1>7, LocalKept DEF TypeInv
<1> QED
  BY <1>1, <1>3, <1>5, <1>6, <1>7, <1>8, ThreadStep

(* Only the scheduler's own thread stops a generation.                     *)
LEMMA AtStop ==
  ASSUME IInv, NEW t \in Threads, NEW y, y = thread[t], y.pc \in {"stopPeers", "refresh"}
  PROVE  /\ t = Main /\ Action(y) = "stop-all" /\ y \in ThreadType /\ Local(t, y)
         /\ y.gen = run.gen /\ registered = {}
         /\ \A a \in y.stopped : Fenced(a)
         /\ y.stopErr \/ cleanupParticipants \subseteq y.left \cup y.stopped
         /\ y.pc = "refresh" => y.left = {}
         /\ y.pc = "refresh" /\ ~y.stopErr => Swept
<1>1. y \in ThreadType /\ Local(t, y)
  BY ThreadFacts
<1>2. t = Main
  BY <1>1 DEF Local, FlowInv, JobInv
<1>3. Action(y) = "stop-all" /\ y.gen = run.gen
  BY <1>1 DEF Local, FlowInv, PlaceInv, Live
<1>4. /\ registered = {}
      /\ \A a \in y.stopped : Fenced(a)
      /\ y.stopErr \/ cleanupParticipants \subseteq y.left \cup y.stopped
      /\ y.pc = "refresh" => y.left = {}
  BY <1>1, <1>2, <1>3 DEF Local, FlowInv, StopInv
<1>5. y.pc = "refresh" /\ ~y.stopErr => Swept
  BY <1>4 DEF Swept
<1> QED
  BY <1>1, <1>2, <1>3, <1>4, <1>5

(* The Peers of the Agents that were fenced are marked as stopping.        *)
LEMMA generationStoppedStep ==
  ASSUME IInv, NEW t \in Threads, generationStopped(t)
  PROVE  IInv'
<1> PICK y : y = thread[t]
  OBVIOUS
<1> DEFINE x == [y EXCEPT !.pc = "refresh"]
<1>1. /\ y.pc = "stopPeers" /\ y.left = {} /\ broken \in BOOLEAN /\ faults \in Nat
      /\ thread' = [thread EXCEPT ![t] = x]
      /\ UNCHANGED <<control, broken, reserved, participants, remote, faults>>
  BY ThreadFacts DEF generationStopped, Set
<1>2. /\ t = Main /\ Action(y) = "stop-all" /\ y \in ThreadType /\ Local(t, y)
      /\ y.gen = run.gen /\ registered = {}
      /\ \A a \in y.stopped : Fenced(a)
      /\ y.stopErr \/ cleanupParticipants \subseteq y.left \cup y.stopped
  BY <1>1, AtStop
<1>3. x \in ThreadType /\ x.pc = "refresh" /\ SameWork(x, y)
      /\ x.left = y.left /\ x.stopped = y.stopped /\ x.stopErr = y.stopErr
  BY <1>2 DEF ThreadType, ThreadPcs, SameWork
<1> HIDE DEF x
<1>4. Action(x) = "stop-all" /\ Live(x) /\ Live(y)
  BY <1>1, <1>2, <1>3 DEF SameWork, Action, Live
<1>5. FlowInv(t, x)
  <2>1. PlaceInv(t, x)
    BY <1>1, <1>2, <1>3, <1>4 DEF Local, FlowInv, PlaceInv, SameWork
  <2>2. MainInv(x) /\ StopInv(x)
    BY <1>1, <1>2, <1>3, <1>4 DEF Local, FlowInv, MainInv, StopInv, SameWork
  <2>3. CancelInv(t, x)
    BY <1>1, <1>2, <1>3 DEF Local, FlowInv, CancelInv, SameWork
  <2> QED
    BY <1>2, <2>1, <2>2, <2>3 DEF FlowInv
<1>6. OpsInv(x)
  BY <1>1, <1>2, <1>3, <1>4 DEF Local, OpsInv, SameWork, Unused
<1>7. Progress(t, x)
  BY <1>1, <1>2, <1>3, <1>4 DEF Progress, SameWork, Joining, Failing
<1>8. nodes' \in [Peers -> NodeStates] /\ \A p \in Peers : p > run.seq => nodes'[p] = nodes[p]
  <2>1. nodes \in [Peers -> NodeStates] /\ \A p \in Peers : p > run.seq => nodes[p] = "none"
    BY DEF IInv, TypeInv, RequestInv
  <2>2. \A p \in Peers : \/ nodes'[p] = nodes[p]
                         \/ nodes'[p] = "stopping" /\ nodes[p] \in {"starting", "ready"}
    BY <2>1 DEF generationStopped
  <2>3. nodes' = [q \in Peers |-> nodes'[q]]
    BY DEF generationStopped
  <2>4. "stopping" \in NodeStates
    BY DEF NodeStates
  <2>5. \A p \in Peers : nodes'[p] \in NodeStates
    BY <2>1, <2>2, <2>4
  <2> QED
    BY <2>1, <2>2, <2>3, <2>5
<1> QED
  BY <1>1, <1>3, <1>5, <1>6, <1>7, <1>8, NodesStep DEF Local

(* A node nobody has numbered has no status.                               *)
LEMMA NodeStatusFacts ==
  ASSUME IInv, NEW q \in Peers
  PROVE  NodeStatus(q) \in NodeStates /\ (q > run.seq => NodeStatus(q) = nodes[q])
<1>1. nodes[q] \in NodeStates
  BY DEF IInv, TypeInv
<1>2. q > run.seq => requests[q].st # "made"
  <2>1. NoRequest.st # "made"
    BY DEF NoRequest
  <2> QED
    BY <2>1 DEF IInv, RequestInv
<1>3. requests[q].st # "made" => NodeStatus(q) = nodes[q]
  BY DEF NodeStatus
<1>4. NodeStatus(q) \in {nodes[q], "failed", "none", "stopped", "stopping", "ready"}
  BY DEF NodeStatus
<1> QED
  BY <1>1, <1>2, <1>3, <1>4 DEF NodeStates
(* The last look at the Agents ends the stop-all; when it succeeds         *)
(* everything was swept.                                                   *)
LEMMA refreshAgentStateStep ==
  ASSUME IInv, NEW t \in Threads, refreshAgentState(t)
  PROVE  IInv'
<1> PICK y : y = thread[t]
  OBVIOUS
<1>1. /\ y.pc = "refresh" /\ UNCHANGED <<control, reserved, participants, remote>>
      /\ faults \in Nat /\ broken \in BOOLEAN
  BY ThreadFacts DEF refreshAgentState
<1>2. t = Main /\ Action(y) = "stop-all" /\ (~y.stopErr => Swept)
  BY <1>1, AtStop
<1>3. PICK err \in {"none", "failed"} :
        /\ Ends(t, err) /\ faults' \in Nat
        /\ nodes' = nodes \/ nodes' = [q \in Peers |-> NodeStatus(q)]
        /\ err = "none" => ~y.stopErr
  <2>1. CASE /\ nodes' = [q \in Peers |-> NodeStatus(q)]
             /\ Ends(t, IF thread[t].stopErr THEN "failed" ELSE "none")
             /\ UNCHANGED faults
    BY <1>1, <2>1
  <2>2. CASE Fault /\ Ends(t, "failed") /\ UNCHANGED nodes
    BY <2>2, FaultCounts
  <2> QED
    BY <2>1, <2>2 DEF refreshAgentState
<1> DEFINE x == Over(y, err)
<1>4. \A q \in Peers : y.ops[q] \notin BusyOps
  BY <1>1, NotBusy
<1>5. /\ x \in ThreadType /\ Local(t, x) /\ (Failing(y) => Failing(x))
      /\ \A q \in Peers : Joining(x, q) => Joining(y, q)
      /\ Live(x) /\ Live(y) /\ (err = "failed" => Failing(x))
  BY <1>1, <1>2, <1>3, <1>4, OverState
<1>6. thread' = [thread EXCEPT ![t] = x] /\ broken' = (broken \/ err = "failed")
  BY <1>3 DEF Ends, Set, Failure
<1> HIDE DEF x
<1>7. Progress(t, x)
  BY <1>5, <1>6 DEF Progress
<1>8. nodes' \in [Peers -> NodeStates] /\ \A p \in Peers : p > run.seq => nodes'[p] = nodes[p]
  <2>1. nodes \in [Peers -> NodeStates]
    BY DEF IInv, TypeInv
  <2>2. \A p \in Peers : NodeStatus(p) \in NodeStates /\ (p > run.seq => NodeStatus(p) = nodes[p])
    BY NodeStatusFacts
  <2> QED
    BY <1>3, <2>1, <2>2
<1>9. broken' \in BOOLEAN
  BY <1>6
<1> QED
  BY <1>1, <1>3, <1>5, <1>6, <1>7, <1>8, <1>9, NodesStep

(* An Agent is fenced and emptied, or its answer is lost and the stop-all  *)
(* will fail.                                                              *)
LEMMA stopRunGenerationStep ==
  ASSUME IInv, NEW t \in Threads, NEW a \in Agents, stopRunGeneration(t, a)
  PROVE  IInv'
<1> PICK y : y = thread[t]
  OBVIOUS
<1>1. /\ y.pc = "stopPeers" /\ a \in y.left /\ broken \in BOOLEAN /\ faults \in Nat
      /\ UNCHANGED <<plan, run, registered, canceled, stopRequested, asyncErr, broken, nodes,
                     reserved, participants, requests>>
  BY ThreadFacts DEF stopRunGeneration, control, inventory
<1>2. /\ t = Main /\ Action(y) = "stop-all" /\ y \in ThreadType /\ Local(t, y)
      /\ y.gen = run.gen /\ registered = {}
      /\ \A b \in y.stopped : Fenced(b)
      /\ y.stopErr \/ cleanupParticipants \subseteq y.left \cup y.stopped
  BY <1>1, AtStop
<1>3. /\ agents \in [Agents -> AgentType] /\ run \in RunType /\ run.gen \in Nat
      /\ participants \subseteq Agents /\ TypeInv /\ RequestInv /\ AgentInv
  BY DEF IInv, TypeInv, RunType
<1> DEFINE fenced == [agents EXCEPT ![a].fence = run.gen,
                                    ![a].peers = {q \in @ : requests[q].gen > run.gen}]
<1>4. agents' = agents \/ agents' = fenced
  BY <1>1, <1>2 DEF stopRunGeneration, fenceGeneration
<1>5. /\ fenced \in [Agents -> AgentType]
      /\ fenced[a].fence = run.gen /\ fenced[a].peers = {}
      /\ \A b \in Agents : b # a => fenced[b] = agents[b]
  <2>1. {q \in agents[a].peers : requests[q].gen > run.gen} = {}
    BY <1>3 DEF AgentInv
  <2>2. fenced = [agents EXCEPT ![a] = [agents[a] EXCEPT !.fence = run.gen, !.peers = {}]]
    BY <1>3, <2>1
  <2>3. [agents[a] EXCEPT !.fence = run.gen, !.peers = {}] \in AgentType
    BY <1>3 DEF AgentType
  <2>4. /\ [agents[a] EXCEPT !.fence = run.gen, !.peers = {}].fence = run.gen
        /\ [agents[a] EXCEPT !.fence = run.gen, !.peers = {}].peers = {}
    BY <1>3 DEF AgentType
  <2> QED
    BY <1>3, <2>2, <2>3, <2>4
<1> HIDE DEF fenced
<1>6. agents' \in [Agents -> AgentType]
  BY <1>3, <1>4, <1>5
<1>7. \A b \in Agents : Fenced(b) => Fenced(b)'
  BY <1>1, <1>3, <1>4, <1>5 DEF Fenced
<1>8. agents' = fenced => Fenced(a)'
  BY <1>1, <1>3, <1>5 DEF Fenced
<1> DEFINE x1 == [y EXCEPT !.left = @ \ {a}, !.stopped = @ \cup {a}]
           x2 == [y EXCEPT !.left = @ \ {a}, !.stopErr = TRUE]
<1>9. /\ faults' \in Nat
      /\ \/ agents' = fenced /\ thread' = [thread EXCEPT ![t] = x1]
         \/ thread' = [thread EXCEPT ![t] = x2]
  <2>1. fenceGeneration(t, a) => agents' = fenced
    BY <1>2 DEF fenceGeneration, fenced
  <2> QED
    BY <1>1, <2>1, FaultCounts DEF stopRunGeneration, Set
<1>10. PICK x \in {x1, x2} :
         /\ thread' = [thread EXCEPT ![t] = x]
         /\ x = x2 \/ (x = x1 /\ agents' = fenced)
  BY <1>9
<1>11. /\ x \in ThreadType /\ x.pc = "stopPeers" /\ SameWork(x, y)
       /\ x.left = y.left \ {a}
       /\ \/ x.stopErr /\ x.stopped = y.stopped
          \/ x.stopErr = y.stopErr /\ x.stopped = y.stopped \cup {a} /\ agents' = fenced
  <2>1. CASE x = x1 /\ agents' = fenced
    BY <1>1, <1>2, <2>1, ZenonT(30) DEF ThreadType, ThreadPcs, SameWork
  <2>2. CASE x = x2
    BY <1>1, <1>2, <2>2, ZenonT(30) DEF ThreadType, ThreadPcs, SameWork
  <2> QED
    BY <1>10, <2>1, <2>2
<1> HIDE DEF x1, x2
<1>12. Action(x) = "stop-all" /\ Live(x) /\ Live(y)
  BY <1>1, <1>2, <1>11 DEF SameWork, Action, Live
<1>13. SameRun
  BY <1>1, <1>3 DEF SameRun, RunType
<1>14. Phases' = Phases /\ Action(x)' = Action(x) /\ cleanupParticipants' = cleanupParticipants
  BY <1>1 DEF Phases, Action, cleanupParticipants
<1>15. FlowInv(t, x)'
  <2>1. PlaceInv(t, x)'
    BY <1>1, <1>2, <1>11, <1>12, <1>14 DEF Local, FlowInv, PlaceInv, SameWork, Live
  <2>2. MainInv(x)'
    BY <1>1, <1>2, <1>11, <1>14 DEF Local, FlowInv, MainInv, SameWork
  <2>3. \A b \in x.stopped : Fenced(b)'
    <3>1. y.stopped \subseteq Agents
      BY <1>2 DEF ThreadType
    <3> QED
      BY <1>2, <1>7, <1>8, <1>11, <3>1
  <2>4. x.stopErr \/ cleanupParticipants' \subseteq x.left \cup x.stopped
    BY <1>2, <1>11, <1>14
  <2>5. StopInv(x)'
    <3>1. registered' = {}
      BY <1>1, <1>2
    <3> QED
      BY <1>11, <2>3, <2>4, <3>1 DEF StopInv
  <2>6. CancelInv(t, x)'
    BY <1>1, <1>2, <1>11, <1>14 DEF Local, FlowInv, CancelInv, SameWork
  <2> QED
    BY <1>2, <2>1, <2>2, <2>5, <2>6 DEF FlowInv
<1>16. OpsInv(x)'
  BY <1>1, <1>2, <1>11, <1>12, <1>14 DEF Local, OpsInv, SameWork, Unused
<1>17. TypeInv'
  <2>1. JobNames' = JobNames /\ Threads' = Threads
    BY <1>14 DEF JobNames, Threads
  <2>2. ThreadType' = ThreadType /\ RequestType' = RequestType
    BY <1>14, <2>1 DEF ThreadType, RequestType
  <2>3. thread' \in [Threads -> ThreadType]
    BY <1>3, <1>10, <1>11 DEF TypeInv
  <2> QED
    BY <1>1, <1>3, <1>6, <1>9, <2>1, <2>2, <2>3 DEF TypeInv
<1>18. ASSUME NEW s \in Threads \ {t} PROVE Kept(s, thread[s])
  <2>1. StopKept(s)
    BY <1>2, <1>18 DEF StopKept
  <2>2. OpsKept(thread[s])
    <3> PICK z : z = thread[s]
      OBVIOUS
    <3>1. \A q \in Peers : Unused(z, q) => Unused(z, q)'
      BY <1>1 DEF Unused
    <3>2. OpsKept(z)
      BY <1>1, <3>1 DEF OpsKept
    <3> QED
      BY <3>2
  <2> QED
    BY <2>1, <2>2 DEF Kept
<1>19. RequestInv'
  <2> SUFFICES ASSUME NEW q \in Peers
               PROVE  requests[q].st = "sent" /\ requests[q].gen < run.gen =>
                        requests[q].gen <= agents'[requests[q].to].fence
    BY <1>1, <1>3 DEF RequestInv
  <2> HAVE requests[q].st = "sent" /\ requests[q].gen < run.gen
  <2>1. requests[q].to \in Agents /\ requests[q].gen <= agents[requests[q].to].fence
    BY <1>3 DEF RequestInv, Sent
  <2>2. requests[q].gen \in Nat
    BY <1>3 DEF TypeInv, RequestType
  <2> QED
    BY <1>3, <1>4, <1>5, <2>1, <2>2
<1>20. AgentInv'
  <2>1. \A b \in Agents : agents'[b].peers \subseteq agents[b].peers
    BY <1>4, <1>5
  <2> QED
    BY <1>1, <1>3, <2>1 DEF AgentInv
<1>21. Progress(t, x)
  BY <1>1, <1>2, <1>11, <1>12 DEF Progress, SameWork, Joining, Failing
<1>22. Local(t, x)'
  BY <1>15, <1>16 DEF Local
<1>23. thread' = [thread EXCEPT ![t] = x] /\ UNCHANGED <<stopRequested, asyncErr>>
  BY <1>1, <1>10
<1> QED
  BY <1>11, <1>13, <1>17, <1>18, <1>19, <1>20, <1>21, <1>22, <1>23, ThreadStep

-----------------------------------------------------------------------------
(* The environment.                                                        *)

(* A step that leaves the Controller's threads alone keeps the invariant   *)
(* if the requests and the Agents are still right.                         *)
LEMMA RemoteStep ==
  ASSUME IInv, UNCHANGED <<control, thread, broken>>, SharedTypes', RequestInv', AgentInv',
         \A s \in Threads : Kept(s, thread[s])
  PROVE  IInv'
<1>1. UNCHANGED <<plan, run, registered, canceled, stopRequested, asyncErr, thread, broken>>
  BY DEF control
<1>2. TypeInv /\ run \in RunType /\ thread \in [Threads -> ThreadType] /\ participants \subseteq Agents
  BY DEF IInv, TypeInv
<1>3. Main \in Threads
  BY DEF Threads
<1>4. PICK x \in ThreadType : x = thread[Main]
  BY <1>2, <1>3
<1>5. thread' = [thread EXCEPT ![Main] = x]
  BY <1>1, <1>2, <1>4
<1>6. SameRun
  BY <1>1, <1>2 DEF SameRun, RunType
<1>7. Local(Main, x) /\ Kept(Main, x)
  BY <1>3, <1>4 DEF IInv
<1>8. Local(Main, x)'
  BY <1>1, <1>2, <1>6, <1>7, LocalKept
<1>9. TypeInv'
  <2>1. JobNames' = JobNames /\ Threads' = Threads /\ Phases' = Phases
    BY <1>1 DEF JobNames, Threads, Phases
  <2>2. ThreadType' = ThreadType
    BY <2>1 DEF ThreadType
  <2> QED
    BY <1>1, <1>2, <2>1, <2>2 DEF TypeInv, SharedTypes
<1>10. Progress(Main, x)
  BY <1>1, <1>2, <1>4 DEF Progress
<1> QED
  BY <1>1, <1>3, <1>5, <1>6, <1>8, <1>9, <1>10, ThreadStep

(* What threads rely on when an Agent acts by itself.                      *)
LEMMA RemoteKept ==
  ASSUME IInv, UNCHANGED <<plan, run, registered, canceled, thread, reserved, participants>>,
         \A a \in Agents : registered = {} /\ Fenced(a) => Fenced(a)',
         \A q \in Peers : /\ requests[q].st = "new" => requests'[q].st = "new"
                          /\ requests'[q].gen = requests[q].gen
  PROVE  \A s \in Threads : Kept(s, thread[s])
<1> SUFFICES ASSUME NEW s \in Threads PROVE Kept(s, thread[s])
  OBVIOUS
<1>1. StopKept(s)
  BY DEF StopKept
<1>2. OpsKept(thread[s])
  BY DEF OpsKept, Unused, Live
<1> QED
  BY <1>1, <1>2 DEF Kept

(* An Agent answers a create: one from behind its fence is refused, so the *)
(* Peer it makes is of the current generation.                             *)
LEMMA agentCreatesStep ==
  ASSUME IInv, NEW q \in Peers, agentCreates(q)
  PROVE  IInv'
<1> DEFINE a == requests[q].to
           answer == IF requests[q].gen <= agents[a].fence THEN "refused"
                     ELSE IF Cardinality(agents[a].peers) >= agents[a].capacity THEN "full" ELSE "made"
           joined == [agents EXCEPT ![a].peers = @ \cup {q}]
<1>1. /\ requests[q].st = "sent"
      /\ requests' = [requests EXCEPT ![q].st = answer]
      /\ agents' = IF answer = "made" THEN joined ELSE agents
      /\ UNCHANGED <<control, thread, broken, nodes, reserved, participants, faults>>
      /\ UNCHANGED <<plan, run, registered, canceled>>
  BY DEF agentCreates, inventory, control
<1>2. /\ requests \in [Peers -> RequestType] /\ agents \in [Agents -> AgentType]
      /\ participants \subseteq Agents /\ run.gen \in Nat
      /\ TypeInv /\ RequestInv /\ AgentInv
  BY DEF IInv, TypeInv, RunType
<1>3. /\ a \in participants /\ a \in Agents /\ requests[q].gen \in Nat /\ agents[a].fence \in Nat
      /\ requests[q].gen <= run.gen
      /\ requests[q].gen < run.gen => requests[q].gen <= agents[a].fence
  BY <1>1, <1>2 DEF RequestInv, Sent, RequestType, AgentType
<1>4. /\ answer \in {"refused", "full", "made"}
      /\ answer = "made" => ~(requests[q].gen <= agents[a].fence)
  OBVIOUS
<1> HIDE DEF answer
<1>5. answer = "made" => requests[q].gen = run.gen /\ ~Fenced(a)
  BY <1>2, <1>3, <1>4 DEF Fenced
<1>6. /\ requests'[q] = [requests[q] EXCEPT !.st = answer]
      /\ \A p \in Peers \ {q} : requests'[p] = requests[p]
  BY <1>1, <1>2
<1>7. /\ requests'[q].st = answer /\ requests'[q].to = a /\ requests'[q].gen = requests[q].gen
      /\ requests'[q] \in RequestType
  BY <1>2, <1>4, <1>6 DEF RequestType, Sent
<1>8. requests' \in [Peers -> RequestType]
  BY <1>1, <1>2, <1>6, <1>7
<1> HIDE DEF a
<1>9. /\ joined \in [Agents -> AgentType] /\ joined[a].peers = agents[a].peers \cup {q}
      /\ \A b \in Agents : joined[b].fence = agents[b].fence
      /\ \A b \in Agents : b # a => joined[b] = agents[b]
  <2>1. joined = [agents EXCEPT ![a] = [agents[a] EXCEPT !.peers = @ \cup {q}]]
    BY <1>2
  <2>2. /\ [agents[a] EXCEPT !.peers = @ \cup {q}] \in AgentType
        /\ [agents[a] EXCEPT !.peers = @ \cup {q}].peers = agents[a].peers \cup {q}
        /\ [agents[a] EXCEPT !.peers = @ \cup {q}].fence = agents[a].fence
    BY <1>2, <1>3 DEF AgentType
  <2> QED
    BY <1>2, <1>3, <2>1, <2>2
<1> HIDE DEF joined
<1>10. agents' \in [Agents -> AgentType] /\ \A b \in Agents : agents'[b].fence = agents[b].fence
  BY <1>1, <1>2, <1>9
<1>11. SharedTypes'
  <2>1. RequestType' = RequestType /\ AgentType' = AgentType
    BY <1>1 DEF RequestType, Phases, AgentType
  <2> QED
    BY <1>1, <1>2, <1>8, <1>10, <2>1 DEF SharedTypes, TypeInv
<1>12. RequestInv'
  <2> SUFFICES ASSUME NEW p \in Peers
               PROVE  /\ p > run.seq => requests'[p] = NoRequest /\ nodes[p] = "none"
                      /\ requests'[p].gen <= run.gen
                      /\ requests'[p].st \in Sent => requests'[p].to \in participants
                      /\ requests'[p].st = "sent" /\ requests'[p].gen < run.gen =>
                           requests'[p].gen <= agents'[requests'[p].to].fence
    BY <1>1 DEF RequestInv
  <2>1. CASE p = q
    <3>1. ~(q > run.seq)
      <4>1. NoRequest.st # "sent"
        BY DEF NoRequest
      <4> QED
        BY <1>1, <1>2, <4>1 DEF RequestInv
    <3> QED
      BY <1>3, <1>4, <1>7, <2>1, <3>1
  <2>2. CASE p # q
    <3>1. requests'[p] = requests[p]
      BY <1>6, <2>2
    <3>2. requests[p].st \in Sent => requests[p].to \in Agents
      BY <1>2 DEF RequestInv
    <3> QED
      BY <1>2, <1>10, <3>1, <3>2 DEF RequestInv, Sent
  <2> QED
    BY <2>1, <2>2
<1>13. AgentInv'
  <2> SUFFICES ASSUME NEW b \in Agents, NEW p \in agents'[b].peers
               PROVE  /\ requests'[p].st = "made" /\ requests'[p].to = b
                      /\ requests'[p].gen = run.gen
    BY <1>1 DEF AgentInv
  <2>1. CASE p \in agents[b].peers
    <3>1. p \in Peers /\ requests[p].st = "made" /\ requests[p].to = b /\ requests[p].gen = run.gen
      BY <1>2, <2>1 DEF AgentInv, AgentType
    <3> QED
      BY <1>1, <1>6, <3>1
  <2>2. CASE p \notin agents[b].peers
    <3>1. b = a /\ p = q /\ answer = "made"
      BY <1>1, <1>9, <2>2
    <3> QED
      BY <1>5, <1>7, <3>1
  <2> QED
    BY <2>1, <2>2
<1>14. \A b \in Agents : Fenced(b) => Fenced(b)'
  <2> SUFFICES ASSUME NEW b \in Agents, Fenced(b) PROVE Fenced(b)'
    OBVIOUS
  <2>1. agents'[b].peers = agents[b].peers
    <3>1. answer # "made" \/ b # a
      BY <1>5
    <3> QED
      BY <1>1, <1>9, <3>1
  <2> QED
    BY <1>1, <1>10, <2>1 DEF Fenced
<1>15. \A p \in Peers : /\ requests[p].st = "new" => requests'[p].st = "new"
                        /\ requests'[p].gen = requests[p].gen
  BY <1>1, <1>6, <1>7
<1>16. \A s \in Threads : Kept(s, thread[s])
  BY <1>1, <1>14, <1>15, RemoteKept
<1> QED
  BY <1>1, <1>11, <1>12, <1>13, <1>16, RemoteStep

(* What only takes from the Agents disturbs nobody.                        *)
LEMMA ShrunkStep ==
  ASSUME IInv, UNCHANGED <<control, thread, broken, requests, reserved, participants>>, Shrinks,
         nodes' \in [Peers -> NodeStates], \A p \in Peers : p > run.seq => nodes'[p] = nodes[p],
         faults' \in Nat
  PROVE  IInv'
<1>1. UNCHANGED <<plan, run, registered, canceled>>
  BY DEF control
<1>2. SharedTypes' /\ RequestInv' /\ AgentInv'
  BY <1>1, ShrunkShared
<1>3. \A a \in Agents : Fenced(a) => Fenced(a)'
  BY <1>1 DEF Fenced, Shrinks
<1>4. \A s \in Threads : Kept(s, thread[s])
  BY <1>1, <1>3, RemoteKept
<1> QED
  BY <1>2, <1>4, RemoteStep

(* A heartbeat changes the status of a Peer only.                          *)
LEMMA heartbeatStep ==
  ASSUME IInv, NEW q \in Peers, heartbeat(q)
  PROVE  IInv'
<1>1. /\ nodes' = [nodes EXCEPT ![q] = NodeStatus(q)]
      /\ UNCHANGED <<control, thread, broken, requests, reserved, participants, agents, faults>>
  BY DEF heartbeat, remote
<1>2. /\ nodes \in [Peers -> NodeStates] /\ agents \in [Agents -> AgentType] /\ faults \in Nat
  BY DEF IInv, TypeInv
<1>3. NodeStatus(q) \in NodeStates /\ (q > run.seq => NodeStatus(q) = nodes[q])
  BY NodeStatusFacts
<1>4. nodes' \in [Peers -> NodeStates] /\ \A p \in Peers : p > run.seq => nodes'[p] = nodes[p]
  BY <1>1, <1>2, <1>3
<1>5. Shrinks
  BY <1>1, <1>2 DEF Shrinks
<1> QED
  BY <1>1, <1>2, <1>4, <1>5, ShrunkStep

(* A Peer fails: its Agent has one less.                                   *)
LEMMA peerFailsStep ==
  ASSUME IInv, NEW q \in Peers, peerFails(q)
  PROVE  IInv'
<1>1. /\ nodes' = [nodes EXCEPT ![q] = "failed"] /\ requests[q].st = "made" /\ faults' \in Nat
      /\ UNCHANGED <<control, thread, broken, requests, reserved, participants>>
  BY FaultCounts DEF peerFails
<1>2. Shrinks
  BY StopShrinks DEF peerFails
<1>3. q > run.seq => FALSE
  <2>1. NoRequest.st # "made"
    BY DEF NoRequest
  <2> QED
    BY <1>1, <2>1 DEF IInv, RequestInv
<1>4. nodes' \in [Peers -> NodeStates] /\ \A p \in Peers : p > run.seq => nodes'[p] = nodes[p]
  BY <1>1, <1>3 DEF IInv, TypeInv, NodeStates
<1> QED
  BY <1>1, <1>2, <1>4, ShrunkStep

(* The capacity an Agent reports is of no consequence to the invariant.    *)
LEMMA capacityReportedStep ==
  ASSUME IInv, NEW a \in Agents, capacityReported(a)
  PROVE  IInv'
<1>1. /\ agents' = [agents EXCEPT ![a].reported = agents[a].capacity]
      /\ UNCHANGED <<control, thread, broken, requests, reserved, participants, nodes, faults>>
  BY DEF capacityReported, inventory
<1>2. agents \in [Agents -> AgentType] /\ nodes \in [Peers -> NodeStates] /\ faults \in Nat
  BY DEF IInv, TypeInv
<1>3. Shrinks
  BY <1>1, <1>2 DEF Shrinks, AgentType
<1> QED
  BY <1>1, <1>2, <1>3, ShrunkStep

-----------------------------------------------------------------------------
(* The jobs and the scheduler.                                             *)

(* The operations of thread t are forgotten, or stay as they are.          *)
ThreadQuiet(t) ==
  \/ thread'[t].ops = NoOps
  \/ /\ thread'[t].ops = thread[t].ops /\ thread'[t].phase = thread[t].phase
     /\ thread[t].pc = "work" => thread'[t].pc = "work"
     /\ Live(thread'[t]) => Live(thread[t])

NewGeneration == run'.gen = run.gen + 1 /\ Swept /\ \A t \in Threads : ~Live(thread'[t])

(* A step that moves the run, and threads without touching operations,     *)
(* requests or Agents, keeps the invariant if the flow of each thread is   *)
(* right; it may open a generation when nothing of the last is live.       *)
LEMMA QuietStep ==
  ASSUME IInv, TypeInv', UNCHANGED <<plan, inventory, remote>>, run'.seq = run.seq,
         run'.gen = run.gen \/ NewGeneration,
         \A t \in Threads : ThreadQuiet(t) /\ FlowInv(t, thread[t])', RunInv', FailureInv'
  PROVE  IInv'
<1>1. UNCHANGED <<nodes, reserved, participants, requests, agents>>
  BY DEF inventory, remote
<1>2. Phases' = Phases /\ Threads' = Threads /\ JobNames' = JobNames
  BY DEF Phases, Threads, JobNames
<1>3. /\ TypeInv /\ PlanInv /\ RequestInv /\ AgentInv /\ PairInv /\ run \in RunType
      /\ run.gen \in Nat /\ run.seq \in Nat /\ thread \in [Threads -> ThreadType]
      /\ agents \in [Agents -> AgentType]
  BY DEF IInv, TypeInv, RunType
<1>4. \A q \in Peers : NoOps[q] = "none"
  BY DEF NoOps
<1>5. ASSUME NEW t \in Threads PROVE OpsInv(thread[t])'
  <2> DEFINE x == thread[t]
  <2> SUFFICES ASSUME NEW q \in Peers, x'.ops[q] # "none"
               PROVE  /\ x'.ops[q] \in BusyOps => x'.pc = "work"
                      /\ q <= run'.seq
                      /\ x'.ops[q] \in {"placing", "placed", "backoff"} => Action(x)' = "join"
                      /\ x'.ops[q] \in Unsent /\ Action(x)' = "join" => Unused(x, q)'
                      /\ x'.ops[q] = "calling" /\ Action(x)' = "join" => requests'[q].gen = run'.gen
                      /\ x'.ops[q] = "placed" => reserved'[q] \in Agents
    BY DEF OpsInv, BusyOps, Unsent
  <2>1. /\ x'.ops = x.ops /\ x'.phase = x.phase /\ Action(x)' = Action(x)
        /\ x.pc = "work" => x'.pc = "work"
        /\ Live(x') => Live(x)
    BY <1>2, <1>4 DEF ThreadQuiet, Action
  <2>2. /\ x.ops[q] \in BusyOps => x.pc = "work"
        /\ q <= run.seq
        /\ x.ops[q] \in {"placing", "placed", "backoff"} => Action(x) = "join"
        /\ x.ops[q] \in Unsent /\ Action(x) = "join" => Unused(x, q)
        /\ x.ops[q] = "calling" /\ Action(x) = "join" => requests[q].gen = run.gen
        /\ x.ops[q] = "placed" => reserved[q] \in Agents
    BY <2>1, ThreadFacts DEF Local, OpsInv
  <2>3. Live(x') => run'.gen = run.gen
    BY DEF NewGeneration
  <2>4. x.ops[q] = "calling" => Live(x')
    BY <2>1, <2>2 DEF BusyOps, Live
  <2>5. Unused(x, q) => requests'[q].st = "new" /\ (Live(x') => requests'[q].gen = run'.gen)
    BY <1>1, <2>1, <2>3 DEF Unused
  <2>6. Unused(x, q) => Unused(x, q)'
    BY <2>5 DEF Unused, Live
  <2> QED
    BY <1>1, <2>1, <2>2, <2>3, <2>4, <2>6
<1>6. PairInv'
  <2> SUFFICES ASSUME NEW t \in Threads, NEW u \in Threads, NEW q \in Peers,
                      Joining(thread[t], q)', Joining(thread[u], q)'
               PROVE  t = u
    BY <1>2 DEF PairInv
  <2>1. \A s \in Threads : Joining(thread[s], q)' => Joining(thread[s], q)
    BY <1>2, <1>4 DEF Joining, Action, ThreadQuiet
  <2> QED
    BY <1>3, <2>1 DEF PairInv
<1>7. PlanInv'
  BY <1>2, <1>3 DEF PlanInv
<1>8. CASE run'.gen = run.gen
  <2>1. RequestInv' /\ AgentInv'
    BY <1>1, <1>3, <1>8 DEF RequestInv, AgentInv
  <2> QED
    BY <1>2, <1>5, <1>6, <1>7, <2>1 DEF IInv, Local
<1>9. CASE NewGeneration
  <2>1. \A q \in Peers : requests[q].st \in Sent => requests[q].to \in Agents /\ Fenced(requests[q].to)
    <3> SUFFICES ASSUME NEW q \in Peers, requests[q].st \in Sent
                 PROVE  requests[q].to \in Agents /\ Fenced(requests[q].to)
      OBVIOUS
    <3>1. requests[q].to \in participants
      BY <1>3 DEF RequestInv
    <3> QED
      BY <1>3, <1>9, <3>1 DEF NewGeneration, Swept, cleanupParticipants, TypeInv
  <2>2. \A a \in Agents : agents[a].peers = {}
    <3> SUFFICES ASSUME NEW a \in Agents, NEW q \in agents[a].peers PROVE FALSE
      OBVIOUS
    <3>1. q \in Peers /\ requests[q].st \in Sent /\ requests[q].to = a
      BY <1>3 DEF AgentInv, AgentType, Sent
    <3> QED
      BY <2>1, <3>1 DEF Fenced
  <2>3. AgentInv'
    BY <1>1, <2>2 DEF AgentInv
  <2>4. RequestInv'
    <3> SUFFICES ASSUME NEW q \in Peers
                 PROVE  /\ q > run.seq => requests[q] = NoRequest /\ nodes[q] = "none"
                        /\ requests[q].gen <= run'.gen
                        /\ requests[q].st \in Sent => requests[q].to \in participants
                        /\ requests[q].st = "sent" /\ requests[q].gen < run'.gen =>
                             requests[q].gen <= agents[requests[q].to].fence
      BY <1>1 DEF RequestInv
    <3>1. requests[q].gen \in Nat /\ requests[q].gen <= run.gen /\ run'.gen = run.gen + 1
      BY <1>3, <1>9 DEF TypeInv, RequestType, RequestInv, NewGeneration
    <3>2. requests[q].st = "sent" => requests[q].gen <= agents[requests[q].to].fence
      <4> HAVE requests[q].st = "sent"
      <4>1. agents[requests[q].to].fence \in Nat /\ agents[requests[q].to].fence >= run.gen
        BY <1>3, <2>1 DEF Fenced, AgentType, Sent
      <4> QED
        BY <1>3, <3>1, <4>1
    <3>3. requests[q].gen <= run'.gen
      BY <1>3, <3>1
    <3> QED
      BY <1>3, <3>2, <3>3 DEF RequestInv
  <2> QED
    BY <1>2, <1>5, <1>6, <1>7, <2>3, <2>4 DEF IInv, Local
<1> QED
  BY <1>8, <1>9

(* What cancelAll changes of a thread.                                     *)
LEMMA CancelAllFacts ==
  ASSUME IInv, NEW t \in Threads
  PROVE  /\ cancelAll[t] \in ThreadType
         /\ cancelAll[t].pc = thread[t].pc /\ cancelAll[t].err = thread[t].err
         /\ cancelAll[t].phase = thread[t].phase /\ cancelAll[t].ops = thread[t].ops
         /\ cancelAll[t].gen = thread[t].gen /\ cancelAll[t].rep = thread[t].rep
         /\ cancelAll[t].left = thread[t].left /\ cancelAll[t].stopped = thread[t].stopped
         /\ cancelAll[t].stopErr = thread[t].stopErr
         /\ thread[t].canceled => cancelAll[t].canceled
         /\ t \notin registered => cancelAll[t] = thread[t]
<1>1. thread[t] \in ThreadType
  BY ThreadFacts
<1>2. cancelAll[t] = IF t \in registered THEN [thread[t] EXCEPT !.canceled = TRUE] ELSE thread[t]
  BY DEF cancelAll
<1> QED
  BY <1>1, <1>2 DEF ThreadType

(* What the registered jobs and the scheduler's thread can be at.          *)
LEMMA ThreadsAtRest ==
  ASSUME IInv
  PROVE  /\ AllDone(registered) => NoJobRuns
         /\ Main \notin registered
         /\ run.pc # "phase" => thread[Main].pc = "idle"
         /\ \A t \in Threads : Failing(thread[t]) => Live(thread[t])
         /\ NoJobRuns => \A t \in Threads \ {Main} : ~Live(thread[t])
         /\ \A t \in Threads : ~Live(thread[t]) => ~Failing(thread[t])
<1>1. Main \in Threads /\ Main \notin JobNames /\ Threads = {Main} \cup JobNames
  BY MainIsNoJob DEF IInv
<1>2. registered \subseteq JobNames
  BY DEF IInv, TypeInv
<1>3. ASSUME AllDone(registered) PROVE NoJobRuns
  <2> SUFFICES ASSUME NEW j \in JobNames, Live(thread[j]) PROVE FALSE
    BY DEF NoJobRuns
  <2>1. j \in registered
    BY <1>1, ThreadFacts DEF Local, FlowInv, JobInv
  <2> QED
    BY <1>3, <2>1 DEF AllDone, Done, Live
<1>4. run.pc # "phase" => thread[Main].pc = "idle"
  BY <1>1, ThreadFacts DEF Local, FlowInv, MainInv
<1>5. \A t \in Threads : Failing(thread[t]) => Live(thread[t])
  BY DEF Failing, Live
<1> QED
  BY <1>1, <1>2, <1>3, <1>4, <1>5 DEF NoJobRuns

(* The end of a run: the scheduler moves on, the jobs may be canceled.     *)
LEMMA RunMoves ==
  ASSUME IInv, UNCHANGED <<plan, registered, inventory, remote, faults, asyncErr, broken>>,
         thread' = thread \/ thread' = cancelAll,
         run' \in RunType, run'.gen = run.gen, run'.seq = run.seq, run'.index = run.index,
         run.pc # "phase", run'.pc \notin {"loop", "phase"},
         run'.err \notin {"unknown", "duplicate"},
         canceled' \in BOOLEAN, canceled => canceled', stopRequested' \in BOOLEAN,
         (\A t \in Threads : Failing(thread'[t]) <=> Failing(thread[t])) /\ (NoJobRuns' <=> NoJobRuns)
           => FailureInv'
  PROVE  IInv'
<1>1. UNCHANGED <<nodes, reserved, participants, requests, agents>>
  BY DEF inventory, remote
<1>2. Phases' = Phases /\ Threads' = Threads /\ JobNames' = JobNames
  BY DEF Phases, Threads, JobNames
<1>3. TypeInv /\ thread \in [Threads -> ThreadType] /\ Main \in Threads
  BY DEF IInv, TypeInv, Threads
<1>4. ASSUME NEW t \in Threads
      PROVE  /\ thread'[t] \in ThreadType
             /\ thread'[t].pc = thread[t].pc /\ thread'[t].err = thread[t].err
             /\ thread'[t].phase = thread[t].phase /\ thread'[t].ops = thread[t].ops
             /\ thread'[t].gen = thread[t].gen /\ thread'[t].rep = thread[t].rep
             /\ thread'[t].left = thread[t].left
             /\ thread[t].canceled => thread'[t].canceled
             /\ t \notin registered => thread'[t] = thread[t]
  <2>1. CASE thread' = thread
    BY <1>3, <1>4, <2>1
  <2>2. CASE thread' = cancelAll
    <3> PICK c : c = cancelAll[t]
      OBVIOUS
    <3>1. thread'[t] = c
      BY <2>2
    <3> QED
      BY <1>4, <3>1, CancelAllFacts
  <2> QED
    BY <2>1, <2>2
<1>5. thread' \in [Threads -> ThreadType]
  <2>1. cancelAll = [t \in Threads |-> cancelAll[t]]
    BY DEF cancelAll
  <2> QED
    BY <1>3, <2>1, CancelAllFacts
<1>6. TypeInv'
  <2>1. ThreadType' = ThreadType /\ RequestType' = RequestType
    BY <1>2 DEF ThreadType, RequestType
  <2> QED
    BY <1>1, <1>2, <1>3, <1>5, <2>1 DEF TypeInv
<1>7. ASSUME NEW t \in Threads PROVE ThreadQuiet(t) /\ FlowInv(t, thread[t])'
  <2>1. FlowInv(t, thread[t])
    BY <1>7, ThreadFacts DEF Local
  <2>2. ThreadQuiet(t)
    BY <1>4 DEF ThreadQuiet, Live
  <2>3. PlaceInv(t, thread[t])'
    BY <1>2, <1>4, <2>1 DEF FlowInv, PlaceInv, Live, Action
  <2>4. t # Main => JobInv(t, thread[t])'
    BY <1>2, <1>4, <2>1 DEF FlowInv, JobInv, Live
  <2>5. t = Main => (MainInv(thread[t]) /\ StopInv(thread[t]))'
    <3> HAVE t = Main
    <3>1. thread'[t].pc = "idle" /\ thread'[t] = thread[t]
      BY <1>4, ThreadsAtRest
    <3>2. ~thread'[t].canceled
      BY <2>1, <3>1 DEF FlowInv, MainInv
    <3> QED
      BY <3>1, <3>2 DEF MainInv, StopInv
  <2>6. CancelInv(t, thread[t])'
    <3>1. \A S : HasOp(thread'[t], S) <=> HasOp(thread[t], S)
      BY <1>4 DEF HasOp
    <3>2. thread'[t].err = "canceled" => canceled' \/ thread'[t].canceled
      BY <1>4, <2>1 DEF FlowInv, CancelInv
    <3>3. thread'[t].pc \in {"select", "work"} /\ HasOp(thread'[t], {"canceled"}) =>
            HasOp(thread'[t], {"failed"}) \/ canceled' \/ thread'[t].canceled
      BY <1>4, <2>1, <3>1 DEF FlowInv, CancelInv
    <3> QED
      BY <3>2, <3>3 DEF CancelInv, HasOp
  <2> QED
    BY <2>2, <2>3, <2>4, <2>5, <2>6 DEF FlowInv
<1>8. RunInv'
  BY DEF RunInv
<1>9. FailureInv'
  <2>1. \A t \in Threads : Failing(thread'[t]) <=> Failing(thread[t])
    BY <1>4 DEF Failing, HasOp
  <2>2. \A j \in JobNames : j \in Threads
    BY DEF Threads
  <2>3. NoJobRuns' <=> NoJobRuns
    BY <1>2, <1>4, <2>2 DEF NoJobRuns, Live
  <2> QED
    BY <2>1, <2>3
<1> QED
  BY <1>6, <1>7, <1>8, <1>9, QuietStep

(* The plan is over: its jobs are waited for or not, as onExit says.       *)
LEMMA drainsStep ==
  ASSUME IInv, drains
  PROVE  IInv'
<1>1. /\ run.pc = "loop" /\ run \in RunType /\ canceled \in BOOLEAN /\ stopRequested \in BOOLEAN
      /\ RunInv /\ FailureInv /\ run.err = "none" /\ registered \subseteq JobNames
  BY DEF drains, IInv, TypeInv, RunInv
<1>2. UNCHANGED <<plan, registered, canceled, stopRequested, asyncErr, thread, broken, inventory, remote, faults>>
  BY DEF drains
<1>3. ASSUME NEW err \in JobErrors(registered)
      PROVE  err \in {"failed", "canceled"} /\ (err = "canceled" => canceled)
  <2>1. PICK j \in registered : err = thread[j].err /\ err # "none"
    BY <1>3 DEF JobErrors
  <2>2. j \in Threads
    BY <1>1, <2>1 DEF Threads
  <2>3. thread[j] \in ThreadType /\ PlaceInv(j, thread[j]) /\ CancelInv(j, thread[j])
    BY <2>2, ThreadFacts DEF Local, FlowInv
  <2>4. err \in {"failed", "canceled"}
    BY <2>1, <2>3 DEF PlaceInv, ThreadType, Errors
  <2>5. err = "canceled" => canceled
    BY <1>1, <2>1, <2>3 DEF CancelInv
  <2> QED
    BY <2>4, <2>5
<1>4. PICK err \in {"none", "failed", "canceled"} :
        /\ Leaves(err)
        /\ err = "none" => plan.onExit = "cancel" \/ AllDone(registered)
        /\ err = "canceled" => canceled
  <2>1. registered = {} => AllDone(registered)
    BY DEF AllDone
  <2>2. CASE (plan.onExit = "cancel" \/ registered = {}) /\ Leaves("none")
    BY <2>1, <2>2
  <2>3. CASE \E err \in JobErrors(registered) : Leaves(err)
    BY <1>3, <2>3
  <2>4. CASE AllDone(registered) /\ Leaves("none")
    BY <2>4
  <2>5. CASE canceled /\ Leaves("canceled")
    BY <2>5
  <2> QED
    BY <2>2, <2>3, <2>4, <2>5 DEF drains
<1>5. /\ run' \in RunType /\ run'.gen = run.gen /\ run'.seq = run.seq /\ run'.index = run.index
      /\ run'.pc = "exit" /\ run'.err = err /\ run'.cleanupErr = run.cleanupErr
      /\ run'.background = run.background
  BY <1>1, <1>4 DEF Leaves, RunType, RunPcs, Errors
<1>6. err = "none" /\ plan.onExit = "drain" => NoJobRuns
  BY <1>4, ThreadsAtRest
<1>7. (\A t \in Threads : Failing(thread'[t]) <=> Failing(thread[t])) /\ (NoJobRuns' <=> NoJobRuns)
        => FailureInv'
  <2> HAVE NoJobRuns' <=> NoJobRuns
  <2>1. Threads' = Threads
    BY <1>2 DEF Threads, JobNames, Phases
  <2>2. broken => \/ asyncErr \/ run'.err = "failed" \/ run'.cleanupErr \/ stopRequested
                  \/ \E t \in Threads : Failing(thread[t])
    BY <1>1, <1>5 DEF FailureInv
  <2>3. run'.err = "canceled" => stopRequested \/ asyncErr
    BY <1>1, <1>4, <1>5 DEF FailureInv
  <2>4. canceled => stopRequested \/ asyncErr
    BY <1>1 DEF FailureInv
  <2>5. (\E t \in Threads : Failing(thread[t])) => \E t \in Threads' : Failing(thread'[t])
    BY <1>2, <2>1
  <2> QED
    BY <1>2, <1>5, <1>6, <2>2, <2>3, <2>4, <2>5 DEF FailureInv, Failing, HasOp
<1> QED
  BY <1>1, <1>2, <1>4, <1>5, <1>7, RunMoves

(* The context of the run is canceled, and its jobs are.                   *)
LEMMA exitScenarioStep ==
  ASSUME IInv, exitScenario
  PROVE  IInv'
<1>1. /\ run.pc = "exit" /\ run \in RunType /\ canceled \in BOOLEAN /\ stopRequested \in BOOLEAN
      /\ RunInv /\ FailureInv /\ PlanInv
  BY DEF exitScenario, IInv, TypeInv
<1>2. /\ UNCHANGED <<plan, registered, stopRequested, asyncErr, broken, inventory, remote, faults>>
      /\ canceled' = TRUE
  BY DEF exitScenario
<1>3. /\ thread' = thread \/ thread' = cancelAll
      /\ \/ run' = [run EXCEPT !.pc = "stopJobs"]
         \/ run' = [run EXCEPT !.pc = "sample"] /\ run.err = "none" /\ plan.onExit # "cancel"
  BY DEF exitScenario
<1>4. /\ run' \in RunType /\ run'.gen = run.gen /\ run'.seq = run.seq /\ run'.index = run.index
      /\ run'.err = run.err /\ run'.cleanupErr = run.cleanupErr
      /\ run'.background = run.background
      /\ \/ run'.pc = "stopJobs"
         \/ run'.pc = "sample" /\ run.err = "none" /\ plan.onExit # "cancel"
  BY <1>1, <1>3 DEF RunType, RunPcs
<1>5. run'.pc = "sample" => NoJobRuns
  BY <1>1, <1>4 DEF FailureInv, PlanInv
<1>6. (\A t \in Threads : Failing(thread'[t]) <=> Failing(thread[t])) /\ (NoJobRuns' <=> NoJobRuns)
        => FailureInv'
  <2> HAVE (\A t \in Threads : Failing(thread'[t]) <=> Failing(thread[t])) /\ (NoJobRuns' <=> NoJobRuns)
  <2>1. Threads' = Threads
    BY <1>2 DEF Threads, JobNames, Phases
  <2>2. broken => \/ asyncErr \/ run'.err = "failed" \/ run'.cleanupErr \/ stopRequested
                  \/ \E t \in Threads : Failing(thread[t])
    BY <1>1, <1>4 DEF FailureInv
  <2>3. (\E t \in Threads : Failing(thread[t])) => \E t \in Threads' : Failing(thread'[t])
    BY <2>1
  <2>4. run'.err = "canceled" => stopRequested \/ asyncErr
    BY <1>1, <1>4 DEF FailureInv
  <2> QED
    BY <1>2, <1>4, <1>5, <2>2, <2>3, <2>4 DEF FailureInv, Failing, HasOp
<1>7. run'.err \notin {"unknown", "duplicate"}
  BY <1>1, <1>4 DEF RunInv
<1>8. run.pc # "phase" /\ run'.pc \notin {"loop", "phase"} /\ canceled' \in BOOLEAN
      /\ (canceled => canceled') /\ stopRequested' \in BOOLEAN
  BY <1>1, <1>2, <1>4
<1> QED
  BY <1>2, <1>3, <1>4, <1>6, <1>7, <1>8, RunMoves

(* The scheduler alone moves on after the jobs were told to stop.          *)
LEMMA EndMoves ==
  ASSUME IInv, UNCHANGED <<plan, registered, canceled, stopRequested, asyncErr, thread, broken,
                           inventory, remote, faults>>,
         run.pc \in {"stopJobs", "sample", "retire"}, run' \in RunType,
         run'.gen = run.gen, run'.seq = run.seq, run'.index = run.index,
         run'.pc \in {"sample", "retire", "ended"},
         run'.err \notin {"unknown", "duplicate"},
         ~run'.cleanupErr => NoJobRuns,
         run'.pc = "retire" /\ asyncErr => run'.background \/ run'.cleanupErr,
         broken /\ (NoJobRuns => ~\E t \in Threads : Failing(thread[t])) =>
           \/ run'.err = "failed" \/ run'.cleanupErr \/ stopRequested
           \/ run'.pc # "ended" /\ asyncErr,
         run'.pc = "sample" /\ run'.err = "canceled" => stopRequested \/ asyncErr,
         run'.pc = "retire" /\ run'.err = "canceled" => stopRequested \/ run'.background,
         run'.pc = "ended" /\ run'.err = "canceled" => stopRequested
  PROVE  IInv'
<1>1. canceled \in BOOLEAN /\ stopRequested \in BOOLEAN /\ TypeInv
  BY DEF IInv, TypeInv
<1>2. NoJobRuns => ~\E t \in Threads : Failing(thread[t])
  <2> HAVE NoJobRuns
  <2>1. thread[Main].pc = "idle"
    BY ThreadsAtRest
  <2>2. \A t \in Threads : ~Live(thread[t])
    BY <2>1, ThreadsAtRest DEF Live
  <2> QED
    BY <2>2, ThreadsAtRest
<1>3. (\A t \in Threads : Failing(thread'[t]) <=> Failing(thread[t])) /\ (NoJobRuns' <=> NoJobRuns)
        => FailureInv'
  BY <1>2 DEF FailureInv
<1> QED
  BY <1>1, <1>3, RunMoves

(* The jobs are over, or the run carries a cleanup error.                  *)
LEMMA backgroundStoppedStep ==
  ASSUME IInv, backgroundStopped
  PROVE  IInv'
<1>1. /\ run.pc = "stopJobs" /\ run \in RunType /\ RunInv /\ FailureInv
      /\ UNCHANGED <<plan, registered, canceled, stopRequested, asyncErr, thread, broken,
                     inventory, remote, faults>>
  BY DEF backgroundStopped, IInv, TypeInv
<1>2. \/ AllDone(registered) /\ run' = [run EXCEPT !.pc = "sample"]
      \/ run' = [run EXCEPT !.pc = "sample", !.cleanupErr = TRUE]
  BY DEF backgroundStopped
<1>3. /\ run' \in RunType /\ run'.gen = run.gen /\ run'.seq = run.seq /\ run'.index = run.index
      /\ run'.pc = "sample" /\ run'.err = run.err
      /\ run'.cleanupErr \/ (run'.cleanupErr = run.cleanupErr /\ AllDone(registered))
  BY <1>1, <1>2, ZenonT(30) DEF RunType, RunPcs
<1>4. ~run'.cleanupErr => NoJobRuns
  BY <1>3, ThreadsAtRest
<1>5. broken /\ (NoJobRuns => ~\E t \in Threads : Failing(thread[t])) =>
        run'.err = "failed" \/ run'.cleanupErr \/ stopRequested \/ (run'.pc # "ended" /\ asyncErr)
  BY <1>1, <1>3, <1>4 DEF FailureInv
<1>6. run'.err \notin {"unknown", "duplicate"} /\ (run'.err = "canceled" => stopRequested \/ asyncErr)
  BY <1>1, <1>3 DEF FailureInv, RunInv
<1> QED
  BY <1>1, <1>3, <1>4, <1>5, <1>6, EndMoves

(* The failure of a background job is read after the last of them has      *)
(* recorded its own.                                                       *)
LEMMA sampleFailuresStep ==
  ASSUME IInv, sampleFailures
  PROVE  IInv'
<1>1. /\ run.pc = "sample" /\ run \in RunType /\ RunInv /\ FailureInv /\ asyncErr \in BOOLEAN
      /\ UNCHANGED <<plan, registered, canceled, stopRequested, asyncErr, thread, broken,
                     inventory, remote, faults>>
  BY DEF sampleFailures, IInv, TypeInv
<1>2. /\ run' \in RunType /\ run'.gen = run.gen /\ run'.seq = run.seq /\ run'.index = run.index
      /\ run'.pc = "retire" /\ run'.err = run.err /\ run'.cleanupErr = run.cleanupErr
      /\ run'.background = asyncErr
  BY <1>1 DEF sampleFailures, RunType, RunPcs
<1>3. ~run'.cleanupErr => NoJobRuns
  BY <1>1, <1>2 DEF FailureInv
<1>4. broken /\ (NoJobRuns => ~\E t \in Threads : Failing(thread[t])) =>
        run'.err = "failed" \/ run'.cleanupErr \/ stopRequested \/ (run'.pc # "ended" /\ asyncErr)
  BY <1>1, <1>2, <1>3 DEF FailureInv
<1>5. run'.err \notin {"unknown", "duplicate"} /\ (run'.err = "canceled" => stopRequested \/ asyncErr)
  BY <1>1, <1>2 DEF FailureInv, RunInv
<1> QED
  BY <1>1, <1>2, <1>3, <1>4, <1>5, EndMoves

(* The outcome is decided.                                                 *)
LEMMA retireHandleStep ==
  ASSUME IInv, retireHandle
  PROVE  IInv'
<1>1. /\ run.pc = "retire" /\ run \in RunType /\ RunInv /\ FailureInv
      /\ asyncErr \in BOOLEAN /\ stopRequested \in BOOLEAN
      /\ UNCHANGED <<plan, registered, canceled, stopRequested, asyncErr, thread, broken,
                     inventory, remote, faults>>
  BY DEF retireHandle, IInv, TypeInv
<1> DEFINE err == IF stopRequested THEN "canceled"
                  ELSE IF run.background /\ run.err \in {"none", "canceled"} THEN "failed"
                  ELSE run.err
<1>2. err \in Errors /\ err \notin {"unknown", "duplicate"} /\ run.err \in {"none", "failed", "canceled"}
  BY <1>1 DEF RunType, Errors, RunInv
<1>3. run' = [run EXCEPT !.pc = "ended", !.err = err]
  BY DEF retireHandle
<1>4. /\ run' \in RunType /\ run'.gen = run.gen /\ run'.seq = run.seq /\ run'.index = run.index
      /\ run'.pc = "ended" /\ run'.err = err /\ run'.cleanupErr = run.cleanupErr
      /\ run'.background = run.background
  <2> HIDE DEF err
  <2> QED
    BY <1>1, <1>2, <1>3 DEF RunType, RunPcs
<1>5. ~run'.cleanupErr => NoJobRuns
  BY <1>1, <1>4 DEF FailureInv
<1>6. broken /\ (NoJobRuns => ~\E t \in Threads : Failing(thread[t])) =>
        run'.err = "failed" \/ run'.cleanupErr \/ stopRequested
  <2> HAVE broken /\ (NoJobRuns => ~\E t \in Threads : Failing(thread[t]))
  <2>1. asyncErr \/ run.err = "failed" \/ run.cleanupErr \/ stopRequested
    BY <1>1, <1>4, <1>5 DEF FailureInv
  <2>2. asyncErr => run.background \/ run.cleanupErr
    BY <1>1 DEF FailureInv
  <2> QED
    BY <1>2, <1>4, <2>1, <2>2
<1>7. run'.err = "canceled" => stopRequested
  BY <1>1, <1>2, <1>4 DEF FailureInv
<1>8. run'.err \notin {"unknown", "duplicate"}
  BY <1>2, <1>4
<1> HIDE DEF err
<1> QED
  BY <1>1, <1>4, <1>5, <1>6, <1>7, <1>8, EndMoves

(* Types of the steps of jobs and of the scheduler.                        *)
LEMMA QuietTypes ==
  ASSUME IInv, UNCHANGED <<plan, inventory, remote, faults>>,
         run' \in RunType, thread' \in [Threads -> ThreadType], registered' \subseteq JobNames,
         canceled' \in BOOLEAN, stopRequested' \in BOOLEAN, asyncErr' \in BOOLEAN,
         broken' \in BOOLEAN
  PROVE  /\ TypeInv' /\ Phases' = Phases /\ Threads' = Threads /\ JobNames' = JobNames
         /\ UNCHANGED <<nodes, reserved, participants, requests, agents>>
         /\ \A a \in Agents : run'.gen = run.gen => (Fenced(a) <=> Fenced(a)')
         /\ cleanupParticipants' = cleanupParticipants
         /\ \A x : Action(x)' = Action(x)
<1>1. UNCHANGED <<nodes, reserved, participants, requests, agents>>
  BY DEF inventory, remote
<1>2. Phases' = Phases /\ Threads' = Threads /\ JobNames' = JobNames
  BY DEF Phases, Threads, JobNames
<1>3. ThreadType' = ThreadType /\ RequestType' = RequestType
  BY <1>2 DEF ThreadType, RequestType
<1>4. TypeInv'
  BY <1>1, <1>2, <1>3 DEF IInv, TypeInv
<1>5. \A x : Action(x)' = Action(x)
  BY <1>2 DEF Action
<1> QED
  BY <1>1, <1>2, <1>4, <1>5 DEF Fenced, cleanupParticipants

(* A stop by the user explains every cancellation to come.                 *)
LEMMA StopScenarioStep ==
  ASSUME IInv, StopScenario
  PROVE  IInv'
<1>1. /\ run.pc # "ended" /\ stopRequested' = TRUE /\ canceled' = TRUE
      /\ UNCHANGED <<plan, run, registered, asyncErr, thread, broken, inventory, remote, faults>>
  BY DEF StopScenario
<1>2. TypeInv /\ RunInv /\ FailureInv
  BY DEF IInv
<1>3. /\ TypeInv' /\ Phases' = Phases /\ Threads' = Threads /\ JobNames' = JobNames
      /\ UNCHANGED <<nodes, reserved, participants, requests, agents>>
      /\ \A a \in Agents : run'.gen = run.gen => (Fenced(a) <=> Fenced(a)')
      /\ cleanupParticipants' = cleanupParticipants
  BY <1>1, <1>2, QuietTypes DEF TypeInv
<1>4. ASSUME NEW t \in Threads PROVE ThreadQuiet(t) /\ FlowInv(t, thread[t])'
  <2>1. FlowInv(t, thread[t])
    BY ThreadFacts DEF Local
  <2>2. PlaceInv(t, thread[t])' /\ (t # Main => JobInv(t, thread[t])')
    BY <1>1, <1>3, <2>1 DEF FlowInv, PlaceInv, JobInv, Live, Action
  <2>3. t = Main => (MainInv(thread[t]) /\ StopInv(thread[t]))'
    BY <1>1, <1>3, <2>1 DEF FlowInv, MainInv, StopInv, Swept, Fenced, Action, cleanupParticipants
  <2>4. CancelInv(t, thread[t])'
    BY <1>1, <1>3, <2>1 DEF FlowInv, CancelInv, HasOp
  <2>5. ThreadQuiet(t)
    BY <1>1 DEF ThreadQuiet
  <2> QED
    BY <2>2, <2>3, <2>4, <2>5 DEF FlowInv
<1>5. RunInv'
  BY <1>1, <1>2, <1>3 DEF RunInv, KnownBefore
<1>6. FailureInv'
  BY <1>1, <1>2, <1>3 DEF FailureInv, NoJobRuns, Failing, HasOp
<1> QED
  BY <1>1, <1>3, <1>4, <1>5, <1>6, QuietStep

(* A failure of a job is recorded and cancels the run; its own result is   *)
(* read later.                                                             *)
LEMMA jobReturnsStep ==
  ASSUME IInv, NEW j \in Threads, jobReturns(j)
  PROVE  IInv'
<1> PICK y : y = thread[j]
  OBVIOUS
<1> DEFINE x == [y EXCEPT !.pc = "recorded"]
           fails == y.err \notin {"none", "canceled"}
<1>1. /\ y.pc = "returned" /\ j # Main /\ thread' = [thread EXCEPT ![j] = x]
      /\ asyncErr' = (asyncErr \/ fails) /\ canceled' = (canceled \/ fails)
      /\ UNCHANGED <<plan, run, registered, stopRequested, broken, inventory, remote, faults>>
  BY DEF jobReturns, Set
<1>2. /\ TypeInv /\ RunInv /\ FailureInv /\ y \in ThreadType /\ FlowInv(j, y) /\ j \in JobNames
      /\ thread \in [Threads -> ThreadType] /\ asyncErr \in BOOLEAN /\ canceled \in BOOLEAN
  BY <1>1, ThreadFacts DEF IInv, TypeInv, Local
<1>3. x \in ThreadType /\ x.pc = "recorded" /\ SameWork(x, y) /\ x.left = y.left
  BY <1>2 DEF ThreadType, ThreadPcs, SameWork
<1> HIDE DEF x
<1>4. thread'[j] = x /\ \A s \in Threads \ {j} : thread'[s] = thread[s]
  BY <1>1, <1>2
<1>5. thread' \in [Threads -> ThreadType] /\ asyncErr' \in BOOLEAN /\ canceled' \in BOOLEAN
  BY <1>1, <1>2, <1>3
<1>6. /\ TypeInv' /\ Phases' = Phases /\ Threads' = Threads /\ JobNames' = JobNames
      /\ UNCHANGED <<nodes, reserved, participants, requests, agents>>
      /\ \A a \in Agents : run'.gen = run.gen => (Fenced(a) <=> Fenced(a)')
      /\ cleanupParticipants' = cleanupParticipants
  BY <1>1, <1>2, <1>5, QuietTypes DEF TypeInv
<1>7. ASSUME NEW t \in Threads PROVE ThreadQuiet(t) /\ FlowInv(t, thread[t])'
  <2>1. CASE t = j
    <3>1. ThreadQuiet(t)
      BY <1>1, <1>3, <1>4, <2>1 DEF ThreadQuiet, SameWork, Live
    <3>2. PlaceInv(t, x)' /\ JobInv(t, x)'
      BY <1>1, <1>2, <1>3, <1>6, <2>1 DEF FlowInv, PlaceInv, JobInv, Live, Action, SameWork
    <3>3. CancelInv(t, x)'
      BY <1>1, <1>2, <1>3, <1>6, <2>1 DEF FlowInv, CancelInv, SameWork
    <3>4. FlowInv(t, x)'
      BY <1>1, <2>1, <3>2, <3>3 DEF FlowInv
    <3> QED
      BY <1>4, <2>1, <3>1, <3>4
  <2>2. CASE t # j
    <3> PICK z : z = thread[t]
      OBVIOUS
    <3>1. FlowInv(t, z) /\ thread'[t] = z
      BY <1>4, <2>2, ThreadFacts DEF Local
    <3>2. PlaceInv(t, z)' /\ (t # Main => JobInv(t, z)')
      BY <1>1, <1>6, <3>1 DEF FlowInv, PlaceInv, JobInv, Live, Action
    <3>3. t = Main => (MainInv(z) /\ StopInv(z))'
      BY <1>1, <1>6, <3>1 DEF FlowInv, MainInv, StopInv, Swept, Fenced, Action, cleanupParticipants
    <3>4. CancelInv(t, z)'
      BY <1>1, <1>6, <3>1 DEF FlowInv, CancelInv, HasOp
    <3>5. ThreadQuiet(t)
      BY <3>1 DEF ThreadQuiet
    <3>6. FlowInv(t, z)'
      BY <3>2, <3>3, <3>4 DEF FlowInv
    <3> QED
      BY <3>1, <3>5, <3>6
  <2> QED
    BY <2>1, <2>2
<1>8. RunInv'
  BY <1>1, <1>2, <1>6 DEF RunInv, KnownBefore
<1>9. FailureInv'
  <2>1. ~NoJobRuns
    BY <1>1, <1>2 DEF NoJobRuns, Live
  <2>2. Failing(y) => asyncErr'
    BY <1>1 DEF Failing
  <2>3. (\E t \in Threads : Failing(thread[t])) => asyncErr' \/ \E t \in Threads' : Failing(thread'[t])
    BY <1>4, <1>6, <2>2
  <2>4. canceled' => canceled \/ asyncErr'
    BY <1>1
  <2>5. asyncErr => asyncErr'
    BY <1>1
  <2> QED
    BY <1>1, <1>2, <2>1, <2>3, <2>4, <2>5 DEF FailureInv, Failing, HasOp
<1> QED
  BY <1>1, <1>6, <1>7, <1>8, <1>9, QuietStep

(* Only the scheduler's own thread executes a stop-all.                    *)
LEMMA OnlyMainStops ==
  ASSUME IInv, NEW t \in Threads, Action(thread[t]) = "stop-all", Live(thread[t])
  PROVE  /\ t = Main /\ run.pc = "phase" /\ thread[t].phase = run.index
         /\ Phases[run.index].action = "stop-all"
<1> DEFINE y == thread[t]
<1>1. Local(t, y) /\ y.phase \in DOMAIN Phases /\ y.pc # "idle"
  BY ThreadFacts DEF Local, FlowInv, PlaceInv, Live
<1>2. Action(y) \notin Operations
  BY DEF Operations
<1>3. ShouldAwait(Phases[y.phase])
  BY <1>1, <1>2, PhaseFacts, ThreadFacts, Zenon DEF Action
<1>4. t = Main
  BY <1>1, <1>3 DEF Local, FlowInv, JobInv
<1>5. run.pc = "phase" /\ y.phase = run.index
  BY <1>1, <1>4 DEF Local, FlowInv, MainInv
<1> QED
  BY <1>4, <1>5 DEF Action

(* A stop-all cancels the jobs; only the scheduler's own thread executes   *)
(* one.                                                                    *)
LEMMA stopAllStep ==
  ASSUME IInv, NEW t \in Threads, stopAll(t)
  PROVE  IInv'
<1>1. /\ thread[t].pc = "top" /\ thread' = [cancelAll EXCEPT ![t].pc = "stopJobs"]
      /\ UNCHANGED <<control, broken, inventory, remote, faults>>
      /\ UNCHANGED <<plan, run, registered, canceled, stopRequested, asyncErr>>
      /\ Action(thread[t]) = "stop-all"
  BY AtTop DEF stopAll, control
<1>2. /\ t = Main /\ run.pc = "phase" /\ thread[t].phase = run.index
      /\ Phases[run.index].action = "stop-all" /\ Main \notin registered
  BY <1>1, OnlyMainStops, ThreadsAtRest DEF Live
<1>3. /\ TypeInv /\ RunInv /\ FailureInv /\ thread \in [Threads -> ThreadType]
  BY DEF IInv, TypeInv
<1>4. cancelAll \in [Threads -> ThreadType]
  <2>1. cancelAll = [s \in Threads |-> cancelAll[s]]
    BY DEF cancelAll
  <2> QED
    BY <2>1, CancelAllFacts
<1> DEFINE x == [thread[t] EXCEPT !.pc = "stopJobs"]
<1>5. cancelAll[t] = thread[t]
  BY <1>2, CancelAllFacts
<1>6. thread' = [cancelAll EXCEPT ![t] = x]
  BY <1>1, <1>4, <1>5
<1>7. x \in ThreadType /\ x.pc = "stopJobs" /\ SameWork(x, thread[t]) /\ x.stopped = thread[t].stopped
  BY <1>3 DEF ThreadType, ThreadPcs, SameWork
<1> HIDE DEF x
<1>8. thread' \in [Threads -> ThreadType] /\ thread'[t] = x
      /\ \A s \in Threads \ {t} : thread'[s] = cancelAll[s]
  BY <1>4, <1>6, <1>7
<1>9. /\ TypeInv' /\ Phases' = Phases /\ Threads' = Threads /\ JobNames' = JobNames
  BY <1>1, <1>3, <1>8, QuietTypes DEF TypeInv
<1>10. ASSUME NEW s \in Threads PROVE ThreadQuiet(s) /\ FlowInv(s, thread[s])'
  <2>1. CASE s = t
    <3> PICK z : z = x
      OBVIOUS
    <3>1. thread'[s] = z /\ FlowInv(s, thread[s])
      BY <1>8, <2>1, ThreadFacts DEF Local
    <3>2. /\ z.pc = "stopJobs" /\ SameWork(z, thread[s]) /\ z.stopped = thread[s].stopped
          /\ thread[s].pc = "top"
      BY <1>1, <1>7, <2>1
    <3>3. Action(z)' = "stop-all" /\ Action(thread[s]) = "stop-all"
      BY <1>1, <1>9, <2>1, <3>2 DEF Action, SameWork
    <3>4. ThreadQuiet(s)
      BY <3>1, <3>2 DEF ThreadQuiet, SameWork, Live
    <3>5. PlaceInv(s, z)'
      BY <1>1, <1>9, <3>1, <3>2, <3>3 DEF FlowInv, PlaceInv, SameWork, Live
    <3>6. MainInv(z)' /\ StopInv(z)'
      BY <1>1, <1>2, <1>9, <2>1, <3>1, <3>2, <3>3 DEF FlowInv, MainInv, StopInv, SameWork
    <3>7. CancelInv(s, z)'
      BY <1>1, <1>9, <3>1, <3>2 DEF FlowInv, CancelInv, SameWork
    <3>8. FlowInv(s, z)'
      BY <1>2, <2>1, <3>5, <3>6, <3>7 DEF FlowInv
    <3> QED
      BY <3>1, <3>4, <3>8
  <2>2. CASE s # t
    <3> PICK z : z = cancelAll[s]
      OBVIOUS
    <3>1. thread'[s] = z /\ FlowInv(s, thread[s])
      BY <1>8, <2>2, ThreadFacts DEF Local
    <3>2. /\ z.pc = thread[s].pc /\ z.err = thread[s].err
          /\ z.phase = thread[s].phase /\ z.ops = thread[s].ops
          /\ z.gen = thread[s].gen /\ z.left = thread[s].left
          /\ thread[s].canceled => z.canceled
      BY <2>2, CancelAllFacts
    <3>3. ThreadQuiet(s)
      BY <3>1, <3>2 DEF ThreadQuiet, Live
    <3>4. PlaceInv(s, z)'
      BY <1>1, <1>9, <3>1, <3>2 DEF FlowInv, PlaceInv, Live, Action
    <3>5. JobInv(s, z)'
      BY <1>1, <1>2, <1>9, <2>2, <3>1, <3>2 DEF FlowInv, JobInv, Live
    <3>6. CancelInv(s, z)'
      <4>1. run'.pc = "phase" /\ Phases'[run'.index].action = "stop-all"
        BY <1>1, <1>2, <1>9
      <4>2. z.err = "canceled" => canceled' \/ z.canceled
        BY <1>1, <3>1, <3>2 DEF FlowInv, CancelInv
      <4>3. z.pc \in {"select", "work"} /\ HasOp(z, {"canceled"}) =>
              HasOp(z, {"failed"}) \/ canceled' \/ z.canceled
        BY <1>1, <3>1, <3>2 DEF FlowInv, CancelInv, HasOp
      <4> QED
        BY <4>1, <4>2, <4>3 DEF CancelInv, HasOp
    <3>7. FlowInv(s, z)'
      BY <1>2, <2>2, <3>4, <3>5, <3>6 DEF FlowInv
    <3> QED
      BY <3>1, <3>3, <3>7
  <2> QED
    BY <2>1, <2>2
<1>11. RunInv'
  BY <1>1, <1>3, <1>9 DEF RunInv, KnownBefore
<1>12. FailureInv'
  <2>1. \A s \in Threads : Failing(thread[s]) => Failing(thread'[s])
    <3> SUFFICES ASSUME NEW s \in Threads, Failing(thread[s]) PROVE Failing(thread'[s])
      OBVIOUS
    <3>1. s # t
      BY <1>1 DEF Failing
    <3>2. /\ thread'[s].pc = thread[s].pc /\ thread'[s].err = thread[s].err
          /\ thread'[s].ops = thread[s].ops
      BY <1>8, <3>1, CancelAllFacts
    <3> QED
      BY <3>2 DEF Failing, HasOp
  <2>2. (\E s \in Threads : Failing(thread[s])) => \E s \in Threads' : Failing(thread'[s])
    BY <1>9, <2>1
  <2> QED
    BY <1>1, <1>2, <1>3, <2>2 DEF FailureInv, Failing, HasOp
<1> QED
  BY <1>1, <1>9, <1>10, <1>11, <1>12, QuietStep

(* Once every job is done no thread but the scheduler's is live, and       *)
(* phaseJobs forgets them.                                                 *)
LEMMA resetJobsStep ==
  ASSUME IInv, NEW t \in Threads, resetJobs(t)
  PROVE  IInv'
<1> PICK y : y = thread[t]
  OBVIOUS
<1> PICK cleanup : cleanup = cleanupParticipants
  OBVIOUS
<1> DEFINE x == [y EXCEPT !.pc = "stopPeers", !.left = cleanup]
<1>1. /\ y.pc = "stopJobs" /\ AllDone(registered) /\ registered' = {}
      /\ thread' = [thread EXCEPT ![t] = x]
      /\ UNCHANGED <<plan, run, canceled, stopRequested, asyncErr, broken, inventory, remote, faults>>
  BY DEF resetJobs, JobsAreOver, Set
<1>2. /\ TypeInv /\ RunInv /\ FailureInv /\ y \in ThreadType /\ FlowInv(t, y)
      /\ thread \in [Threads -> ThreadType] /\ NoJobRuns /\ cleanup \subseteq Agents
  BY <1>1, ThreadFacts, ThreadsAtRest DEF Local, IInv, TypeInv, cleanupParticipants
<1>3. Action(y) = "stop-all" /\ Live(y)
  BY <1>1, <1>2 DEF FlowInv, PlaceInv, Live
<1>4. /\ t = Main /\ run.pc = "phase" /\ y.phase = run.index
      /\ Phases[run.index].action = "stop-all"
  BY <1>3, OnlyMainStops
<1>5. /\ x \in ThreadType /\ x.pc = "stopPeers" /\ SameWork(x, y) /\ x.left = cleanup
      /\ x.stopped = y.stopped
  BY <1>2 DEF ThreadType, ThreadPcs, SameWork
<1> HIDE DEF x
<1>6. thread' \in [Threads -> ThreadType] /\ thread'[t] = x
      /\ \A s \in Threads \ {t} : thread'[s] = thread[s]
  BY <1>1, <1>2, <1>5
<1>7. /\ TypeInv' /\ Phases' = Phases /\ Threads' = Threads /\ JobNames' = JobNames
      /\ cleanupParticipants' = cleanup
  BY <1>1, <1>2, <1>6, QuietTypes DEF TypeInv
<1>8. Action(x)' = "stop-all"
  BY <1>3, <1>5, <1>7 DEF Action, SameWork
<1>9. ASSUME NEW s \in Threads PROVE ThreadQuiet(s) /\ FlowInv(s, thread[s])'
  <2>1. CASE s = t
    <3>1. ThreadQuiet(s)
      BY <1>1, <1>3, <1>5, <1>6, <2>1 DEF ThreadQuiet, SameWork
    <3>2. PlaceInv(s, x)'
      BY <1>1, <1>2, <1>5, <1>7, <1>8, <2>1 DEF FlowInv, PlaceInv, SameWork, Live
    <3>3. MainInv(x)'
      BY <1>1, <1>2, <1>4, <1>5, <1>7, <2>1 DEF FlowInv, MainInv, SameWork
    <3>4. y.stopped = {}
      BY <1>1, <1>2, <1>3, <1>4 DEF FlowInv, StopInv
    <3>5. StopInv(x)'
      BY <1>1, <1>5, <1>7, <3>4 DEF StopInv
    <3>6. CancelInv(s, x)'
      BY <1>1, <1>2, <1>5, <2>1 DEF FlowInv, CancelInv, SameWork
    <3>7. FlowInv(s, x)'
      BY <1>4, <2>1, <3>2, <3>3, <3>5, <3>6 DEF FlowInv
    <3> QED
      BY <1>6, <2>1, <3>1, <3>7
  <2>2. CASE s # t
    <3> PICK z : z = thread[s]
      OBVIOUS
    <3>1. thread'[s] = z /\ FlowInv(s, z) /\ ~Live(z) /\ s # Main
      BY <1>2, <1>4, <1>6, <2>2, ThreadFacts, ThreadsAtRest DEF Local
    <3>2. PlaceInv(s, z)'
      BY <1>1, <1>7, <3>1 DEF FlowInv, PlaceInv, Live, Action
    <3>3. JobInv(s, z)'
      BY <1>1, <1>7, <3>1 DEF FlowInv, JobInv, Live
    <3>4. CancelInv(s, z)'
      BY <1>1, <1>7, <3>1 DEF FlowInv, CancelInv, HasOp
    <3>5. FlowInv(s, z)'
      BY <3>1, <3>2, <3>3, <3>4 DEF FlowInv
    <3>6. ThreadQuiet(s)
      BY <3>1 DEF ThreadQuiet
    <3> QED
      BY <3>1, <3>5, <3>6
  <2> QED
    BY <2>1, <2>2
<1>10. RunInv'
  BY <1>1, <1>2, <1>4, <1>7 DEF RunInv
<1>11. FailureInv'
  <2>1. ~Failing(y)
    BY <1>1 DEF Failing
  <2>2. (\E s \in Threads : Failing(thread[s])) => \E s \in Threads' : Failing(thread'[s])
    BY <1>6, <1>7, <2>1
  <2> QED
    BY <1>1, <1>2, <1>4, <2>2 DEF FailureInv, Failing, HasOp
<1> QED
  BY <1>1, <1>7, <1>9, <1>10, <1>11, QuietStep

(* A thread begins the phase the scheduler has reached.                    *)
LEMMA StartFacts ==
  ASSUME IInv
  PROVE  LET x == Start(run.index)
         IN /\ run \in RunType => x \in ThreadType
            /\ x.pc = "top" /\ x.phase = run.index /\ x.gen = run.gen /\ x.rep = 0
            /\ ~x.canceled /\ x.ops = NoOps /\ x.stopped = {} /\ x.err = "none"
BY DEF Start, IdleThread, ThreadType, RunType, ThreadPcs, Errors, NoOps, OpStates

(* The scheduler enters a phase in its own thread or starts its job: the   *)
(* name is free, as the plan is valid.                                     *)
LEMMA enterPhaseStep ==
  ASSUME IInv, enterPhase
  PROVE  IInv'
<1> PICK i : i = run.index
  OBVIOUS
<1> PICK p : p = Phases[i]
  OBVIOUS
<1> PICK x : x = Start(run.index)
  OBVIOUS
<1>1. /\ run.pc = "loop" /\ run.index <= Len(Phases)
      /\ UNCHANGED <<plan, canceled, stopRequested, asyncErr, broken, inventory, remote, faults>>
  BY DEF enterPhase
<1>2. /\ TypeInv /\ RunInv /\ FailureInv /\ PlanInv /\ run \in RunType
      /\ thread \in [Threads -> ThreadType] /\ run.err = "none"
      /\ registered = KnownBefore(i) /\ run.index \in 1 .. Len(Phases) + 1
      /\ registered \subseteq JobNames
  BY <1>1 DEF IInv, TypeInv, RunInv
<1>3. i \in DOMAIN Phases
  BY <1>1, <1>2 DEF PlanInv
<1>4. /\ p.job \in JobNames /\ (~ShouldAwait(p) => p.action \in Operations /\ p.job \notin registered)
      /\ KnownBefore(i + 1) = KnownAfter(KnownBefore(i), p)
      /\ i \in Nat \ {0} /\ Len(Phases) \in Nat
  BY <1>2, <1>3, PhaseFacts
<1>5. /\ thread[Main].pc = "idle" /\ Main \in Threads /\ Main \notin JobNames
      /\ Threads = {Main} \cup JobNames /\ Main \notin registered
  BY <1>1, <1>2, ThreadsAtRest, MainIsNoJob
<1>6. /\ x \in ThreadType
      /\ x.pc = "top" /\ x.phase = i /\ x.gen = run.gen /\ x.rep = 0
      /\ ~x.canceled /\ x.ops = NoOps /\ x.stopped = {} /\ x.err = "none"
  BY <1>2, StartFacts
<1>7. Live(x) /\ ~Failing(x) /\ Phases[x.phase] = p
  BY <1>6 DEF Live, Failing
<1>8. CASE canceled /\ Leaves("canceled") /\ UNCHANGED <<thread, registered>>
  <2>1. /\ run' \in RunType /\ run'.gen = run.gen /\ run'.seq = run.seq /\ run'.index = run.index
        /\ run'.pc = "exit" /\ run'.err = "canceled" /\ run'.cleanupErr = run.cleanupErr
        /\ run'.background = run.background
    BY <1>2, <1>8 DEF Leaves, RunType, RunPcs, Errors
  <2>2. (\A t \in Threads : Failing(thread'[t]) <=> Failing(thread[t])) /\ (NoJobRuns' <=> NoJobRuns)
          => FailureInv'
    <3>1. Threads' = Threads
      BY <1>1 DEF Threads, JobNames, Phases
    <3>2. (\E t \in Threads : Failing(thread[t])) => \E t \in Threads' : Failing(thread'[t])
      BY <1>8, <3>1
    <3> QED
      BY <1>1, <1>2, <1>8, <2>1, <3>2 DEF FailureInv, Failing, HasOp
  <2>3. canceled \in BOOLEAN /\ stopRequested \in BOOLEAN
    BY <1>2 DEF TypeInv
  <2> QED
    BY <1>1, <1>8, <2>1, <2>2, <2>3, RunMoves
<1>9. CASE /\ ShouldAwait(p)
           /\ run' = [run EXCEPT !.pc = "phase"]
           /\ Set(Main, Start(run.index)) /\ UNCHANGED registered
  <2>1. /\ run' \in RunType /\ run'.gen = run.gen /\ run'.seq = run.seq /\ run'.index = run.index
        /\ run'.pc = "phase" /\ run'.err = run.err /\ run'.cleanupErr = run.cleanupErr
    BY <1>2, <1>9 DEF RunType, RunPcs
  <2>2. thread' = [thread EXCEPT ![Main] = x]
    BY <1>9 DEF Set
  <2>3. /\ thread' \in [Threads -> ThreadType] /\ thread'[Main] = x
        /\ \A s \in Threads \ {Main} : thread'[s] = thread[s]
    BY <1>2, <1>5, <1>6, <2>2
  <2>4. TypeInv' /\ Phases' = Phases /\ Threads' = Threads /\ JobNames' = JobNames
    BY <1>1, <1>2, <1>9, <2>1, <2>3, QuietTypes DEF TypeInv
  <2>5. ASSUME NEW s \in Threads PROVE ThreadQuiet(s) /\ FlowInv(s, thread[s])'
    <3>1. CASE s = Main
      <4>1. PlaceInv(s, x)'
        BY <1>3, <1>6, <2>1, <2>4 DEF PlaceInv, Live
      <4>2. MainInv(x)'
        BY <1>6, <1>7, <1>9, <2>1, <2>4 DEF MainInv
      <4>3. StopInv(x)'
        BY <1>6 DEF StopInv
      <4>4. CancelInv(s, x)'
        BY <1>6 DEF CancelInv
      <4>5. FlowInv(s, x)'
        BY <3>1, <4>1, <4>2, <4>3, <4>4 DEF FlowInv
      <4>6. ThreadQuiet(s)
        BY <1>6, <2>3, <3>1 DEF ThreadQuiet
      <4> QED
        BY <2>3, <3>1, <4>5, <4>6
    <3>2. CASE s # Main
      <4> PICK z : z = thread[s]
        OBVIOUS
      <4>1. FlowInv(s, z) /\ thread'[s] = z
        BY <2>3, <3>2, ThreadFacts DEF Local
      <4>2. PlaceInv(s, z)' /\ JobInv(s, z)'
        BY <1>1, <1>9, <2>1, <2>4, <3>2, <4>1 DEF FlowInv, PlaceInv, JobInv, Live, Action
      <4>3. CancelInv(s, z)'
        BY <1>1, <1>9, <2>1, <2>4, <4>1 DEF FlowInv, CancelInv, HasOp
      <4>4. FlowInv(s, z)'
        BY <3>2, <4>2, <4>3 DEF FlowInv
      <4>5. ThreadQuiet(s)
        BY <4>1 DEF ThreadQuiet
      <4> QED
        BY <4>1, <4>4, <4>5
    <3> QED
      BY <3>1, <3>2
  <2>6. RunInv'
    <3>1. KnownBefore(i)' = KnownBefore(i)
      BY <2>4 DEF KnownBefore
    <3>2. KnownBefore(run.index)' = KnownBefore(i)'
      BY <2>1
    <3>3. registered' = KnownBefore(run.index)'
      BY <1>2, <1>9, <3>1, <3>2
    <3>4. run'.err = "none" /\ ~run'.cleanupErr
      BY <1>1, <1>2, <2>1 DEF RunInv
    <3> QED
      BY <2>1, <3>3, <3>4 DEF RunInv
  <2>7. FailureInv'
    <3>1. ~Failing(thread[Main])
      BY <1>5 DEF Failing
    <3>2. (\E s \in Threads : Failing(thread[s])) => \E s \in Threads' : Failing(thread'[s])
      BY <2>3, <2>4, <3>1
    <3> QED
      BY <1>1, <1>2, <2>1, <3>2 DEF FailureInv, Failing, HasOp
  <2> QED
    BY <1>1, <2>1, <2>4, <2>5, <2>6, <2>7, QuietStep
<1>10. CASE /\ ~ShouldAwait(p) /\ p.job \notin registered
            /\ registered' = registered \cup {p.job}
            /\ Set(p.job, Start(run.index)) /\ Advances
  <2> PICK j : j = p.job
    OBVIOUS
  <2>1. /\ run' \in RunType /\ run'.gen = run.gen /\ run'.seq = run.seq /\ run'.index = i + 1
        /\ run'.pc = "loop" /\ run'.err = run.err /\ run'.cleanupErr = run.cleanupErr
    BY <1>1, <1>2, <1>4, <1>10 DEF Advances, RunType, RunPcs
  <2>2. thread' = [thread EXCEPT ![j] = x] /\ registered' = registered \cup {j}
        /\ j \in JobNames /\ j \in Threads /\ j # Main
    BY <1>4, <1>5, <1>10 DEF Set
  <2>3. /\ thread' \in [Threads -> ThreadType] /\ thread'[j] = x
        /\ \A s \in Threads \ {j} : thread'[s] = thread[s]
    BY <1>2, <1>6, <2>2
  <2>4. TypeInv' /\ Phases' = Phases /\ Threads' = Threads /\ JobNames' = JobNames
    BY <1>1, <1>2, <2>1, <2>2, <2>3, QuietTypes DEF TypeInv
  <2>5. ~Live(thread[j]) /\ ~Failing(thread[j])
    <3>1. JobInv(j, thread[j])
      BY <2>2, ThreadFacts DEF Local, FlowInv
    <3> QED
      BY <1>10, <2>2, <3>1, ThreadsAtRest DEF JobInv
  <2>6. ASSUME NEW s \in Threads PROVE ThreadQuiet(s) /\ FlowInv(s, thread[s])'
    <3>1. CASE s = j
      <4>1. PlaceInv(s, x)'
        BY <1>3, <1>6, <2>1, <2>4 DEF PlaceInv, Live
      <4>2. JobInv(s, x)'
        BY <1>6, <1>7, <1>10, <2>2, <2>4, <3>1 DEF JobInv
      <4>3. CancelInv(s, x)'
        BY <1>6 DEF CancelInv
      <4>4. FlowInv(s, x)'
        BY <2>2, <3>1, <4>1, <4>2, <4>3 DEF FlowInv
      <4>5. ThreadQuiet(s)
        BY <1>6, <2>3, <3>1 DEF ThreadQuiet
      <4> QED
        BY <2>3, <3>1, <4>4, <4>5
    <3>2. CASE s # j
      <4> PICK z : z = thread[s]
        OBVIOUS
      <4>1. FlowInv(s, z) /\ thread'[s] = z
        BY <2>3, <3>2, ThreadFacts DEF Local
      <4>2. PlaceInv(s, z)' /\ (s # Main => JobInv(s, z)')
        BY <1>1, <2>1, <2>2, <2>4, <4>1 DEF FlowInv, PlaceInv, JobInv, Live, Action
      <4>3. s = Main => MainInv(z)' /\ StopInv(z)'
        BY <1>5, <2>1, <4>1 DEF FlowInv, MainInv, StopInv
      <4>4. CancelInv(s, z)'
        BY <1>1, <2>1, <2>2, <2>4, <3>2, <4>1 DEF FlowInv, CancelInv, HasOp
      <4>5. FlowInv(s, z)'
        BY <4>2, <4>3, <4>4 DEF FlowInv
      <4>6. ThreadQuiet(s)
        BY <4>1 DEF ThreadQuiet
      <4> QED
        BY <4>1, <4>5, <4>6
    <3> QED
      BY <3>1, <3>2
  <2>7. RunInv'
    <3>1. p.action # "stop-all"
      BY <1>4, <1>10 DEF Operations
    <3>2. KnownBefore(i + 1) = registered \cup {p.job}
      BY <1>2, <1>4, <1>10, <3>1 DEF KnownAfter
    <3>3. KnownBefore(run.index)' = KnownBefore(i + 1)
      BY <2>1, <2>4 DEF KnownBefore
    <3>4. i + 1 \in 1 .. Len(Phases) + 1
      BY <1>2, <1>3, <1>4 DEF PlanInv
    <3>5. run'.index \in 1 .. Len(Phases)' + 1
      BY <2>1, <2>4, <3>4
    <3>6. registered' = KnownBefore(run.index)'
      BY <1>10, <3>2, <3>3
    <3>7. run'.err = "none" /\ ~run'.cleanupErr
      BY <1>1, <1>2, <2>1 DEF RunInv
    <3> QED
      BY <2>1, <3>5, <3>6, <3>7 DEF RunInv
  <2>8. FailureInv'
    <3>1. (\E s \in Threads : Failing(thread[s])) => \E s \in Threads' : Failing(thread'[s])
      BY <2>3, <2>4, <2>5
    <3> QED
      BY <1>1, <1>2, <2>1, <3>1 DEF FailureInv, Failing, HasOp
  <2> QED
    BY <1>1, <2>1, <2>4, <2>6, <2>7, <2>8, QuietStep
<1> QED
  BY <1>4, <1>8, <1>9, <1>10 DEF enterPhase

(* A phase is over: the run goes on, with a new generation after a stop-   *)
(* all that swept the last, or ends with the error.                        *)
LEMMA phaseReturnsStep ==
  ASSUME IInv, phaseReturns
  PROVE  IInv'
<1> PICK i : i = run.index
  OBVIOUS
<1> PICK p : p = Phases[i]
  OBVIOUS
<1> PICK y : y = thread[Main]
  OBVIOUS
<1>1. /\ run.pc = "phase" /\ y.pc = "returned" /\ thread' = [thread EXCEPT ![Main] = IdleThread]
      /\ UNCHANGED <<plan, registered, canceled, stopRequested, asyncErr, broken, inventory, remote, faults>>
      /\ run' = IF y.err # "none" THEN [run EXCEPT !.pc = "exit", !.err = y.err]
                ELSE [run EXCEPT !.pc = "loop", !.index = @ + 1,
                                 !.gen = IF Phase(Main).action = "stop-all" THEN @ + 1 ELSE @]
  BY DEF phaseReturns, Set
<1>2. /\ TypeInv /\ RunInv /\ FailureInv /\ PlanInv /\ run \in RunType
      /\ thread \in [Threads -> ThreadType] /\ run.err = "none"
      /\ registered \subseteq JobNames
  BY <1>1 DEF IInv, TypeInv, RunInv
<1>3. /\ Main \in Threads /\ Main \notin JobNames /\ Threads = {Main} \cup JobNames
      /\ Main \notin registered
  BY <1>2, ThreadsAtRest, MainIsNoJob
<1>4. FlowInv(Main, y) /\ y \in ThreadType
  BY <1>3, ThreadFacts DEF Local
<1>5. /\ y.phase = i /\ i \in DOMAIN Phases /\ ShouldAwait(p) /\ ~y.canceled
      /\ y.err \in {"none", "failed", "canceled"}
  BY <1>1, <1>4 DEF FlowInv, PlaceInv, MainInv, ThreadType, Errors
<1>6. Phase(Main).action = p.action /\ Action(y) = p.action
  BY <1>5 DEF Phase, Action
<1>7. /\ KnownBefore(i + 1) = KnownAfter(KnownBefore(i), p)
      /\ i \in Nat \ {0} /\ Len(Phases) \in Nat /\ i + 1 \in 1 .. Len(Phases) + 1
  BY <1>2, <1>5, PhaseFacts
<1>8. p.action = "stop-all" /\ y.err = "none" => Swept
  BY <1>1, <1>4, <1>6 DEF FlowInv, StopInv
<1>9. IdleThread \in ThreadType /\ IdleThread.pc = "idle" /\ IdleThread.ops = NoOps
      /\ IdleThread.err = "none" /\ ~IdleThread.canceled
  BY DEF IdleThread, ThreadType, ThreadPcs, NoOps, OpStates, Errors
<1> PICK x : x = IdleThread
  OBVIOUS
<1>10. /\ thread' \in [Threads -> ThreadType] /\ thread'[Main] = x
       /\ \A s \in Threads \ {Main} : thread'[s] = thread[s]
  BY <1>1, <1>2, <1>3, <1>9
<1>11. /\ run' \in RunType /\ run'.seq = run.seq /\ run'.cleanupErr = run.cleanupErr
       /\ y.err # "none" => run'.pc = "exit" /\ run'.err = y.err /\ run'.index = i /\ run'.gen = run.gen
       /\ y.err = "none" => /\ run'.pc = "loop" /\ run'.err = "none" /\ run'.index = i + 1
                            /\ run'.gen = IF p.action = "stop-all" THEN run.gen + 1 ELSE run.gen
  <2>1. CASE y.err # "none"
    <3>1. run' = [run EXCEPT !.pc = "exit", !.err = y.err]
      BY <1>1, <2>1
    <3> QED
      BY <1>2, <1>5, <2>1, <3>1 DEF RunType, RunPcs, Errors
  <2>2. CASE y.err = "none"
    <3> PICK g : g = IF p.action = "stop-all" THEN run.gen + 1 ELSE run.gen
      OBVIOUS
    <3>1. g \in Nat /\ run.index = i /\ i + 1 \in Nat \ {0}
      BY <1>2, <1>7 DEF RunType
    <3>2. run' = [run EXCEPT !.pc = "loop", !.index = i + 1, !.gen = g]
      BY <1>1, <1>6, <2>2, <3>1
    <3> QED
      BY <1>2, <2>2, <3>1, <3>2 DEF RunType, RunPcs
  <2> QED
    BY <2>1, <2>2
<1>12. TypeInv' /\ Phases' = Phases /\ Threads' = Threads /\ JobNames' = JobNames
  BY <1>1, <1>2, <1>10, <1>11, QuietTypes DEF TypeInv
<1>13. ASSUME Swept PROVE \A s \in Threads : ~Live(thread'[s])
  <2>1. AllDone(registered)
    BY <1>13 DEF Swept, AllDone
  <2> QED
    BY <1>9, <1>10, <2>1, ThreadsAtRest DEF Live
<1>14. run'.gen = run.gen \/ NewGeneration
  BY <1>8, <1>11, <1>13 DEF NewGeneration
<1>15. ASSUME NEW s \in Threads PROVE ThreadQuiet(s) /\ FlowInv(s, thread[s])'
  <2>1. CASE s = Main
    <3>1. PlaceInv(s, x)' /\ MainInv(x)' /\ StopInv(x)' /\ CancelInv(s, x)'
      BY <1>9, <1>11 DEF PlaceInv, Live, MainInv, StopInv, CancelInv
    <3>2. FlowInv(s, x)'
      BY <2>1, <3>1 DEF FlowInv
    <3>3. ThreadQuiet(s)
      BY <1>9, <1>10, <2>1 DEF ThreadQuiet
    <3> QED
      BY <1>10, <2>1, <3>2, <3>3
  <2>2. CASE s # Main
    <3> PICK z : z = thread[s]
      OBVIOUS
    <3>1. FlowInv(s, z) /\ thread'[s] = z
      BY <1>10, <2>2, ThreadFacts DEF Local
    <3>2. Live(z) => run'.gen = run.gen
      BY <1>14, <3>1 DEF NewGeneration
    <3>3. PlaceInv(s, z)' /\ JobInv(s, z)'
      BY <1>1, <1>12, <2>2, <3>1, <3>2 DEF FlowInv, PlaceInv, JobInv, Live, Action
    <3>4. CancelInv(s, z)'
      <4>1. s \in registered /\ z.canceled => run'.pc # "loop" /\ run'.pc # "phase"
        <5> HAVE s \in registered /\ z.canceled
        <5>1. p.action = "stop-all"
          BY <1>1, <3>1 DEF FlowInv, CancelInv
        <5>2. y.err # "none"
          BY <1>8, <5>1 DEF Swept
        <5> QED
          BY <1>11, <5>2
      <4> QED
        BY <1>1, <1>12, <3>1, <4>1 DEF FlowInv, CancelInv, HasOp
    <3>5. FlowInv(s, z)'
      BY <2>2, <3>3, <3>4 DEF FlowInv
    <3>6. ThreadQuiet(s)
      BY <3>1 DEF ThreadQuiet
    <3> QED
      BY <3>1, <3>5, <3>6
  <2> QED
    BY <2>1, <2>2
<1>16. RunInv'
  <2>1. CASE y.err # "none"
    BY <1>5, <1>11, <2>1 DEF RunInv
  <2>2. CASE y.err = "none"
    <3>1. registered = KnownBefore(i + 1)
      BY <1>1, <1>2, <1>5, <1>7, <1>8, <2>2 DEF KnownAfter, Swept, RunInv
    <3>2. KnownBefore(run.index)' = KnownBefore(i + 1)
      BY <1>11, <1>12, <2>2 DEF KnownBefore
    <3> QED
      BY <1>1, <1>2, <1>7, <1>11, <1>12, <2>2, <3>1, <3>2 DEF RunInv
  <2> QED
    BY <2>1, <2>2
<1>17. FailureInv'
  <2>1. Failing(y) => run'.err = "failed"
    BY <1>1, <1>11 DEF Failing
  <2>2. (\E s \in Threads : Failing(thread[s])) =>
          run'.err = "failed" \/ \E s \in Threads' : Failing(thread'[s])
    BY <1>10, <1>12, <2>1
  <2>3. y.err = "canceled" => stopRequested \/ asyncErr
    BY <1>1, <1>2, <1>4, <1>5 DEF FlowInv, CancelInv, FailureInv
  <2>4. run'.pc \in {"exit", "loop"} /\ (run'.pc = "exit" => run'.err # "none")
        /\ (run'.err = "canceled" => stopRequested \/ asyncErr)
    BY <1>11, <2>3
  <2> QED
    BY <1>1, <1>2, <1>11, <2>2, <2>4 DEF FailureInv, Failing, HasOp
<1> QED
  BY <1>1, <1>11, <1>12, <1>14, <1>15, <1>16, <1>17, QuietStep

-----------------------------------------------------------------------------
(* Every step keeps the inductive invariant.                               *)

(* A step of a goroutine that executes a phase.                            *)
LEMMA ThreadKeeps ==
  ASSUME IInv, NEW t \in Threads, Thread(t)
  PROVE  IInv'
<1>1. CASE phaseRepeated(t) \/ rests(t) \/ runJoin(t) \/ selectBatchAgent(t) \/ runPublish(t) \/ runLeave(t)
  BY <1>1, phaseRepeatedStep, restsStep, runJoinStep, selectBatchAgentStep, runPublishStep, runLeaveStep
<1>2. CASE waitsForJobs(t) \/ jobWaitReturns(t) \/ waitReady(t) \/ phaseTimesOut(t)
  BY <1>2, waitsForJobsStep, jobWaitReturnsStep, waitReadyStep
<1>3. CASE runOperations(t) \/ \E q \in Peers : Operation(t, q)
  BY <1>3, runOperationsStep, OperationStep
<1>4. CASE stopAll(t) \/ resetJobs(t) \/ jobsDoNotStop(t) \/ generationStopped(t)
  BY <1>4, stopAllStep, resetJobsStep, jobsDoNotStopStep, generationStoppedStep
<1>5. CASE refreshAgentState(t) \/ \E a \in Agents : stopRunGeneration(t, a)
  BY <1>5, refreshAgentStateStep, stopRunGenerationStep
<1>6. CASE jobReturns(t) \/ jobCloses(t)
  BY <1>6, jobReturnsStep, jobClosesStep
<1> QED
  BY <1>1, <1>2, <1>3, <1>4, <1>5, <1>6 DEF Thread

(* A step of the scheduler's goroutine between two phases.                 *)
LEMMA runScenarioKeeps ==
  ASSUME IInv, runScenario
  PROVE  IInv'
BY enterPhaseStep, phaseReturnsStep, drainsStep, exitScenarioStep, backgroundStoppedStep,
   sampleFailuresStep, retireHandleStep DEF runScenario

(* A stop of the run, or a step of an Agent.                               *)
LEMMA EnvironmentKeeps ==
  ASSUME IInv, Environment
  PROVE  IInv'
BY StopScenarioStep, agentCreatesStep, heartbeatStep, peerFailsStep, capacityReportedStep
   DEF Environment

(* A step that changes nothing.                                            *)
LEMMA StutterKeeps ==
  ASSUME IInv, UNCHANGED vars
  PROVE  IInv'
<1>1. /\ UNCHANGED <<plan, inventory, remote, faults>> /\ UNCHANGED <<run, thread, registered>>
      /\ UNCHANGED <<canceled, stopRequested, asyncErr, broken>>
  BY DEF vars, control
<1>2. TypeInv
  BY DEF IInv
<1>3. TypeInv' /\ Phases' = Phases /\ Threads' = Threads /\ JobNames' = JobNames
  BY <1>1, <1>2, QuietTypes DEF TypeInv
<1>4. RunInv /\ FailureInv
  BY DEF IInv
<1>5. ASSUME NEW s \in Threads PROVE ThreadQuiet(s) /\ FlowInv(s, thread[s])'
  <2> PICK z : z = thread[s]
    OBVIOUS
  <2>1. FlowInv(s, z) /\ thread'[s] = z
    BY <1>1, ThreadFacts DEF Local
  <2>2. PlaceInv(s, z)' /\ CancelInv(s, z)'
    BY <1>1, <1>3, <2>1 DEF FlowInv, PlaceInv, CancelInv, HasOp, Live, Action
  <2>3. s # Main => JobInv(s, z)'
    BY <1>1, <1>3, <2>1 DEF FlowInv, JobInv, Live
  <2>4. s = Main => MainInv(z)' /\ StopInv(z)'
    <3>1. cleanupParticipants' = cleanupParticipants /\ (Swept <=> Swept')
          /\ \A a \in Agents : Fenced(a) <=> Fenced(a)'
      BY <1>1, <1>2 DEF Swept, Fenced, cleanupParticipants, TypeInv, inventory, remote
    <3>2. (Action(z) = "stop-all") <=> (Action(z)' = "stop-all")
      BY <1>3 DEF Action
    <3>3. z \in ThreadType
      BY <2>1, ThreadFacts
    <3>4. \A a \in z.stopped : Fenced(a) <=> Fenced(a)'
      BY <3>1, <3>3 DEF ThreadType
    <3> QED
      BY <1>1, <1>3, <2>1, <3>1, <3>2, <3>4 DEF FlowInv, MainInv, StopInv
  <2>5. FlowInv(s, z)'
    BY <2>2, <2>3, <2>4 DEF FlowInv
  <2>6. ThreadQuiet(s)
    BY <2>1 DEF ThreadQuiet
  <2> QED
    BY <2>1, <2>5, <2>6
<1>6. RunInv'
  BY <1>1, <1>3, <1>4 DEF RunInv, KnownBefore
<1>7. FailureInv'
  BY <1>1, <1>3, <1>4 DEF FailureInv, NoJobRuns, Failing, HasOp
<1> QED
  BY <1>1, <1>3, <1>5, <1>6, <1>7, QuietStep

(* The inductive invariant holds of every execution.                       *)
THEOREM Inductive == Spec => []IInv
<1>1. Init => IInv
  BY InitInv
<1>2. IInv /\ [Next]_vars => IInv'
  BY ThreadKeeps, runScenarioKeeps, EnvironmentKeeps, StutterKeeps DEF Next
<1> QED
  BY <1>1, <1>2, PTL DEF Spec

(* What is kept has the shape the source gives it (struct runHandle and    *)
(* phaseJobs).                                                             *)
THEOREM TypeCorrect == Spec => []TypeOK
<1>1. IInv => TypeOK
  BY DEF IInv, TypeInv, TypeOK, RunType, AgentType, NodeStates
<1> QED
  BY <1>1, Inductive, PTL

(* No phase of a valid scenario waits for a job phaseJobs does not know,   *)
(* or starts one it still has (scenario.go Validate against jobs.go        *)
(* selectJobs and startJob), whatever the plan.                            *)
THEOREM NamesAlwaysResolve == Spec => []NamesResolve
<1>1. IInv => NamesResolve
  BY DEF IInv, RunInv, Local, FlowInv, PlaceInv, NamesResolve
<1> QED
  BY <1>1, Inductive, PTL

(* A failure no phase tolerates is in the result of the run, and a run     *)
(* nobody stopped does not end as canceled (recordAsyncFailure and the end *)
(* of runScenario).                                                        *)
THEOREM ResultsAlwaysTell == Spec => []ResultsTellFailures
<1>1. IInv => ResultsTellFailures
  BY DEF IInv, FailureInv, ResultsTellFailures
<1> QED
  BY <1>1, Inductive, PTL

(* Once a stop-all is over no job, operation, create or Peer of an earlier *)
(* generation is left (jobs.go reset, runner.go stopRunGeneration).        *)
THEOREM EarlierGenerationsStayGone == Spec => []EarlierGenerationsAreGone
<1>1. ASSUME IInv PROVE EarlierGenerationsAreGone
  <2>1. ASSUME NEW t \in Threads, Live(thread[t]) PROVE thread[t].gen = run.gen
    BY <1>1, <2>1 DEF IInv, Local, FlowInv, PlaceInv
  <2>2. ASSUME NEW a \in Agents, NEW q \in agents[a].peers PROVE requests[q].gen >= run.gen
    <3>1. requests[q].gen = run.gen /\ run.gen \in Nat
      BY <1>1 DEF IInv, AgentInv, TypeInv, RunType
    <3> QED
      BY <3>1
  <2> QED
    BY <2>1, <2>2 DEF EarlierGenerationsAreGone, Live
<1> QED
  BY <1>1, Inductive, PTL
=============================================================================
