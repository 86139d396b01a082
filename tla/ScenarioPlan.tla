---------------------------- MODULE ScenarioPlan ----------------------------
(***************************************************************************)
(* The phases of a scenario and their validation (internal/scenario).      *)
(*                                                                         *)
(* A phase is a record; a number that is not given is 0, a text that is    *)
(* not given is "".  Job n is the name "phase-n", which phase n takes when *)
(* it names no job of its own, so that a name may collide with a default.  *)
(* Durations are numbers, ratios percent; intervals, lifetimes, payloads and    *)
(* peer profiles are legal.                                                *)
(***************************************************************************)
EXTENDS Integers, Sequences, SequencesExt

Blank ==
  [action |-> "log", job |-> 0, jobs |-> {}, await |-> TRUE, group |-> "",
   count |-> 0, repeat |-> 0, parallel |-> FALSE, parallelism |-> 0,
   min |-> 0, ratio |-> 0, timeout |-> 0, duration |-> 0, onError |-> "",
   placement |-> ""]

(* What a phase is read into, before it is validated.                      *)
PhaseRecord ==
  [action : STRING, job : Nat, jobs : SUBSET Nat, await : BOOLEAN, group : STRING,
   count : Int, repeat : Int, parallel : BOOLEAN, parallelism : Int,
   min : Int, ratio : Int, timeout : Int, duration : Int, onError : STRING,
   placement : STRING]

(* The actions that run operations on Peers, one by one or in parallel.    *)
Operations == {"join", "publish", "leave"}
Lenient    == {"publish", "leave"}
Waits      == {"wait-ready", "wait-jobs"}

ShouldAwait(p) == p.await

Alias(action) ==
  CASE action = "sleep" -> "wait" [] action = "reset" -> "stop-all" [] OTHER -> action

withDefaults(p, i) ==
  LET action == Alias(p.action)
      Set(value, for, default) == IF value = 0 /\ action \in for THEN default ELSE value
  IN [p EXCEPT
        !.action    = action,
        !.job       = Set(@, {action}, i),
        !.repeat    = Set(@, {action}, 1),
        !.ratio     = Set(@, {"wait-ready"}, 100),
        !.timeout   = Set(@, Waits, 5),
        !.onError   = IF @ = "" /\ action \in Lenient THEN "fail" ELSE @,
        !.placement = IF @ = "" /\ action = "join" THEN "balanced" ELSE @]

(* A setting is given only to an action that has it.                       *)
SettingsFit(p) ==
  /\ p.repeat >= 1
  /\ p.parallelism >= 0
  /\ p.jobs # {} => p.action \in Waits
  /\ p.onError # "" => p.action \in Lenient /\ p.onError \in {"fail", "continue"}
  /\ p.placement # "" => p.action = "join"
  /\ ~ShouldAwait(p) => p.action \in Operations
  /\ p.parallel => p.action \in Operations

PeersAreNamed(p) == p.group # "" /\ p.count >= 1

ActionFits(p) ==
  CASE p.action = "join"              -> /\ PeersAreNamed(p)
                                         /\ p.placement \in {"balanced", "single-agent", "random"}
    [] p.action \in Lenient           -> PeersAreNamed(p)
    [] p.action = "wait"              -> p.duration > 0
    [] p.action = "wait-ready"        -> p.min >= 0 /\ p.ratio > 0 /\ p.timeout > 0
    [] p.action = "wait-jobs"         -> p.timeout > 0
    [] p.action \in {"stop-all", "log"} -> TRUE
    [] OTHER                          -> FALSE

-----------------------------------------------------------------------------
(* What is known of the jobs while the phases are read: the names that     *)
(* were started since the last stop-all, and the joins in the background   *)
(* nobody waited for, with their groups.                                   *)

NothingRead == [ok |-> TRUE, known |-> {}, joins |-> {}]

firstUnwaitedBackgroundJoin(joins, group, waited) ==
  {j \in joins : group \in {"", j.group} /\ j.job \notin waited}

removeBackgroundJoinJobs(joins, waited) == {j \in joins : j.job \notin waited}

(* A wait names jobs that were started, and a wait for readiness does not  *)
(* take for complete a group that is still joining.                        *)
WaitFits(read, p) ==
  /\ p.action \in Waits => p.jobs \subseteq read.known
  /\ p.action = "wait-ready" /\ p.min = 0 =>
       firstUnwaitedBackgroundJoin(read.joins, p.group, p.jobs) = {}

JobIsNew(read, p) == ShouldAwait(p) \/ p.job \notin read.known

JoinsAfter(joins, p) ==
  IF p.action = "join" /\ ~ShouldAwait(p) THEN joins \cup {[job |-> p.job, group |-> p.group]}
  ELSE IF p.action = "stop-all" \/ (p.action = "wait-jobs" /\ p.jobs = {}) THEN {}
  ELSE IF p.action \in Waits THEN removeBackgroundJoinJobs(joins, p.jobs) ELSE joins

(* Mutant: the names of before a stop-all can still be waited for.         *)
KnownAlways(known, p) == known \cup (IF ShouldAwait(p) THEN {} ELSE {p.job})

KnownAfter(known, p) ==
  (IF p.action = "stop-all" THEN {} ELSE known) \cup (IF ShouldAwait(p) THEN {} ELSE {p.job})

readPhase(read, p) ==
  [ok    |-> read.ok /\ SettingsFit(p) /\ ActionFits(p) /\ WaitFits(read, p) /\ JobIsNew(read, p),
   known |-> KnownAfter(read.known, p),
   joins |-> JoinsAfter(read.joins, p)]

Prepared(phases) == [i \in DOMAIN phases |-> withDefaults(phases[i], i)]

(* phases are prepared. *)
Validate(phases) ==
  /\ phases # <<>>
  /\ FoldLeft(readPhase, NothingRead, phases).ok
=============================================================================
