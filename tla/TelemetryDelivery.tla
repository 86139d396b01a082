-------------------------- MODULE TelemetryDelivery --------------------------
(***************************************************************************)
(* Telemetry on its way from the Peers through one Agent to the event logs *)
(* of the Controller: internal/peer/telemetry.go (run, flush),             *)
(* internal/agent/agent.go (enqueueEvents, flushEvents, queueTermination), *)
(* internal/agent/telemetry_spool.go and internal/controller/state.go      *)
(* (appendEvents, appendRunEvents, persistEventsLocked).                   *)
(*                                                                         *)
(* Every hop retries until it has an answer, so events are sent more than  *)
(* once; a request its sender gave up on may still be handled.  The Agent  *)
(* keeps what it has accepted in spool segments on disk, the Controller    *)
(* appends to one log per run and recognises repetitions by identities it  *)
(* has in memory.  Agent and Controller may restart at any point, and any  *)
(* write may fail, with or without having reached the disk.                *)
(***************************************************************************)
EXTENDS Naturals, Sequences, FiniteSets, Functions

CONSTANTS
  Peers,      \* node IDs
  Runs,       \* run IDs
  RunOf,      \* the run of each Peer
  MaxEvents,  \* bound: events one Peer emits
  Limit,      \* stands for the 50000 events the Agent keeps in memory
  MaxBatch,   \* stands for MaxEventBatchEvents and the byte limit of a batch
  MaxFaults   \* bound: lost answers, failed writes and restarts

ASSUME RunAssumption    == RunOf \in [Peers -> Runs]
ASSUME BoundsAssumption == MaxEvents \in Nat /\ Limit \in Nat /\ MaxFaults \in Nat
                           /\ MaxBatch \in Nat \ {0}

VARIABLES
  \* Peers.
  alive,         \* whether the Peer runs
  sent,          \* how many of its events the Agent has acknowledged
  post,          \* its POST /telemetry in progress
  latePosts,     \* posts the Peer gave up on, still to be handled
  \* Agent, in memory.
  events,        \* Server.events
  flight,        \* batchEvents of the flush in progress
  answer,        \* its POST: "none", "sent", "ok" or "failed"
  terminations,  \* Server.terminations, in the order they were queued
  spoolError,    \* Server.spoolError
  closed,        \* Server.telemetryClosed
  \* Agent, on disk.
  segments,      \* the spool, in the order of the file names
  \* Controller.
  batches,       \* POST /events/batch requests being handled
  seen,          \* identities in the accumulators of runMetrics
  log,           \* events.jsonl of each run
  \* Bookkeeping.
  faults,        \* faults so far
  exits,         \* Peers whose exit this Agent instance has seen
  accepted,      \* events the Agent has acknowledged, or markers it has spooled
  repeatable     \* a log may repeat events: restart or failed write of it

peerVars  == <<alive, sent, post, latePosts>>
agentVars == <<events, flight, answer, terminations, spoolError, closed, segments>>
logVars   == <<batches, seen, log, repeatable>>
vars == <<peerVars, agentVars, logVars, faults, exits, accepted>>

(* The i-th event of Peer p, and the exit marker its Agent emits for it.   *)
Marker(p) == <<p, 0>>
Events    == Peers \X (0 .. MaxEvents)
Run(e)    == RunOf[e[1]]

(* The elements of s at the positions in P, in order.                      *)
Kept(s, P) ==
  [n \in 1 .. Cardinality(P) |-> s[CHOOSE i \in P : Cardinality({j \in P : j <= i}) = n]]

Take(s, n) == SubSeq(s, 1, n)
Drop(s, n) == SubSeq(s, n + 1, Len(s))

NoPost == [phase |-> "none", upto |-> 0]

Init ==
  /\ alive = [p \in Peers |-> TRUE]
  /\ sent = [p \in Peers |-> 0]
  /\ post = [p \in Peers |-> NoPost]
  /\ latePosts = {}
  /\ events = <<>> /\ flight = <<>> /\ answer = "none"
  /\ terminations = <<>> /\ spoolError = FALSE /\ closed = FALSE
  /\ segments = <<>>
  /\ batches = {}
  /\ seen = {}
  /\ log = [r \in Runs |-> <<>>]
  /\ faults = 0
  /\ exits = {}
  /\ accepted = {}
  /\ repeatable = FALSE

Fault == faults < MaxFaults /\ faults' = faults + 1

-----------------------------------------------------------------------------
(* The spool.                                                              *)

(* One segment per accepted batch.  ack is the acknowledged prefix in      *)
(* memory, saved the one on disk; a segment whose write failed after it    *)
(* reached the disk is not tracked in memory.                              *)
Segment(batch, tracked) ==
  [events |-> batch, ack |-> 0, saved |-> 0, tracked |-> tracked]

(* The segments that still owe event e, in the order of telemetrySpool.refs *)
Refs(e) ==
  {s \in DOMAIN segments : /\ segments[s].tracked
                           /\ \E i \in DOMAIN segments[s].events :
                                i > segments[s].ack /\ segments[s].events[i] = e}

Position(s, e) == CHOOSE i \in DOMAIN segments[s].events : segments[s].events[i] = e

(* acknowledge takes the k-th reference to an event for its k-th           *)
(* occurrence in the batch.                                                *)
Occurrences(batch, e) == Cardinality({j \in DOMAIN batch : batch[j] = e})

Selected(batch, s) ==
  {Position(s, e) : e \in {f \in Range(batch) :
     /\ s \in Refs(f)
     /\ Cardinality({t \in Refs(f) : t <= s}) <= Occurrences(batch, f)}}

Acknowledged(batch) == {s \in DOMAIN segments : Selected(batch, s) # {}}

(* The positions extend the acknowledged prefix without a gap.             *)
InOrder(batch, s) ==
  Selected(batch, s) =
    segments[s].ack + 1 .. segments[s].ack + Cardinality(Selected(batch, s))

(* Segments after the acknowledgments of the ones in done are written, and *)
(* those of the ones in saved only on disk.  Finished ones are removed.    *)
AfterAck(batch, done, saved) ==
  LET next(s) == segments[s].ack + Cardinality(Selected(batch, s))
      marked == [s \in DOMAIN segments |->
        IF s \in done THEN [segments[s] EXCEPT !.ack = next(s), !.saved = next(s)]
        ELSE IF s \in saved THEN [segments[s] EXCEPT !.saved = next(s)]
        ELSE segments[s]]
  IN Kept(marked, {s \in DOMAIN marked : marked[s].ack < Len(marked[s].events)})

-----------------------------------------------------------------------------
(* Peer: run and flush.                                                    *)

(* The next batch is posted; it is kept until it is acknowledged.          *)
flush(p, upto) ==
  /\ alive[p]
  /\ post[p].phase = "none"
  /\ upto \in sent[p] + 1 .. MaxEvents
  /\ post' = [post EXCEPT ![p] = [phase |-> "sent", upto |-> upto]]
  /\ UNCHANGED <<alive, sent, latePosts, agentVars, logVars, faults, accepted, exits>>

(* 204, or 503 and the same batch again after the retry interval.          *)
postAnswered(p) ==
  /\ post[p].phase \in {"ok", "refused"}
  /\ sent' = [sent EXCEPT ![p] = IF post[p].phase = "ok" THEN post[p].upto ELSE @]
  /\ post' = [post EXCEPT ![p] =
       IF @.phase = "ok" THEN NoPost ELSE [@ EXCEPT !.phase = "sent"]]
  /\ UNCHANGED <<alive, latePosts, agentVars, logVars, faults, accepted, exits>>

(* The post times out: not handled yet, or handled and the answer lost.    *)
postTimesOut(p) ==
  /\ Fault
  /\ post[p].phase # "none"
  /\ latePosts' = IF post[p].phase = "sent"
                  THEN latePosts \cup {<<p, sent[p] + 1, post[p].upto>>} ELSE latePosts
  /\ post' = [post EXCEPT ![p].phase = "sent"]
  /\ UNCHANGED <<alive, sent, agentVars, logVars, accepted, exits>>

-----------------------------------------------------------------------------
(* Agent: admission.                                                       *)

Batch(p, from, upto) == [i \in 1 .. upto - from + 1 |-> <<p, from + i - 1>>]

Room(batch) == Len(events) + Len(flight) + Len(batch) <= Limit

(* Mutant: acknowledged from memory, the segment is written later.         *)
enqueueUnspooled(batch, outcome) ==
  /\ outcome = "ok" /\ ~closed /\ Room(batch)
  /\ events' = events \o batch
  /\ accepted' = accepted \cup Range(batch)
  /\ UNCHANGED <<segments, faults, spoolError>>

(* The outcome of enqueueEvents.  An error of the spool refuses the batch, *)
(* also when the segment has reached the disk.                             *)
enqueueEvents(batch, outcome) ==
  CASE outcome = "ok" ->
         /\ ~closed /\ Room(batch)
         /\ segments' = Append(segments, Segment(batch, TRUE))
         /\ events' = events \o batch
         /\ accepted' = accepted \cup Range(batch)
         /\ UNCHANGED <<faults, spoolError>>
    [] outcome = "full" ->
         /\ closed \/ ~Room(batch)
         /\ UNCHANGED <<events, segments, faults, spoolError, accepted>>
    [] outcome \in {"unsaved", "saved"} ->
         /\ ~closed /\ Room(batch)
         /\ Fault
         /\ spoolError' = TRUE
         /\ segments' = IF outcome = "saved" THEN Append(segments, Segment(batch, FALSE))
                        ELSE segments
         /\ UNCHANGED <<events, accepted>>

Outcomes == {"ok", "full", "unsaved", "saved"}

handleTelemetry(p, outcome) ==
  /\ post[p].phase = "sent"
  /\ enqueueEvents(Batch(p, sent[p] + 1, post[p].upto), outcome)
  /\ post' = [post EXCEPT ![p].phase = IF outcome = "ok" THEN "ok" ELSE "refused"]
  /\ UNCHANGED <<alive, sent, latePosts, flight, answer, terminations, closed, logVars, exits>>

handleLate(l, outcome) ==
  /\ l \in latePosts
  /\ latePosts' = latePosts \ {l}
  /\ enqueueEvents(Batch(l[1], l[2], l[3]), outcome)
  /\ UNCHANGED <<alive, sent, post, flight, answer, terminations, closed, logVars, exits>>

(* The Peer's container is gone: its exit marker is queued in any case.    *)
queueTermination(p, outcome) ==
  /\ alive[p]
  /\ alive' = [alive EXCEPT ![p] = FALSE]
  /\ post' = [post EXCEPT ![p] = NoPost]
  /\ latePosts' = IF post[p].phase = "sent"
                  THEN latePosts \cup {<<p, sent[p] + 1, post[p].upto>>} ELSE latePosts
  /\ terminations' = Append(terminations, Marker(p))
  /\ exits' = exits \cup {p}
  /\ CASE outcome = "ok" ->
            /\ segments' = Append(segments, Segment(<<Marker(p)>>, TRUE))
            /\ accepted' = accepted \cup {Marker(p)}
            /\ UNCHANGED <<spoolError, faults>>
       [] outcome \in {"unsaved", "saved"} ->
            /\ Fault
            /\ spoolError' = TRUE
            /\ segments' = IF outcome = "saved"
                           THEN Append(segments, Segment(<<Marker(p)>>, FALSE)) ELSE segments
            /\ UNCHANGED accepted
  /\ UNCHANGED <<sent, events, flight, answer, closed, logVars>>

(* Agent: forwarding.                                                      *)

(* Mutant: nothing is forwarded once telemetry is closed.                  *)
FlushReadyUntilClosed == answer = "none" /\ ~closed

(* A single request in flight.                                             *)
FlushReady == answer = "none"

(* flushEvents takes the longest prefix of the queue a request may hold;   *)
(* the markers join the queue first.                                       *)
flushEvents ==
  LET room == IF Len(events) >= Limit THEN 0 ELSE Limit - Len(events)
      admitted == IF Len(terminations) <= room THEN Len(terminations) ELSE room
      queue == events \o Take(terminations, admitted)
      count == IF Len(queue) <= MaxBatch THEN Len(queue) ELSE MaxBatch
  IN
  /\ FlushReady
  /\ queue # <<>>
  /\ flight' = Take(queue, count)
  /\ events' = Drop(queue, count)
  /\ terminations' = Drop(terminations, admitted)
  /\ answer' = "sent"
  /\ batches' = batches \cup
       {[events |-> flight', todo |-> {Run(e) : e \in Range(flight')}, live |-> TRUE]}
  /\ UNCHANGED <<peerVars, spoolError, closed, segments, seen, log, repeatable, faults,
                 accepted, exits>>

(* The request times out; the Controller may still handle it.              *)
flushTimesOut ==
  /\ answer \in {"sent", "ok"}
  /\ Fault
  /\ answer' = "failed"
  /\ batches' = {[b EXCEPT !.live = FALSE] : b \in batches}
  /\ UNCHANGED <<peerVars, events, flight, terminations, spoolError, closed, segments, seen,
                 log, repeatable, accepted, exits>>

(* Mutant: the batch is queued again behind what has arrived since.        *)
RequeuedBehind == events \o flight

Requeued == flight \o events

flushFailed ==
  /\ answer = "failed"
  /\ events' = Requeued
  /\ flight' = <<>>
  /\ answer' = "none"
  /\ UNCHANGED <<peerVars, terminations, spoolError, closed, segments, logVars, faults,
                 accepted, exits>>

(* The Controller has the batch, and so has the spool.                     *)
acknowledge ==
  /\ answer = "ok"
  /\ \A s \in Acknowledged(flight) : InOrder(flight, s)
  /\ segments' = AfterAck(flight, Acknowledged(flight), {})
  /\ spoolError' = (spoolError /\ ~(events = <<>> /\ terminations = <<>>))
  /\ flight' = <<>>
  /\ answer' = "none"
  /\ UNCHANGED <<peerVars, events, terminations, closed, logVars, faults, accepted, exits>>

(* Some acknowledgments were written and the one of s failed: not written, *)
(* written without telling, or written and its finished segment not removed. *)
acknowledgeFails(done, s, outcome) ==
  LET finished == segments[s].ack + Cardinality(Selected(flight, s)) = Len(segments[s].events)
  IN
  /\ answer = "ok"
  /\ s \in Acknowledged(flight)
  /\ done \subseteq Acknowledged(flight) \ {s}
  /\ \A t \in done : InOrder(flight, t)
  /\ IF InOrder(flight, s) THEN Fault ELSE outcome = "unsaved" /\ UNCHANGED faults
  /\ outcome = "unremoved" => finished
  /\ segments' = CASE outcome = "unsaved"   -> AfterAck(flight, done, {})
                   [] outcome = "saved"     -> AfterAck(flight, done, {s})
                   [] outcome = "unremoved" -> AfterAck(flight, done \cup {s}, {})
  /\ events' = Requeued
  /\ flight' = <<>>
  /\ answer' = "none"
  /\ UNCHANGED <<peerVars, terminations, spoolError, closed, logVars, accepted, exits>>

(* Shutdown: no request is acknowledged after the final drain begins.      *)
closeTelemetry ==
  /\ ~closed
  /\ closed' = TRUE
  /\ UNCHANGED <<peerVars, events, flight, answer, terminations, spoolError, segments,
                 logVars, faults, accepted, exits>>

(* openTelemetrySpool: the segments the disk holds beyond what was saved   *)
(* as acknowledged; the file names give their order.                       *)
Replay == Kept(segments, {s \in DOMAIN segments : segments[s].saved < Len(segments[s].events)})

Tails(segs) ==
  LET tail[n \in 0 .. Len(segs)] ==
        IF n = 0 THEN <<>> ELSE tail[n - 1] \o Drop(segs[n].events, segs[n].saved)
  IN tail[Len(segs)]

(* The Agent dies and starts again; its startup removes all Peers.         *)
agentRestarts ==
  /\ Fault
  /\ segments' = [s \in DOMAIN Replay |->
       [Replay[s] EXCEPT !.ack = Replay[s].saved, !.tracked = TRUE]]
  /\ events' = Tails(Replay)
  /\ flight' = <<>> /\ answer' = "none" /\ terminations' = <<>>
  /\ spoolError' = FALSE /\ closed' = FALSE
  /\ batches' = {[b EXCEPT !.live = FALSE] : b \in batches}
  /\ alive' = [p \in Peers |-> FALSE]
  /\ exits' = {}
  /\ post' = [p \in Peers |-> NoPost]
  /\ latePosts' = {}
  /\ UNCHANGED <<sent, seen, log, repeatable, accepted>>

-----------------------------------------------------------------------------
(* Controller.                                                             *)

(* The first occurrences in the batch of the run's unseen events.          *)
Fresh(batch, r) ==
  Kept(batch, {i \in DOMAIN batch : /\ Run(batch[i]) = r /\ batch[i] \notin seen
                                    /\ \A j \in 1 .. i - 1 : batch[j] # batch[i]})

Answered(b, result) ==
  answer' = IF b.live /\ answer = "sent" THEN result ELSE answer

(* appendRunEvents for one run of a batch; the last one answers it.        *)
appendRunEvents(b, r) ==
  LET rest == [b EXCEPT !.todo = @ \ {r}] IN
  /\ b \in batches
  /\ r \in b.todo
  /\ log' = [log EXCEPT ![r] = @ \o Fresh(b.events, r)]
  /\ seen' = seen \cup Range(Fresh(b.events, r))
  /\ batches' = (batches \ {b}) \cup (IF rest.todo = {} THEN {} ELSE {rest})
  /\ IF rest.todo = {} THEN Answered(b, "ok") ELSE UNCHANGED answer
  /\ UNCHANGED <<peerVars, events, flight, terminations, spoolError, closed, segments,
                 faults, accepted, repeatable, exits>>

(* The write fails, with or without a trace; the batch ends with an error. *)
appendFails(b, r, written) ==
  /\ b \in batches
  /\ r \in b.todo
  /\ Fault
  /\ log' = IF written THEN [log EXCEPT ![r] = @ \o Fresh(b.events, r)] ELSE log
  /\ repeatable' = (repeatable \/ written)
  /\ batches' = batches \ {b}
  /\ Answered(b, "failed")
  /\ UNCHANGED <<peerVars, events, flight, terminations, spoolError, closed, segments, seen,
                 accepted, exits>>

(* The Controller restarts with its logs and without its memory.           *)
controllerRestarts ==
  /\ Fault
  /\ batches' = {}
  /\ seen' = {}
  /\ repeatable' = TRUE
  /\ answer' = IF answer = "sent" THEN "failed" ELSE answer
  /\ UNCHANGED <<peerVars, events, flight, terminations, spoolError, closed, segments, log,
                 accepted, exits>>

-----------------------------------------------------------------------------
PeerStep(p) ==
  \/ \E upto \in 1 .. MaxEvents : flush(p, upto)
  \/ postAnswered(p)
  \/ postTimesOut(p)
  \/ \E outcome \in Outcomes : handleTelemetry(p, outcome)
  \/ \E outcome \in Outcomes \ {"full"} : queueTermination(p, outcome)

AgentStep ==
  \/ flushEvents
  \/ flushFailed
  \/ acknowledge

ControllerStep == \E b \in batches : \E r \in b.todo : appendRunEvents(b, r)

AgentFault ==
  \/ \E l \in latePosts, outcome \in Outcomes : handleLate(l, outcome)
  \/ flushTimesOut
  \/ /\ answer = "ok"
     /\ \E s \in Acknowledged(flight), outcome \in {"unsaved", "saved", "unremoved"} :
          \E done \in SUBSET (Acknowledged(flight) \ {s}) : acknowledgeFails(done, s, outcome)
  \/ closeTelemetry
  \/ agentRestarts

ControllerFault ==
  \/ \E b \in batches : \E r \in b.todo, written \in BOOLEAN : appendFails(b, r, written)
  \/ controllerRestarts

Next ==
  \/ \E p \in Peers : PeerStep(p)
  \/ AgentStep
  \/ ControllerStep
  \/ AgentFault
  \/ ControllerFault

Spec == Init /\ [][Next]_vars

(* The flush loop ticks and the Controller handles what it is sent.        *)
Fairness == WF_vars(AgentStep) /\ WF_vars(ControllerStep)

FairSpec == Spec /\ Fairness

-----------------------------------------------------------------------------
(* The values every variable may have.                                     *)
TypeOK ==
  /\ alive \in [Peers -> BOOLEAN]
  /\ sent \in [Peers -> 0 .. MaxEvents]
  /\ post \in [Peers -> [phase : {"none", "sent", "ok", "refused"}, upto : 0 .. MaxEvents]]
  /\ latePosts \subseteq Peers \X (1 .. MaxEvents) \X (1 .. MaxEvents)
  /\ events \in Seq(Events) /\ flight \in Seq(Events) /\ terminations \in Seq(Events)
  /\ answer \in {"none", "sent", "ok", "failed"}
  /\ spoolError \in BOOLEAN /\ closed \in BOOLEAN /\ repeatable \in BOOLEAN
  /\ segments \in Seq([events : Seq(Events), ack : Nat, saved : Nat, tracked : BOOLEAN])
  /\ \A b \in batches : b.events \in Seq(Events) /\ b.todo \subseteq Runs /\ b.live \in BOOLEAN
  /\ seen \subseteq Events
  /\ log \in [Runs -> Seq(Events)]
  /\ faults \in 0 .. MaxFaults
  /\ accepted \subseteq Events /\ exits \subseteq Peers

Logged(e) == e \in Range(log[Run(e)])

(* No event the Agent has acknowledged, and no exit marker it has spooled, *)
(* is ever without a durable copy: it is in the log of its run or in an    *)
(* unacknowledged part of a segment, at every point a crash may hit.       *)
AcceptedEventsAreDurable ==
  \A e \in accepted : Logged(e) \/
    \E s \in DOMAIN segments : \E i \in DOMAIN segments[s].events :
      i > segments[s].saved /\ segments[s].events[i] = e

(* Mutant: the batch being sent is not looked at.                          *)
DrainedBeside(r) ==
  /\ \A e \in Range(events) \cup Range(terminations) : Run(e) # r
  /\ ~spoolError

(* drainRunEvents: nothing of the run is queued, in flight or waiting, and *)
(* the spool reports no error.                                             *)
Drained(r) ==
  /\ \A e \in Range(events) \cup Range(flight) \cup Range(terminations) : Run(e) # r
  /\ ~spoolError

(* A successful drain means that the run's log is complete: it has every   *)
(* event the Agent acknowledged and the marker of every Peer it removed.   *)
DrainedRunsAreLogged ==
  \A r \in Runs : Drained(r) =>
    \A e \in accepted \cup {Marker(p) : p \in exits} : Run(e) = r => Logged(e)

(* Retries stay ahead of later events: the log of a run has the events of  *)
(* a Peer in source order and without gaps, repetitions aside.             *)
LogsAreInSourceOrder ==
  \A r \in Runs : \A i \in DOMAIN log[r] : log[r][i][2] > 1 =>
    \E j \in 1 .. i - 1 : log[r][j] = <<log[r][i][1], log[r][i][2] - 1>>

(* However often a batch is sent again, an event is logged once unless the *)
(* Controller lost its memory or a write reached the disk and failed.      *)
EventsAreLoggedOnce ==
  ~repeatable => \A r \in Runs : \A i, j \in DOMAIN log[r] : log[r][i] = log[r][j] => i = j

(* What a run's log shows of a Peer is what the Peer emitted.              *)
LogsAreInOrderOnce == LogsAreInSourceOrder /\ EventsAreLoggedOnce

(* The spool never refuses the acknowledgment of a batch the Controller    *)
(* took.  A refused batch is sent again, and when the queue is longer than *)
(* a request may be it is cut and refused in the same way for ever.        *)
AcknowledgmentsAreInOrder ==
  answer = "ok" => \A s \in Acknowledged(flight) : InOrder(flight, s)

(* What the Agent has acknowledged is eventually logged.  Neither accepted *)
(* nor a log ever shrinks, so this says that the logs catch up with the    *)
(* acknowledgments again and again.                                        *)
AcceptedEventsAreLogged == []<>(\A e \in accepted : Logged(e))
=============================================================================
