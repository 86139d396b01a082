--------------------------- MODULE DeliveryWindow ---------------------------
(***************************************************************************)
(* Whether a message reached a receiver within its delivery window: the    *)
(* measured session of one receiving Peer (internal/peer, telemetry.go)    *)
(* and what the Controller concludes from the events that have arrived     *)
(* (internal/controller, run_metrics_window.go).                           *)
(*                                                                         *)
(* One message is published, once, by another Peer.  Events get their      *)
(* sequence number and their time together, may be dropped by a full       *)
(* queue, are lost when the Peer dies, and arrive in any order.  Time is   *)
(* true time; the clock of the Peer is off by an error of at most          *)
(* Uncertainty while it is synchronized and not more afterwards, the       *)
(* clocks of the publisher and of the Agent are exact.  True time passes   *)
(* between two observations of a session.  A summary that runs before the  *)
(* event of the publication arrives does not count it at all, so that it   *)
(* arrives at once here.                                                   *)
(***************************************************************************)
EXTENDS Integers, Sequences, FiniteSets, FiniteSetsExt, SequencesExt

CONSTANTS
  Window,       \* deliveryWindow of the message
  Uncertainty,  \* of a synchronized clock
  QueueSize,    \* events a Peer queues
  MaxTime,      \* bound: true time
  MaxSequence,  \* bound: events of the session
  MaxSyncs      \* bound: estimates of the clock that take effect

ASSUME WindowBounds ==
  /\ Window \in Nat \ {0} /\ Uncertainty \in Nat /\ QueueSize \in Nat \ {0}
  /\ MaxTime \in Nat \ {0} /\ MaxSequence \in Nat /\ MaxSyncs \in Nat

VARIABLES
  now,
  clock,    \* the error of the Peer's clock, and whether it is synchronized
  peer,     \* the telemetry of the receiver
  message,  \* the publication: when
  transit,  \* events on their way
  arrived,  \* events the Controller has observed
  ranges,   \* their sequence numbers, as the Controller keeps them
  truth     \* history: when the session began and ended, and the delivery

vars == <<now, clock, peer, message, transit, arrived, ranges, truth>>

None == 0

NoDelivery == [latency |-> 0, bounded |-> FALSE]

Init ==
  /\ now = 1
  /\ \E error \in -Uncertainty .. Uncertainty :
       clock = [error |-> error, synced |-> FALSE, syncs |-> 0]
  /\ peer = [state |-> "new", sealed |-> FALSE, sequence |-> 0, observedAt |-> 0,
             dropped |-> 0, queue |-> <<>>]
  /\ message = [at |-> None]
  /\ transit = {} /\ arrived = {} /\ ranges = {}
  /\ truth = [start |-> None, end |-> None, got |-> None, bounded |-> FALSE]

Deadline == message.at + Window

-----------------------------------------------------------------------------
(* The receiver.                                                           *)

(* The last slots are kept for the drop notice, the stop and the counters. *)
queueLimit(priority) ==
  IF ~priority /\ QueueSize >= 4 THEN QueueSize - 3 ELSE QueueSize

Event(type, sequence, at, delivery) ==
  [type |-> type, sequence |-> sequence, at |-> at,
   latency |-> delivery.latency, bounded |-> delivery.bounded]

(* A dropped event has used its sequence number.                           *)
Enqueued(p, event, priority) ==
  LET next == [p EXCEPT !.sequence = @ + 1]
  IN IF p.sealed \/ Len(p.queue) >= queueLimit(priority)
     THEN [next EXCEPT !.dropped = @ + 1]
     ELSE [next EXCEPT !.queue = Append(@, event)]

(* The notice itself is queued when there is room, after the seal too.     *)
reportDrops(p, priority) ==
  IF p.dropped = 0 \/ Len(p.queue) >= queueLimit(priority) THEN p
  ELSE [p EXCEPT !.dropped = 0, !.sequence = @ + 1,
                 !.queue = Append(@, Event("drop", p.sequence + 1, now, NoDelivery))]

(* Readings increase, whatever a synchronization does to the clock.        *)
observationClock ==
  LET reading == now' + clock.error
  IN IF reading > peer.observedAt THEN reading ELSE peer.observedAt + 1

(* The reading, the number and the place in the queue are one critical     *)
(* section.                                                                *)
Observes(type, state, delivery, priority) ==
  /\ now < MaxTime /\ now' = now + 1
  /\ peer.sequence < MaxSequence
  /\ LET p == IF peer.sealed THEN peer ELSE reportDrops(peer, priority)
     IN peer' = [Enqueued(p, Event(type, p.sequence + 1, observationClock, delivery), priority)
                   EXCEPT !.state = state, !.observedAt = observationClock]
  /\ UNCHANGED <<clock, message, transit, arrived, ranges>>

startMeasurement ==
  /\ peer.state = "new"
  /\ Observes("start", "measuring", NoDelivery, FALSE)
  /\ truth' = [truth EXCEPT !.start = now']

checkpoint ==
  /\ peer.state = "measuring"
  /\ Observes("checkpoint", "measuring", NoDelivery, FALSE)
  /\ UNCHANGED truth

(* The last boundary of the session; it may use the reserved slots.        *)
stopMeasurement ==
  /\ peer.state = "measuring"
  /\ Observes("stop", "stopped", NoDelivery, TRUE)
  /\ truth' = [truth EXCEPT !.end = now']

(* Consumers run from the start until PubSub is closed, after the stop;    *)
(* one may still hold a message when the queue is sealed.                  *)
Consumes == peer.state \in {"measuring", "stopped"} /\ message.at # None

deliveryEvent == [latency |-> observationClock - message.at, bounded |-> clock.synced]

deliver ==
  /\ Consumes /\ truth.got = None
  /\ Observes("deliver", peer.state, deliveryEvent, FALSE)
  /\ truth' = [truth EXCEPT !.got = now', !.bounded = clock.synced]

duplicate ==
  /\ Consumes /\ truth.got # None
  /\ Observes("duplicate", peer.state, NoDelivery, FALSE)
  /\ UNCHANGED truth

(* The end of the process: the queue is sealed and drained, if there is    *)
(* time.                                                                   *)
seal ==
  /\ peer.state = "stopped" /\ ~peer.sealed
  /\ peer' = [peer EXCEPT !.sealed = TRUE]
  /\ UNCHANGED <<now, clock, message, transit, arrived, ranges, truth>>

(* One turn of the sender: the notice of drops, then an event is sent.     *)
flush ==
  /\ peer.state # "gone"
  /\ LET p == reportDrops(peer, peer.sealed)
     IN /\ p.queue # <<>>
        /\ transit' = transit \cup {Head(p.queue)}
        /\ peer' = [p EXCEPT !.queue = Tail(@)]
  /\ UNCHANGED <<now, clock, message, arrived, ranges, truth>>

(* Killed, or out of time to drain; what is queued is lost.                *)
exits ==
  /\ peer.state # "gone"
  /\ peer' = [peer EXCEPT !.state = "gone", !.queue = <<>>]
  /\ truth' = IF truth.end = None THEN [truth EXCEPT !.end = now] ELSE truth
  /\ UNCHANGED <<now, clock, message, transit, arrived, ranges>>

(* The Agent confirms that the Peer is gone.                               *)
queueTermination ==
  /\ peer.state = "gone"
  /\ \A e \in transit \cup arrived : e.type # "terminated"
  /\ transit' = transit \cup {Event("terminated", 0, now, NoDelivery)}
  /\ UNCHANGED <<now, clock, peer, message, arrived, ranges, truth>>

synchronize ==
  /\ peer.state # "gone" /\ clock.syncs < MaxSyncs
  /\ \E error \in -Uncertainty .. Uncertainty :
       clock' = [error |-> error, synced |-> TRUE, syncs |-> clock.syncs + 1]
  /\ UNCHANGED <<now, peer, message, transit, arrived, ranges, truth>>

(* A sample of the clock too old is no longer vouched for.                 *)
expires ==
  /\ peer.state # "gone" /\ clock.synced
  /\ clock' = [clock EXCEPT !.synced = FALSE]
  /\ UNCHANGED <<now, peer, message, transit, arrived, ranges, truth>>

publish ==
  /\ message.at = None
  /\ message' = [message EXCEPT !.at = now]
  /\ UNCHANGED <<now, clock, peer, transit, arrived, ranges, truth>>

Tick ==
  /\ now < MaxTime /\ now' = now + 1
  /\ UNCHANGED <<clock, peer, message, transit, arrived, ranges, truth>>

-----------------------------------------------------------------------------
(* The Controller: sequence numbers as maximal ranges.  The code keeps the *)
(* ranges in order, which their numbers tell.                              *)

(* One range over n and the given ranges.                                  *)
Spanning(n, touching) ==
  [first |-> Min({n} \cup {r.first : r \in touching}),
   last  |-> Max({n} \cup {r.last : r \in touching})]

(* Mutant: ranges a number apart are taken for adjacent.                   *)
addLoosely(s, n) ==
  IF n = 0 THEN s
  ELSE LET touching == {r \in s : r.first <= n + 2 /\ n <= r.last + 1}
       IN (s \ touching) \cup {Spanning(n, touching)}

(* The ranges that n touches become one.                                   *)
add(s, n) ==
  IF n = 0 THEN s
  ELSE LET touching == {r \in s : r.first <= n + 1 /\ n <= r.last + 1}
       IN (s \ touching) \cup {Spanning(n, touching)}

(* The last number of the range that holds n.                              *)
Holding(s, n) == {r \in s : r.first <= n /\ n <= r.last}
through(s, n) == IF Holding(s, n) = {} THEN 0 ELSE (CHOOSE r \in Holding(s, n) : TRUE).last

(* The ranges also tell which events have been seen: a batch may be sent   *)
(* again.                                                                  *)
hasEvent(e) == e.sequence # 0 /\ through(ranges, e.sequence) # 0

observe ==
  \E e \in transit :
    /\ transit' = transit \ {e}
    /\ arrived' = IF hasEvent(e) THEN arrived ELSE arrived \cup {e}
    /\ ranges' = add(ranges, e.sequence)
    /\ UNCHANGED <<now, clock, peer, message, truth>>

Of(types) == {e \in arrived : e.type \in types}
session ==
  [starts |-> Of({"start"}), proofs |-> Of({"checkpoint", "stop"}), stops |-> Of({"stop"}),
   ends |-> Of({"terminated"}), deliveries |-> Of({"deliver"})]
start == CHOOSE e \in session.starts : TRUE
stop  == CHOOSE e \in session.stops : TRUE

Latest(proofs) == IF proofs = {} THEN 0 ELSE Max({p.at : p \in proofs})

(* Nothing of the session lies before its start or after its stop.         *)
knownSession ==
  /\ session.starts # {}
  /\ \A p \in session.proofs : p.sequence >= start.sequence /\ p.at >= start.at
  /\ session.stops # {} =>
       \A p \in session.proofs : p.sequence <= stop.sequence /\ p.at <= stop.at

(* Mutant: a later checkpoint completes what has not arrived.              *)
provedAnyway(proofs) == proofs

(* The proofs before which no event is missing.                            *)
proved(proofs) == {p \in proofs : p.sequence <= through(ranges, start.sequence)}

aliveThrough  == Latest(session.proofs)
completeUntil == Latest(proved(session.proofs))

(* Ended by its stop, or by a confirmed removal that is earlier.           *)
terminations == {e \in session.ends : e.at >= start.at}
ended == session.stops \cup terminations # {}
end   == Min({e.at : e \in session.stops \cup terminations})
stopComplete ==
  /\ session.stops # {} /\ stop \in proved(session.stops)
  /\ \A e \in terminations : e.at >= stop.at

evaluated == knownSession /\ (ended => aliveThrough <= end)

-----------------------------------------------------------------------------
(* The receipts of the message in the session.                             *)

Misplaced(d) ==
  \/ ~d.bounded /\ d.at < message.at
  \/ d.at < start.at \/ d.sequence < start.sequence
  \/ ended /\ d.at > end
  \/ session.stops # {} /\ (d.at > stop.at \/ d.sequence > stop.sequence)

upper(d) == d.latency + Uncertainty
lower(d) == d.latency - Uncertainty

(* A synchronized clock answers for its uncertainty.                       *)
invalidReceipt(d) ==
  \/ Misplaced(d)
  \/ d.bounded /\ (upper(d) < 0 \/ (upper(d) > Window /\ lower(d) <= Window))
  \/ ~d.bounded /\ d.latency < 0
lateReceipt(d) ==
  /\ ~invalidReceipt(d)
  /\ IF d.bounded THEN lower(d) > Window ELSE d.at > Deadline

onTime  == \E d \in session.deliveries : ~invalidReceipt(d) /\ ~lateReceipt(d)
invalid == \E d \in session.deliveries : invalidReceipt(d)

(* The session was open when the message was published.                    *)
active == start.at <= message.at /\ (ended => end > message.at)
departed == ended /\ end < Deadline

(* What a summary at this moment says of the pair.                         *)
stableVerdict ==
  IF message.at = None \/ now < Deadline THEN "pending"
  ELSE IF ~evaluated THEN "incomplete"
  ELSE IF ~active THEN "none"
  ELSE IF aliveThrough < message.at THEN "availability-unknown"
  ELSE IF departed THEN "departed"
  ELSE IF aliveThrough < Deadline THEN "continuity-unknown"
  ELSE IF onTime THEN "on-time"
  ELSE IF invalid \/ completeUntil < Deadline THEN "unknown" ELSE "missed"

(* And of the initial cohort, which counts departed receivers too.         *)
initialVerdict ==
  IF stableVerdict \in {"pending", "incomplete", "none", "availability-unknown"} THEN "none"
  ELSE IF onTime THEN "eligible"
  ELSE IF \/ invalid
          \/ departed /\ ~stopComplete
          \/ ~departed /\ completeUntil < Deadline
       THEN "unknown" ELSE "missed"

Next ==
  \/ startMeasurement \/ checkpoint \/ stopMeasurement \/ deliver \/ duplicate
  \/ seal \/ flush \/ exits \/ queueTermination \/ synchronize \/ expires
  \/ publish \/ observe \/ Tick

Spec == Init /\ [][Next]_vars

-----------------------------------------------------------------------------
(* Properties.                                                             *)

TypeOK ==
  /\ now \in 1 .. MaxTime
  /\ clock \in [error : -Uncertainty .. Uncertainty, synced : BOOLEAN, syncs : 0 .. MaxSyncs]
  /\ message \in [at : 0 .. MaxTime]
  /\ peer.state \in {"new", "measuring", "stopped", "gone"} /\ Len(peer.queue) <= QueueSize

(* What a summary counts is what happened, whatever was dropped, lost or    *)
(* is still on its way (run_metrics_window.go:396-424): a missed message   *)
(* did not reach a receiver that had started before it and lived through   *)
(* the window, an on-time one did within the window, and a departed        *)
(* receiver had ended.  Exact for synchronized clocks, up to their          *)
(* uncertainty where the measurement cannot do better.                     *)
WithinWindow(slack) == truth.got # None /\ truth.got <= Deadline + slack
WithinSession == truth.end = None \/ truth.got <= truth.end
VerdictsAreTrue ==
  LET stable == stableVerdict  initial == initialVerdict
  IN /\ "missed" \in {stable, initial} => ~(WithinWindow(-Uncertainty) /\ WithinSession)
     /\ stable = "missed" =>
          /\ truth.start <= message.at + Uncertainty
          /\ truth.end = None \/ truth.end >= Deadline - Uncertainty
     /\ (stable = "on-time" \/ initial = "eligible") =>
          WithinWindow(IF truth.bounded THEN 0 ELSE Uncertainty)
     /\ stable = "departed" => truth.end # None /\ truth.end <= Deadline + Uncertainty

Kept(verdict, allowed) == stableVerdict = verdict => stableVerdict' \in {verdict} \cup allowed

(* Once given, a verdict is not reversed by events that arrive later, in    *)
(* any order (run_metrics_window.go:355, FinalizedPublications): at most it *)
(* is withdrawn, when the log contradicts itself or the late receipt       *)
(* cannot be placed.                                                       *)
VerdictsAreFinal ==
  [][/\ Kept("on-time", {"incomplete"}) /\ Kept("departed", {"incomplete"})
     /\ Kept("missed", {"unknown", "incomplete"})]_vars
=============================================================================
