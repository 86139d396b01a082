------------------------ MODULE DeliveryWindowProofs ------------------------
(***************************************************************************)
(* Proofs about DeliveryWindow: what a summary says of a message is true   *)
(* of what happened, for every window, uncertainty of the clock, size of   *)
(* the queue and bound, and later events reverse no verdict.               *)
(***************************************************************************)
EXTENDS DeliveryWindow, WellFoundedInduction, TLAPS

-----------------------------------------------------------------------------
(* The inductive invariant, in its parts.                                  *)

Observed  == {"start", "checkpoint", "stop", "deliver", "duplicate"}
EventType == [type : Observed \cup {"drop", "terminated"}, sequence : Nat, at : Nat,
              latency : Int, bounded : BOOLEAN]
PeerState == {"new", "measuring", "stopped", "gone"}
PeerType  == [state : PeerState, sealed : BOOLEAN,
              sequence : Nat, observedAt : Nat, dropped : Nat, queue : Seq(EventType)]
TruthType == [start : 0 .. MaxTime, end : 0 .. MaxTime, got : 0 .. MaxTime, bounded : BOOLEAN]
RangeType == [first : Nat, last : Nat]
ReceiptType == [latency : Int, bounded : BOOLEAN]

(* Everything that was sent or waits to be.                                *)
Events == ToSet(peer.queue) \cup transit \cup arrived

TypeInv ==
  /\ TypeOK
  /\ peer \in PeerType /\ truth \in TruthType
  /\ transit \subseteq EventType /\ arrived \subseteq EventType /\ ranges \subseteq RangeType

(* Nothing is later than now, up to the error of a clock, and the session  *)
(* has the boundaries its state tells.                                     *)
ClockInv ==
  /\ message.at <= now /\ peer.observedAt <= now + Uncertainty
  /\ truth.end <= now /\ truth.got <= now
  /\ peer.state = "new" =>
       /\ Events = {} /\ peer.dropped = 0
       /\ truth.start = None /\ truth.got = None
  /\ truth.end = None <=> peer.state \in {"new", "measuring"}
  /\ peer.state = "gone" => peer.queue = <<>>
(* An event of the Peer has a number of its own, and its observations have *)
(* times in the order of their numbers.                                    *)
OrderInv ==
  /\ \A e \in Events :
       /\ e.type # "terminated" => e.sequence \in 1 .. peer.sequence
       /\ e.type \in Observed => e.at \in 1 .. peer.observedAt
  /\ \A e, f \in Events :
       /\ e.type # "terminated" /\ f.type # "terminated" /\ e.sequence = f.sequence => e = f
       /\ e.type \in Observed /\ f.type \in Observed /\ e.sequence < f.sequence => e.at < f.at
       /\ e.type = f.type /\ e.type \in {"start", "stop", "terminated"} => e = f
       /\ e.type = "start" /\ f.type \in Observed => e.sequence <= f.sequence

(* The boundaries of the session as events tell them, and as they were.    *)
BoundaryInv ==
  \A e \in Events :
    /\ e.type = "start" => truth.start # None /\ truth.start <= e.at + Uncertainty
    /\ e.type \in {"checkpoint", "stop"} => truth.end = None \/ e.at <= truth.end + Uncertainty
    /\ e.type = "stop" => truth.end # None /\ truth.end <= e.at + Uncertainty
    /\ e.type = "terminated" =>
         e.sequence = 0 /\ peer.state = "gone" /\ truth.end <= e.at /\ e.at <= now

(* The event of the delivery, sent or dropped: d is the only one with its  *)
(* number, observed within the error of the clock of when the message came.*)
Delivery(d) ==
  /\ d.sequence <= peer.sequence /\ d.at <= peer.observedAt
  /\ d.at <= truth.got + Uncertainty /\ truth.got <= d.at + Uncertainty
  /\ \A e \in Events :
       /\ e.type = "deliver" => e = d
       /\ e.type # "terminated" /\ e.sequence = d.sequence => e = d
       /\ e.type \in Observed /\ e.sequence < d.sequence => e.at < d.at
       /\ e.type \in Observed /\ d.sequence < e.sequence => d.at < e.at
       /\ e.type = "start" => e.sequence < d.sequence
       /\ e.type = "stop" /\ e.sequence < d.sequence => truth.end < truth.got

DeliveryInv ==
  /\ truth.got = None => \A e \in Events : e.type # "deliver"
  /\ truth.got # None =>
       /\ message.at # None
       /\ \E n \in 1 .. peer.sequence, at \in 1 .. peer.observedAt :
            Delivery(Event("deliver", n, at,
                           [latency |-> at - message.at, bounded |-> truth.bounded]))

(* A number in a range is that of an event that has arrived.               *)
RangeInv ==
  \A r \in ranges :
    /\ 1 <= r.first /\ r.first <= r.last /\ r.last <= peer.sequence
    /\ \A n \in r.first .. r.last : \E e \in arrived : e.sequence = n

IInv == TypeInv /\ ClockInv /\ OrderInv /\ BoundaryInv /\ DeliveryInv /\ RangeInv

-----------------------------------------------------------------------------
(* Numbers and queues.                                                     *)

(* A set of natural numbers has a least element.                           *)
LEMMA LeastNumber ==
  ASSUME NEW S \in SUBSET Nat, S # {}
  PROVE  \E n \in S : \A m \in S : n <= m
<1> DEFINE R == {ss \in Nat \X Nat : ss[1] < ss[2]}
<1>1. IsWellFoundedOn(R, Nat)
  BY NatLessThanWellFounded DEF OpToRel
<1>2. PICK n \in S : \A m \in S : <<m, n>> \notin R
  BY <1>1, WFMin
<1>3. \A m \in S : ~(m < n)
  <2> SUFFICES ASSUME NEW m \in S, m < n PROVE FALSE
    OBVIOUS
  <2>1. <<m, n>> \in Nat \X Nat /\ <<m, n>>[1] < <<m, n>>[2]
    OBVIOUS
  <2> QED
    BY <1>2, <2>1
<1> QED
  BY <1>3

(* The minimum of a set of times.                                          *)
LEMMA MinTime ==
  ASSUME NEW S \in SUBSET Nat, S # {}
  PROVE  Min(S) \in S /\ \A m \in S : Min(S) <= m
BY LeastNumber DEF Min

(* The maximum of a set of numbers that has a bound.                       *)
LEMMA MaxNumber ==
  ASSUME NEW S \in SUBSET Nat, S # {}, NEW b \in Nat, \A m \in S : m <= b
  PROVE  Max(S) \in S /\ \A m \in S : m <= Max(S)
<1> DEFINE D == {b - m : m \in S}
<1>1. D \in SUBSET Nat /\ D # {}
  OBVIOUS
<1> HIDE DEF D
<1>2. PICK d \in D : \A c \in D : d <= c
  BY <1>1, LeastNumber
<1>3. PICK n \in S : d = b - n
  BY DEF D
<1>4. \A m \in S : m <= n
  <2> SUFFICES ASSUME NEW m \in S PROVE m <= n
    OBVIOUS
  <2>1. b - m \in D
    BY DEF D
  <2> QED
    BY <1>2, <1>3, <2>1
<1>5. \E x \in S : \A y \in S : x >= y
  BY <1>4
<1>6. Max(S) \in S /\ \A y \in S : Max(S) >= y
  BY <1>5 DEF Max
<1> QED
  BY <1>6

(* What a queue holds after an event was added or taken.                   *)
LEMMA QueueAppend ==
  ASSUME NEW q \in Seq(EventType), NEW e \in EventType
  PROVE  /\ Append(q, e) \in Seq(EventType) /\ Len(Append(q, e)) = Len(q) + 1
         /\ ToSet(Append(q, e)) = ToSet(q) \cup {e}
<1>1. /\ Append(q, e) \in Seq(EventType) /\ Len(Append(q, e)) = Len(q) + 1
      /\ DOMAIN Append(q, e) = 1 .. Len(q) + 1 /\ DOMAIN q = 1 .. Len(q) /\ Len(q) \in Nat
  OBVIOUS
<1>2. Append(q, e)[Len(q) + 1] = e /\ \A i \in 1 .. Len(q) : Append(q, e)[i] = q[i]
  OBVIOUS
<1>3. 1 .. Len(q) + 1 = (1 .. Len(q)) \cup {Len(q) + 1}
  BY <1>1
<1> QED
  BY <1>1, <1>2, <1>3 DEF ToSet

LEMMA QueueTail ==
  ASSUME NEW q \in Seq(EventType), q # <<>>
  PROVE  /\ Head(q) \in ToSet(q) /\ Tail(q) \in Seq(EventType) /\ Len(Tail(q)) <= Len(q)
         /\ ToSet(Tail(q)) \subseteq ToSet(q)
<1>1. /\ Len(q) \in Nat \ {0} /\ DOMAIN q = 1 .. Len(q) /\ Head(q) = q[1]
      /\ Tail(q) \in Seq(EventType) /\ Len(Tail(q)) = Len(q) - 1
      /\ \A i \in 1 .. Len(q) - 1 : Tail(q)[i] = q[i + 1]
  OBVIOUS
<1>2. DOMAIN Tail(q) = 1 .. Len(q) - 1
  BY <1>1
<1>3. 1 \in 1 .. Len(q) /\ \A i \in 1 .. Len(q) - 1 : i + 1 \in 1 .. Len(q)
  BY <1>1
<1> QED
  BY <1>1, <1>2, <1>3 DEF ToSet

LEMMA QueueMembers ==
  ASSUME NEW q \in Seq(EventType)
  PROVE  ToSet(q) \subseteq EventType
BY DEF ToSet

-----------------------------------------------------------------------------
(* The telemetry of the Peer.                                              *)

(* A queue is not longer than it may be.                                   *)
LEMMA LimitIsSize == \A priority \in BOOLEAN : queueLimit(priority) \in Nat /\ queueLimit(priority) <= QueueSize
BY WindowBounds DEF queueLimit

(* The notice of drops takes the next number.                              *)
Notices == {e \in EventType : e.type = "drop" /\ e.sequence = peer.sequence + 1}

LEMMA ReportFacts ==
  ASSUME TypeInv, NEW priority \in BOOLEAN, NEW p, p = reportDrops(peer, priority)
  PROVE  /\ p \in PeerType /\ Len(p.queue) <= QueueSize
         /\ p.state = peer.state /\ p.sealed = peer.sealed /\ p.observedAt = peer.observedAt
         /\ \/ p = peer
            \/ /\ p.sequence = peer.sequence + 1 /\ p.dropped = 0 /\ peer.dropped # 0
               /\ \E e \in Notices : ToSet(p.queue) = ToSet(peer.queue) \cup {e}
<1>1. /\ peer \in PeerType /\ peer.queue \in Seq(EventType) /\ peer.sequence \in Nat
      /\ Len(peer.queue) <= QueueSize /\ Len(peer.queue) \in Nat /\ now \in Nat
  BY DEF TypeInv, TypeOK, PeerType
<1>2. CASE p = peer
  BY <1>1, <1>2
<1>3. CASE p # peer
  <2> DEFINE e == Event("drop", peer.sequence + 1, now, NoDelivery)
  <2>1. /\ p = [peer EXCEPT !.dropped = 0, !.sequence = @ + 1, !.queue = Append(@, e)]
        /\ peer.dropped # 0 /\ ~(Len(peer.queue) >= queueLimit(priority))
    BY <1>3 DEF reportDrops
  <2>2. e \in Notices
    BY <1>1 DEF Event, NoDelivery, EventType, Notices
  <2> HIDE DEF e
  <2>3. e \in EventType
    BY <2>2 DEF Notices
  <2>4. /\ Append(peer.queue, e) \in Seq(EventType)
        /\ Len(Append(peer.queue, e)) = Len(peer.queue) + 1
        /\ ToSet(Append(peer.queue, e)) = ToSet(peer.queue) \cup {e}
    BY <1>1, <2>3, QueueAppend
  <2>5. Len(peer.queue) + 1 <= QueueSize
    BY <1>1, <2>1, LimitIsSize, WindowBounds
  <2>6. /\ p.queue = Append(peer.queue, e) /\ p.sequence = peer.sequence + 1 /\ p.dropped = 0
        /\ p.state = peer.state /\ p.sealed = peer.sealed /\ p.observedAt = peer.observedAt
    BY <1>1, <2>1 DEF PeerType
  <2>7. p \in PeerType
    <3>1. p = [peer EXCEPT !.dropped = 0, !.sequence = peer.sequence + 1,
                           !.queue = Append(peer.queue, e)]
      BY <2>1, Zenon
    <3>2. peer.sequence + 1 \in Nat /\ 0 \in Nat
      BY <1>1
    <3> QED
      BY <1>1, <2>4, <3>1, <3>2, ZenonT(30) DEF PeerType
  <2> QED
    BY <2>1, <2>2, <2>4, <2>5, <2>6, <2>7
<1> QED
  BY <1>2, <1>3

(* An event takes the next number, and its place if there is one.          *)
Holds(q, p, e) ==
  /\ q \in PeerType /\ Len(q.queue) <= QueueSize /\ q.sequence = p.sequence + 1
  /\ q.sealed = p.sealed
  /\ ToSet(q.queue) \subseteq ToSet(p.queue) \cup {e}

LEMMA EnqueuedFacts ==
  ASSUME NEW p \in PeerType, Len(p.queue) <= QueueSize, NEW e \in EventType,
         NEW priority \in BOOLEAN, NEW q, q = Enqueued(p, e, priority)
  PROVE  Holds(q, p, e)
<1>1. p.queue \in Seq(EventType) /\ Len(p.queue) \in Nat /\ p.sequence \in Nat /\ p.dropped \in Nat
  BY DEF PeerType
<1> DEFINE n == [p EXCEPT !.sequence = @ + 1]
<1>2. /\ n \in PeerType /\ n.sequence = p.sequence + 1 /\ n.queue = p.queue
      /\ n.sealed = p.sealed /\ n.dropped = p.dropped
  BY <1>1 DEF PeerType
<1>3. q = IF p.sealed \/ Len(p.queue) >= queueLimit(priority)
          THEN [n EXCEPT !.dropped = @ + 1] ELSE [n EXCEPT !.queue = Append(@, e)]
  BY DEF Enqueued
<1> HIDE DEF n
<1>4. CASE p.sealed \/ Len(p.queue) >= queueLimit(priority)
  <2>1. q = [n EXCEPT !.dropped = @ + 1]
    BY <1>3, <1>4
  <2>2. q \in PeerType /\ q.sequence = n.sequence /\ q.queue = n.queue /\ q.sealed = n.sealed
    BY <1>2, <2>1 DEF PeerType
  <2> QED
    BY <1>1, <1>2, <2>2 DEF Holds
<1>5. CASE ~(p.sealed \/ Len(p.queue) >= queueLimit(priority))
  <2>1. q = [n EXCEPT !.queue = Append(@, e)]
    BY <1>3, <1>5
  <2>2. /\ Append(p.queue, e) \in Seq(EventType) /\ Len(Append(p.queue, e)) = Len(p.queue) + 1
        /\ ToSet(Append(p.queue, e)) = ToSet(p.queue) \cup {e}
    BY <1>1, QueueAppend
  <2>3. /\ q \in PeerType /\ q.sequence = n.sequence /\ q.queue = Append(p.queue, e)
        /\ q.sealed = n.sealed
    BY <1>2, <2>1, <2>2 DEF PeerType
  <2>4. Len(p.queue) + 1 <= QueueSize
    BY <1>1, <1>5, LimitIsSize, WindowBounds
  <2> QED
    BY <1>1, <1>2, <2>2, <2>3, <2>4 DEF Holds
<1> QED
  BY <1>4, <1>5

(* The reading is after any earlier one, and within the error of the clock.*)
LEMMA ReadingFacts ==
  ASSUME TypeInv, ClockInv, now < MaxTime, now' = now + 1
  PROVE  /\ observationClock \in Nat
         /\ peer.observedAt < observationClock
         /\ observationClock <= now' + Uncertainty /\ now' <= observationClock + Uncertainty
<1>1. /\ now \in Nat /\ peer.observedAt \in Nat /\ Uncertainty \in Nat
      /\ clock.error \in Int /\ -Uncertainty <= clock.error /\ clock.error <= Uncertainty
      /\ peer.observedAt <= now + Uncertainty
  BY WindowBounds DEF TypeInv, TypeOK, ClockInv, PeerType
<1> QED
  BY <1>1 DEF observationClock

-----------------------------------------------------------------------------
(* What a step of the Peer adds to the events: at most one notice of drops *)
(* and one observation, in this order and after all there were.            *)
Grows(N, O) ==
  /\ N \subseteq EventType /\ O \subseteq EventType
  /\ Events' \subseteq Events \cup N \cup O
  /\ peer'.sequence \in Nat /\ peer'.observedAt \in Nat
  /\ peer.sequence <= peer'.sequence /\ peer.observedAt <= peer'.observedAt
  /\ \A x, y \in N : x = y
  /\ \A x, y \in O : x = y
  /\ \A x \in N : /\ x.type = "drop" /\ peer.sequence < x.sequence
                  /\ x.sequence <= peer'.sequence
  /\ \A y \in O : /\ y.type \in Observed
                  /\ peer.sequence < y.sequence /\ y.sequence <= peer'.sequence
                  /\ peer.observedAt < y.at /\ y.at <= peer'.observedAt
                  /\ \A x \in N : x.sequence < y.sequence

(* Nothing new: the Peer stays, and events only disappear.                 *)
LEMMA NothingNew ==
  ASSUME TypeInv, Events' \subseteq Events,
         peer'.sequence = peer.sequence, peer'.observedAt = peer.observedAt
  PROVE  Grows({}, {})
BY DEF Grows, TypeInv, PeerType

(* An observation: its event takes the next number and the reading.        *)
Observation(e, type, state) ==
  /\ peer' \in PeerType /\ Len(peer'.queue) <= QueueSize
  /\ peer'.state = state /\ peer'.sealed = peer.sealed
  /\ peer'.observedAt = observationClock
  /\ e \in EventType /\ e.type = type /\ e.sequence = peer'.sequence
  /\ e.at = peer'.observedAt
  /\ peer.sequence < peer'.sequence
  /\ \E N : Grows(N, {e})

LEMMA ObservationFacts ==
  ASSUME TypeInv, ClockInv, NEW type \in Observed, NEW state \in PeerState,
         NEW delivery \in ReceiptType, NEW priority \in BOOLEAN,
         Observes(type, state, delivery, priority),
         NEW e, e = Event(type, peer'.sequence, peer'.observedAt, delivery)
  PROVE  Observation(e, type, state)
<1>1. /\ peer \in PeerType /\ Len(peer.queue) <= QueueSize /\ peer.sequence \in Nat
      /\ transit \subseteq EventType /\ arrived \subseteq EventType
  BY DEF TypeInv, TypeOK, PeerType
<1>2. /\ now < MaxTime /\ now' = now + 1 /\ transit' = transit /\ arrived' = arrived
  BY DEF Observes
<1>3. /\ observationClock \in Nat /\ peer.observedAt < observationClock
      /\ peer.observedAt \in Nat
  BY <1>1, <1>2, ReadingFacts DEF PeerType
<1>4. PICK p : p = IF peer.sealed THEN peer ELSE reportDrops(peer, priority)
  OBVIOUS
<1>5. PICK f : f = Event(type, p.sequence + 1, observationClock, delivery)
  OBVIOUS
<1>6. PICK q : q = Enqueued(p, f, priority)
  OBVIOUS
<1>7. peer' = [q EXCEPT !.state = state, !.observedAt = observationClock]
  BY <1>4, <1>5, <1>6, Zenon DEF Observes
<1>8. /\ p \in PeerType /\ Len(p.queue) <= QueueSize /\ p.sealed = peer.sealed
      /\ \/ p = peer
         \/ /\ p.sequence = peer.sequence + 1
            /\ \E x \in Notices : ToSet(p.queue) = ToSet(peer.queue) \cup {x}
  <2>1. CASE peer.sealed
    BY <1>1, <1>4, <2>1
  <2>2. CASE ~peer.sealed
    BY <1>1, <1>4, <2>2, ReportFacts
  <2> QED
    BY <2>1, <2>2
<1>9. p.sequence \in Nat /\ p.queue \in Seq(EventType)
  BY <1>8 DEF PeerType
<1>10. f \in EventType /\ f.type = type /\ f.sequence = p.sequence + 1 /\ f.at = observationClock
  <2>1. delivery.latency \in Int /\ delivery.bounded \in BOOLEAN
    BY DEF ReceiptType
  <2> QED
    BY <1>3, <1>5, <1>9, <2>1 DEF Event, EventType
<1>11. /\ q \in PeerType /\ Len(q.queue) <= QueueSize /\ q.sequence = p.sequence + 1
       /\ q.sealed = p.sealed /\ ToSet(q.queue) \subseteq ToSet(p.queue) \cup {f}
  <2>1. p \in PeerType /\ Len(p.queue) <= QueueSize
    BY <1>8
  <2>2. f \in EventType
    BY <1>10
  <2>3. Holds(q, p, f)
    BY <1>6, <2>1, <2>2, EnqueuedFacts
  <2> QED
    BY <2>3 DEF Holds
<1>12. /\ peer' \in PeerType /\ peer'.queue = q.queue /\ peer'.sequence = q.sequence
       /\ peer'.state = state /\ peer'.sealed = q.sealed /\ peer'.observedAt = observationClock
  BY <1>3, <1>7, <1>11 DEF PeerType
<1>13. e = f
  BY <1>5, <1>11, <1>12 DEF Event
<1>14. \E N : Grows(N, {e})
  <2>1. CASE p = peer
    <3>1. Events' \subseteq Events \cup {} \cup {e}
      BY <1>2, <1>11, <1>12, <1>13, <2>1 DEF Events
    <3>2. Grows({}, {e})
      BY <1>1, <1>3, <1>10, <1>11, <1>12, <1>13, <2>1, <3>1 DEF Grows
    <3> QED
      BY <3>2
  <2>2. ASSUME NEW x \in Notices, p.sequence = peer.sequence + 1,
               ToSet(p.queue) = ToSet(peer.queue) \cup {x}
        PROVE  \E N : Grows(N, {e})
    <3>1. Events' \subseteq Events \cup {x} \cup {e}
      BY <1>2, <1>11, <1>12, <1>13, <2>2 DEF Events
    <3>2. x \in EventType /\ x.type = "drop" /\ x.sequence = peer.sequence + 1
      BY DEF Notices
    <3>3. Grows({x}, {e})
      BY <1>1, <1>3, <1>10, <1>11, <1>12, <1>13, <2>2, <3>1, <3>2 DEF Grows
    <3> QED
      BY <3>3
  <2> QED
    BY <1>8, <2>1, <2>2
<1>15. peer.sequence < peer'.sequence
  BY <1>1, <1>8, <1>9, <1>11, <1>12
<1> QED
  BY <1>8, <1>10, <1>11, <1>12, <1>13, <1>14, <1>15 DEF Observation

(* The order of the events is kept.                                        *)
LEMMA OrderGrows ==
  ASSUME TypeInv, OrderInv, NEW N, NEW O, Grows(N, O),
         \A y \in O : y.type = "stop" => \A e \in Events : e.type # "stop",
         \A y \in O : y.type = "start" => Events = {}
  PROVE  OrderInv'
<1>1. /\ peer.sequence \in Nat /\ peer.observedAt \in Nat
      /\ peer'.sequence \in Nat /\ peer'.observedAt \in Nat
      /\ peer.sequence <= peer'.sequence /\ peer.observedAt <= peer'.observedAt
  BY DEF TypeInv, PeerType, Grows
<1>2. \A e \in Events' : e \in Events \/ e \in N \/ e \in O
  BY DEF Grows
<1>3. \A e \in Events : /\ e.sequence \in Nat /\ e.at \in Nat
                        /\ e.type # "terminated" => e.sequence <= peer.sequence
                        /\ e.type \in Observed => e.at <= peer.observedAt
  <2> SUFFICES ASSUME NEW e \in Events
               PROVE  /\ e.sequence \in Nat /\ e.at \in Nat
                      /\ e.type # "terminated" => e.sequence <= peer.sequence
                      /\ e.type \in Observed => e.at <= peer.observedAt
    OBVIOUS
  <2>1. e \in EventType
    BY QueueMembers DEF Events, TypeInv, PeerType
  <2> QED
    BY <1>1, <2>1 DEF OrderInv, EventType
<1>4. \A e \in N : /\ e \in EventType /\ e.sequence \in Nat /\ e.type = "drop"
                   /\ peer.sequence < e.sequence /\ e.sequence <= peer'.sequence
  BY DEF Grows, EventType
<1>5. \A e \in O : /\ e \in EventType /\ e.sequence \in Nat /\ e.at \in Nat /\ e.type \in Observed
                   /\ peer.sequence < e.sequence /\ e.sequence <= peer'.sequence
                   /\ peer.observedAt < e.at /\ e.at <= peer'.observedAt
                   /\ \A x \in N : x.sequence < e.sequence
  BY DEF Grows, EventType
<1>6. "drop" \notin Observed /\ "drop" \notin {"start", "stop", "terminated"}
      /\ "terminated" \notin Observed
  BY DEF Observed
<1>7. ASSUME NEW e \in Events'
      PROVE  /\ e.type # "terminated" => e.sequence \in 1 .. peer'.sequence
             /\ e.type \in Observed => e.at \in 1 .. peer'.observedAt
  <2>1. CASE e \in Events
    BY <1>1, <2>1 DEF OrderInv
  <2>2. CASE e \in N
    BY <1>1, <1>4, <1>6, <2>2
  <2>3. CASE e \in O
    BY <1>1, <1>5, <2>3
  <2> QED
    BY <1>2, <2>1, <2>2, <2>3
<1>8. ASSUME NEW e \in Events', NEW f \in Events', e.type # "terminated", f.type # "terminated",
             e.sequence = f.sequence
      PROVE  e = f
  <2>1. CASE e \in Events
    BY <1>1, <1>2, <1>3, <1>4, <1>5, <1>8, <2>1 DEF OrderInv
  <2>2. CASE e \in N
    <3>1. f \notin Events /\ f \notin O
      BY <1>1, <1>3, <1>4, <1>5, <1>8, <2>2
    <3> QED
      BY <1>2, <2>2, <3>1 DEF Grows
  <2>3. CASE e \in O
    <3>1. f \notin Events /\ f \notin N
      BY <1>1, <1>3, <1>4, <1>5, <1>8, <2>3
    <3> QED
      BY <1>2, <2>3, <3>1 DEF Grows
  <2> QED
    BY <1>2, <2>1, <2>2, <2>3
<1>9. ASSUME NEW e \in Events', NEW f \in Events', e.type \in Observed, f.type \in Observed,
             e.sequence < f.sequence
      PROVE  e.at < f.at
  <2>1. (e \in Events \/ e \in O) /\ (f \in Events \/ f \in O)
    BY <1>2, <1>4, <1>6, <1>9
  <2>2. CASE e \in Events /\ f \in Events
    BY <1>9, <2>2 DEF OrderInv
  <2>3. CASE e \in Events /\ f \in O
    BY <1>1, <1>3, <1>5, <1>9, <2>3
  <2>4. CASE e \in O /\ f \in Events
    BY <1>1, <1>3, <1>5, <1>6, <1>9, <2>4
  <2>5. CASE e \in O /\ f \in O
    <3>1. e = f
      BY <2>5 DEF Grows
    <3> QED
      BY <1>5, <1>9, <2>5, <3>1
  <2> QED
    BY <2>1, <2>2, <2>3, <2>4, <2>5
<1>10. ASSUME NEW e \in Events', NEW f \in Events', e.type = f.type,
              e.type \in {"start", "stop", "terminated"}
       PROVE  e = f
  <2>1. (e \in Events \/ e \in O) /\ (f \in Events \/ f \in O)
    BY <1>2, <1>4, <1>6, <1>10
  <2>2. CASE e \in Events /\ f \in Events
    BY <1>10, <2>2 DEF OrderInv
  <2>3. CASE e \in O /\ f \in O
    BY <2>3 DEF Grows
  <2>4. ~(e \in Events /\ f \in O) /\ ~(f \in Events /\ e \in O)
    BY <1>5, <1>6, <1>10
  <2> QED
    BY <2>1, <2>2, <2>3, <2>4
<1>11. ASSUME NEW e \in Events', NEW f \in Events', e.type = "start", f.type \in Observed
       PROVE  e.sequence <= f.sequence
  <2>1. (e \in Events \/ e \in O) /\ (f \in Events \/ f \in O)
    BY <1>2, <1>4, <1>6, <1>11
  <2>2. CASE e \in Events /\ f \in Events
    BY <1>11, <2>2 DEF OrderInv
  <2>3. CASE e \in Events /\ f \in O
    BY <1>1, <1>3, <1>5, <1>11, <2>3
  <2>4. CASE e \in O
    <3>1. f \in O
      BY <1>11, <2>1, <2>4
    <3>2. e = f
      BY <2>4, <3>1 DEF Grows
    <3> QED
      BY <1>5, <2>4, <3>2
  <2> QED
    BY <2>1, <2>2, <2>3, <2>4
<1> QED
  BY <1>7, <1>8, <1>9, <1>10, <1>11 DEF OrderInv

(* The events keep telling the boundaries of the session.  A session that  *)
(* ends now has sent nothing after its end.                                *)
LEMMA BoundaryGrows ==
  ASSUME TypeInv, ClockInv, OrderInv, BoundaryInv, NEW N, NEW O, Grows(N, O),
         now \in Nat /\ now' \in Nat /\ now <= now',
         truth' \in TruthType,
         truth'.start = truth.start \/ \A e \in Events : e.type # "start",
         truth'.end = truth.end \/ (truth.end = None /\ now <= truth'.end),
         peer.state = "gone" => peer'.state = "gone" /\ truth'.end = truth.end,
         \A y \in O :
           /\ y.type = "start" => truth'.start # None /\ truth'.start <= y.at + Uncertainty
           /\ y.type \in {"checkpoint", "stop"} =>
                truth'.end = None \/ y.at <= truth'.end + Uncertainty
           /\ y.type = "stop" => truth'.end # None /\ truth'.end <= y.at + Uncertainty
  PROVE  BoundaryInv'
<1> SUFFICES ASSUME NEW e \in Events'
             PROVE  /\ e.type = "start" => truth'.start # None /\ truth'.start <= e.at + Uncertainty
                    /\ e.type \in {"checkpoint", "stop"} =>
                         truth'.end = None \/ e.at <= truth'.end + Uncertainty
                    /\ e.type = "stop" => truth'.end # None /\ truth'.end <= e.at + Uncertainty
                    /\ e.type = "terminated" =>
                         e.sequence = 0 /\ peer'.state = "gone" /\ truth'.end <= e.at /\ e.at <= now'
  BY DEF BoundaryInv
<1>1. CASE e \in Events
  <2>1. e \in EventType
    BY <1>1, QueueMembers DEF Events, TypeInv, PeerType
  <2>2. e.at \in Nat /\ Uncertainty \in Nat /\ peer.observedAt \in Nat
        /\ truth.end \in Nat /\ truth'.end \in Nat /\ peer.observedAt <= now + Uncertainty
    BY <2>1, WindowBounds DEF EventType, TypeInv, PeerType, TruthType, ClockInv
  <2>3. e.type = "start" => truth'.start # None /\ truth'.start <= e.at + Uncertainty
    BY <1>1 DEF BoundaryInv
  <2>4. e.type \in {"checkpoint", "stop"} => truth'.end = None \/ e.at <= truth'.end + Uncertainty
    <3>1. e.type \in {"checkpoint", "stop"} => e.at <= peer.observedAt
      BY <1>1, <2>2 DEF OrderInv, Observed
    <3>2. CASE truth'.end = truth.end
      BY <1>1, <3>2 DEF BoundaryInv
    <3>3. CASE truth.end = None /\ now <= truth'.end
      BY <2>2, <3>1, <3>3
    <3> QED
      BY <3>2, <3>3
  <2>5. e.type = "stop" => truth'.end # None /\ truth'.end <= e.at + Uncertainty
    BY <1>1 DEF BoundaryInv
  <2>6. e.type = "terminated" =>
          e.sequence = 0 /\ peer'.state = "gone" /\ truth'.end <= e.at /\ e.at <= now'
    BY <1>1, <2>2 DEF BoundaryInv
  <2> QED
    BY <2>3, <2>4, <2>5, <2>6
<1>2. CASE e \in N
  BY <1>2 DEF Grows
<1>3. CASE e \in O
  <2>1. e.type # "terminated"
    BY <1>3 DEF Grows, Observed
  <2> QED
    BY <1>3, <2>1
<1> QED
  BY <1>1, <1>2, <1>3 DEF Grows

(* The delivery of the message stays what it was.                          *)
LEMMA DeliveryGrows ==
  ASSUME TypeInv, ClockInv, OrderInv, BoundaryInv, DeliveryInv, NEW N, NEW O, Grows(N, O),
         truth'.got = truth.got, truth'.bounded = truth.bounded,
         message.at # None => message' = message,
         truth'.end = truth.end \/ truth.end = None,
         \A y \in O : y.type # "deliver",
         \A y \in O : y.type = "start" => truth.got = None
  PROVE  DeliveryInv'
<1>1. \A e \in Events' : e \in Events \/ e \in N \/ e \in O
  BY DEF Grows
<1>2. CASE truth.got = None
  <2>1. \A e \in Events' : e.type # "deliver"
    BY <1>1, <1>2 DEF DeliveryInv, Grows
  <2> QED
    BY <1>2, <2>1 DEF DeliveryInv
<1>3. CASE truth.got # None
  <2>1. PICK n \in 1 .. peer.sequence, at \in 1 .. peer.observedAt :
               Delivery(Event("deliver", n, at,
                              [latency |-> at - message.at, bounded |-> truth.bounded]))
    BY <1>3 DEF DeliveryInv
  <2>2. PICK d : d = Event("deliver", n, at,
                           [latency |-> at - message.at, bounded |-> truth.bounded])
    OBVIOUS
  <2>3. message.at # None /\ message' = message
    BY <1>3 DEF DeliveryInv
  <2>4. d = Event("deliver", n, at, [latency |-> at - message'.at, bounded |-> truth'.bounded])
    BY <2>2, <2>3
  <2>5. d.sequence = n /\ d.at = at
    BY <2>2 DEF Event
  <2>6. /\ peer.sequence \in Nat /\ peer'.sequence \in Nat /\ peer.sequence <= peer'.sequence
        /\ peer.observedAt \in Nat /\ peer'.observedAt \in Nat
        /\ peer.observedAt <= peer'.observedAt
    BY DEF TypeInv, PeerType, Grows
  <2>7. n \in 1 .. peer'.sequence /\ at \in 1 .. peer'.observedAt
    BY <2>6
  <2>8. Delivery(d)
    BY <2>1, <2>2
  <2>9. ASSUME NEW e \in Events'
        PROVE  /\ e.type = "deliver" => e = d
               /\ e.type # "terminated" /\ e.sequence = d.sequence => e = d
               /\ e.type \in Observed /\ e.sequence < d.sequence => e.at < d.at
               /\ e.type \in Observed /\ d.sequence < e.sequence => d.at < e.at
               /\ e.type = "start" => e.sequence < d.sequence
               /\ e.type = "stop" /\ e.sequence < d.sequence => truth'.end < truth'.got
    <3>1. CASE e \in Events
      <4>1. e.type = "stop" => truth'.end = truth.end
        BY <3>1 DEF BoundaryInv
      <4> QED
        BY <2>8, <3>1, <4>1 DEF Delivery
    <3>2. CASE e \in N
      <4>1. e \in EventType /\ e.sequence \in Nat /\ e.type = "drop" /\ peer.sequence < e.sequence
        BY <3>2 DEF Grows, EventType
      <4>2. e.sequence # d.sequence
        BY <2>5, <2>6, <4>1
      <4> QED
        BY <4>1, <4>2 DEF Observed
    <3>3. CASE e \in O
      <4>1. /\ e \in EventType /\ e.sequence \in Nat /\ e.at \in Nat /\ e.type \in Observed
            /\ peer.sequence < e.sequence /\ peer.observedAt < e.at
            /\ e.type # "deliver" /\ e.type # "start"
        BY <1>3, <3>3 DEF Grows, EventType
      <4>2. d.sequence < e.sequence /\ d.at < e.at /\ ~(e.sequence < d.sequence)
            /\ e.sequence # d.sequence
        BY <2>5, <2>6, <4>1
      <4> QED
        BY <4>1, <4>2
    <3> QED
      BY <1>1, <3>1, <3>2, <3>3
  <2>10. /\ d.sequence <= peer'.sequence /\ d.at <= peer'.observedAt
         /\ d.at <= truth'.got + Uncertainty /\ truth'.got <= d.at + Uncertainty
    BY <2>5, <2>6, <2>8 DEF Delivery
  <2>11. Delivery(d)'
    BY <2>9, <2>10 DEF Delivery
  <2>12. \E k \in 1 .. peer'.sequence, t \in 1 .. peer'.observedAt :
           Delivery(Event("deliver", k, t,
                          [latency |-> t - message.at, bounded |-> truth.bounded]))'
    BY <2>4, <2>7, <2>11
  <2> QED
    BY <1>3, <2>3, <2>12 DEF DeliveryInv
<1> QED
  BY <1>2, <1>3

(* The delivery itself.                                                    *)
LEMMA NewDelivery ==
  ASSUME TypeInv, ClockInv, OrderInv, DeliveryInv, NEW N, NEW d, Grows(N, {d}),
         truth.got = None, message.at # None, message' = message, now' = now + 1,
         d.type = "deliver", d.sequence = peer'.sequence, d.at = peer'.observedAt,
         peer.sequence < peer'.sequence,
         d = Event("deliver", peer'.sequence, peer'.observedAt,
                   [latency |-> peer'.observedAt - message.at, bounded |-> truth'.bounded]),
         truth'.got = now', truth'.end = truth.end,
         peer'.observedAt <= now' + Uncertainty, now' <= peer'.observedAt + Uncertainty
  PROVE  DeliveryInv'
<1>1. \A e \in Events' : e \in Events \/ e \in N \/ e = d
  BY DEF Grows
<1>2. /\ peer.sequence \in Nat /\ peer'.sequence \in Nat /\ peer.observedAt \in Nat
      /\ peer'.observedAt \in Nat /\ now \in Nat /\ truth.end \in Nat /\ truth.end <= now
      /\ d \in EventType /\ peer.observedAt < d.at
  BY DEF TypeInv, TypeOK, PeerType, TruthType, ClockInv, Grows
<1>3. ASSUME NEW e \in Events'
      PROVE  /\ e.type = "deliver" => e = d
             /\ e.type # "terminated" /\ e.sequence = d.sequence => e = d
             /\ e.type \in Observed /\ e.sequence < d.sequence => e.at < d.at
             /\ e.type \in Observed /\ d.sequence < e.sequence => d.at < e.at
             /\ e.type = "start" => e.sequence < d.sequence
             /\ e.type = "stop" /\ e.sequence < d.sequence => truth'.end < truth'.got
  <2>1. CASE e \in Events
    <3>1. e \in EventType /\ e.sequence \in Nat /\ e.at \in Nat
      BY <2>1, QueueMembers DEF Events, TypeInv, PeerType, EventType
    <3>2. /\ e.type # "terminated" => e.sequence <= peer.sequence
          /\ e.type \in Observed => e.at <= peer.observedAt
          /\ e.type # "deliver"
      BY <1>2, <2>1, <3>1 DEF OrderInv, DeliveryInv
    <3>3. e.type = "start" => e.type # "terminated"
      OBVIOUS
    <3>4. e.type \in Observed => e.type # "terminated"
      BY DEF Observed
    <3>5. truth'.end < truth'.got
      BY <1>2
    <3> QED
      BY <1>2, <3>1, <3>2, <3>3, <3>4, <3>5
  <2>2. CASE e \in N
    <3>1. e.type = "drop" /\ e.sequence < d.sequence /\ e.sequence \in Nat
      BY <2>2 DEF Grows, EventType
    <3> QED
      BY <1>2, <3>1 DEF Observed
  <2>3. CASE e = d
    BY <1>2, <2>3
  <2> QED
    BY <1>1, <2>1, <2>2, <2>3
<1>4. Delivery(d)'
  BY <1>2, <1>3 DEF Delivery
<1>5. peer'.sequence \in 1 .. peer'.sequence /\ peer'.observedAt \in 1 .. peer'.observedAt
  BY <1>2
<1>6. \E k \in 1 .. peer'.sequence, t \in 1 .. peer'.observedAt :
        Delivery(Event("deliver", k, t,
                       [latency |-> t - message.at, bounded |-> truth.bounded]))'
  BY <1>4, <1>5
<1>7. truth'.got # None
  BY <1>2 DEF None
<1> QED
  BY <1>6, <1>7 DEF DeliveryInv

(* What has arrived stays.                                                 *)
LEMMA RangeStays ==
  ASSUME TypeInv, RangeInv, NEW N, NEW O, Grows(N, O), ranges' = ranges, arrived' = arrived
  PROVE  RangeInv'
BY DEF RangeInv, Grows, TypeInv, PeerType, RangeType

-----------------------------------------------------------------------------
(* The steps.                                                              *)

LEMMA InitKeeps ==
  ASSUME Init
  PROVE  IInv
<1>1. /\ now = 1 /\ message = [at |-> None] /\ transit = {} /\ arrived = {} /\ ranges = {}
      /\ peer = [state |-> "new", sealed |-> FALSE, sequence |-> 0, observedAt |-> 0,
                 dropped |-> 0, queue |-> <<>>]
      /\ truth = [start |-> None, end |-> None, got |-> None, bounded |-> FALSE]
  BY DEF Init
<1>2. clock \in [error : -Uncertainty .. Uncertainty, synced : BOOLEAN, syncs : 0 .. MaxSyncs]
  BY WindowBounds DEF Init
<1>3. peer \in PeerType /\ Len(peer.queue) = 0 /\ ToSet(peer.queue) = {}
  BY <1>1 DEF PeerType, PeerState, ToSet
<1>4. truth \in TruthType
  BY <1>1, WindowBounds DEF TruthType, None
<1>5. TypeInv
  BY <1>1, <1>2, <1>3, <1>4, WindowBounds DEF TypeInv, TypeOK, None
<1>6. Events = {}
  BY <1>1, <1>3 DEF Events
<1>7. ClockInv
  BY <1>1, <1>6, WindowBounds DEF ClockInv, None
<1> QED
  BY <1>1, <1>5, <1>6, <1>7 DEF IInv, OrderInv, BoundaryInv, DeliveryInv, RangeInv

(* A step that makes no observation, of a session that may end by it.      *)
LEMMA QuietKeeps ==
  ASSUME IInv, TypeInv', ClockInv', NEW N, Grows(N, {}),
         now <= now', ranges' = ranges, arrived' = arrived,
         message.at # None => message' = message,
         truth'.start = truth.start, truth'.got = truth.got, truth'.bounded = truth.bounded,
         truth'.end = truth.end \/ (truth.end = None /\ now <= truth'.end),
         peer.state = "gone" => peer'.state = "gone" /\ truth'.end = truth.end
  PROVE  IInv'
<1>1. TypeInv /\ ClockInv /\ OrderInv /\ BoundaryInv /\ DeliveryInv /\ RangeInv
  BY DEF IInv
<1>2. now \in Nat /\ now' \in Nat /\ truth' \in TruthType
  BY <1>1 DEF TypeInv, TypeOK
<1>3. OrderInv'
  BY <1>1, OrderGrows
<1>4. BoundaryInv'
  BY <1>1, <1>2, BoundaryGrows
<1>5. DeliveryInv'
  BY <1>1, DeliveryGrows
<1>6. RangeInv'
  BY <1>1, RangeStays
<1> QED
  BY <1>3, <1>4, <1>5, <1>6 DEF IInv

(* An observation, of the boundaries of the session or between them.       *)
LEMMA ObservationKeeps ==
  ASSUME IInv, NEW type \in Observed, NEW state \in PeerState, state # "new", state # "gone",
         NEW delivery \in ReceiptType, NEW priority \in BOOLEAN,
         Observes(type, state, delivery, priority), peer.state # "gone",
         truth' \in TruthType, truth'.end <= now', truth'.got <= now',
         truth'.end = None <=> state = "measuring",
         truth'.start = truth.start \/ Events = {},
         truth'.end = truth.end \/ (truth.end = None /\ truth'.end = now'),
         type = "start" => Events = {} /\ truth'.start = now',
         type = "checkpoint" => truth'.end = None,
         type = "stop" => truth'.end = now' /\ \A e \in Events : e.type # "stop",
         \/ /\ type # "deliver" /\ truth'.got = truth.got /\ truth'.bounded = truth.bounded
            /\ type = "start" => truth.got = None
         \/ /\ type = "deliver" /\ truth.got = None /\ message.at # None /\ truth'.got = now'
            /\ truth'.end = truth.end
            /\ delivery = [latency |-> observationClock - message.at, bounded |-> truth'.bounded]
  PROVE  IInv'
<1>1. TypeInv /\ ClockInv /\ OrderInv /\ BoundaryInv /\ DeliveryInv /\ RangeInv
  BY DEF IInv
<1>2. /\ now < MaxTime /\ now' = now + 1 /\ clock' = clock /\ message' = message
      /\ transit' = transit /\ arrived' = arrived /\ ranges' = ranges
  BY DEF Observes
<1>3. now \in 1 .. MaxTime /\ now' \in 1 .. MaxTime /\ now <= now' /\ message \in [at : 0 .. MaxTime]
  BY <1>1, <1>2, WindowBounds DEF TypeInv, TypeOK
<1>4. PICK e : e = Event(type, peer'.sequence, peer'.observedAt, delivery)
  OBVIOUS
<1>5. state \in {"new", "measuring", "stopped", "gone"}
  BY DEF PeerState
<1>6. /\ peer' \in PeerType /\ Len(peer'.queue) <= QueueSize
      /\ peer'.state = state /\ peer'.sealed = peer.sealed
      /\ peer'.observedAt = observationClock
      /\ e \in EventType /\ e.type = type /\ e.sequence = peer'.sequence
      /\ e.at = peer'.observedAt
      /\ peer.sequence < peer'.sequence
      /\ \E N : Grows(N, {e})
  <2>1. Observation(e, type, state)
    BY <1>1, <1>4, ObservationFacts, ZenonT(30)
  <2> QED
    BY <2>1 DEF Observation
<1>7. PICK N : Grows(N, {e})
  BY <1>6
<1>8. /\ observationClock \in Nat /\ peer.observedAt < observationClock
      /\ observationClock <= now' + Uncertainty /\ now' <= observationClock + Uncertainty
  BY <1>1, <1>2, ReadingFacts
<1>9. TypeInv'
  BY <1>1, <1>2, <1>3, <1>5, <1>6 DEF TypeInv, TypeOK
<1>10. ClockInv'
  <2>1. message.at <= now /\ message.at \in Nat /\ now \in Nat /\ now' \in Nat
    BY <1>1, <1>3 DEF ClockInv
  <2> QED
    BY <1>2, <1>6, <1>8, <2>1 DEF ClockInv
<1>11. OrderInv'
  BY <1>1, <1>6, <1>7, OrderGrows
<1>12. BoundaryInv'
  <2>1. now \in Nat /\ now' \in Nat /\ Uncertainty \in Nat /\ now' # None
    BY <1>3, WindowBounds DEF None
  <2>2. truth'.start = truth.start \/ \A f \in Events : f.type # "start"
    OBVIOUS
  <2>3. truth'.end = truth.end \/ (truth.end = None /\ now <= truth'.end)
    BY <1>3
  <2>4. e.type = "start" => truth'.start # None /\ truth'.start <= e.at + Uncertainty
    BY <1>6, <1>8, <2>1
  <2>5. e.type \in {"checkpoint", "stop"} => truth'.end = None \/ e.at <= truth'.end + Uncertainty
    BY <1>6, <1>8, <2>1
  <2>6. e.type = "stop" => truth'.end # None /\ truth'.end <= e.at + Uncertainty
    BY <1>6, <1>8, <2>1
  <2> QED
    BY <1>1, <1>3, <1>7, <2>1, <2>2, <2>3, <2>4, <2>5, <2>6, BoundaryGrows
<1>13. DeliveryInv'
  <2>1. CASE type # "deliver" /\ truth'.got = truth.got /\ truth'.bounded = truth.bounded
             /\ (type = "start" => truth.got = None)
    <3>1. \A y \in {e} : y.type # "deliver"
      BY <1>6, <2>1
    <3>2. \A y \in {e} : y.type = "start" => truth.got = None
      BY <1>6, <2>1
    <3> QED
      BY <1>1, <1>2, <1>7, <2>1, <3>1, <3>2, DeliveryGrows
  <2>2. CASE type = "deliver" /\ truth.got = None /\ message.at # None /\ truth'.got = now'
             /\ truth'.end = truth.end
             /\ delivery = [latency |-> observationClock - message.at, bounded |-> truth'.bounded]
    <3>1. e = Event("deliver", peer'.sequence, peer'.observedAt,
                    [latency |-> peer'.observedAt - message.at, bounded |-> truth'.bounded])
      BY <1>4, <1>6, <2>2
    <3> QED
      BY <1>1, <1>2, <1>6, <1>7, <1>8, <2>2, <3>1, NewDelivery
  <2> QED
    BY <2>1, <2>2
<1>14. RangeInv'
  BY <1>1, <1>2, <1>7, RangeStays
<1> QED
  BY <1>9, <1>10, <1>11, <1>12, <1>13, <1>14 DEF IInv

(* The boundaries of the session.                                          *)
LEMMA StartKeeps ==
  ASSUME IInv, startMeasurement
  PROVE  IInv'
<1>1. TypeInv /\ ClockInv
  BY DEF IInv
<1>2. /\ peer.state = "new" /\ Observes("start", "measuring", NoDelivery, FALSE)
      /\ truth' = [truth EXCEPT !.start = now'] /\ now < MaxTime /\ now' = now + 1
  BY DEF startMeasurement, Observes
<1>3. /\ truth \in TruthType /\ now \in 1 .. MaxTime /\ truth.end <= now /\ truth.got <= now
      /\ truth.end = None /\ truth.got = None /\ Events = {} /\ truth.end \in Nat /\ truth.got \in Nat
  BY <1>1, <1>2 DEF TypeInv, TypeOK, ClockInv, TruthType
<1>4. now' \in 0 .. MaxTime
  BY <1>2, <1>3, WindowBounds
<1>5. /\ truth' \in TruthType /\ truth'.start = now' /\ truth'.end = truth.end
      /\ truth'.got = truth.got /\ truth'.bounded = truth.bounded
  BY <1>2, <1>3, <1>4 DEF TruthType
<1>6. truth'.end <= now' /\ truth'.got <= now'
  BY <1>2, <1>3, <1>5
<1>7. /\ NoDelivery \in ReceiptType /\ "start" \in Observed
      /\ "measuring" \in PeerState /\ FALSE \in BOOLEAN
  BY DEF NoDelivery, ReceiptType, Observed, PeerState
<1> QED
  BY <1>2, <1>3, <1>5, <1>6, <1>7, ObservationKeeps

LEMMA CheckpointKeeps ==
  ASSUME IInv, checkpoint
  PROVE  IInv'
<1>1. TypeInv /\ ClockInv
  BY DEF IInv
<1>2. /\ peer.state = "measuring" /\ Observes("checkpoint", "measuring", NoDelivery, FALSE)
      /\ truth' = truth /\ now < MaxTime /\ now' = now + 1
  BY DEF checkpoint, Observes
<1>3. /\ truth \in TruthType /\ now \in Nat /\ truth.end <= now /\ truth.got <= now
      /\ truth.end = None /\ truth.end \in Nat /\ truth.got \in Nat
  BY <1>1, <1>2 DEF TypeInv, TypeOK, ClockInv, TruthType
<1>4. truth'.end <= now' /\ truth'.got <= now'
  BY <1>2, <1>3
<1>5. /\ NoDelivery \in ReceiptType /\ "checkpoint" \in Observed
      /\ "measuring" \in PeerState /\ FALSE \in BOOLEAN
  BY DEF NoDelivery, ReceiptType, Observed, PeerState
<1> QED
  BY <1>2, <1>3, <1>4, <1>5, ObservationKeeps

LEMMA StopKeeps ==
  ASSUME IInv, stopMeasurement
  PROVE  IInv'
<1>1. TypeInv /\ ClockInv /\ BoundaryInv
  BY DEF IInv
<1>2. /\ peer.state = "measuring" /\ Observes("stop", "stopped", NoDelivery, TRUE)
      /\ truth' = [truth EXCEPT !.end = now'] /\ now < MaxTime /\ now' = now + 1
  BY DEF stopMeasurement, Observes
<1>3. /\ truth \in TruthType /\ now \in 1 .. MaxTime /\ truth.got <= now
      /\ truth.end = None /\ truth.got \in Nat
  BY <1>1, <1>2 DEF TypeInv, TypeOK, ClockInv, TruthType
<1>4. now' \in 0 .. MaxTime /\ now' # None
  BY <1>2, <1>3, WindowBounds DEF None
<1>5. /\ truth' \in TruthType /\ truth'.start = truth.start /\ truth'.end = now'
      /\ truth'.got = truth.got /\ truth'.bounded = truth.bounded
  BY <1>2, <1>3, <1>4 DEF TruthType
<1>6. truth'.end <= now' /\ truth'.got <= now'
  BY <1>2, <1>3, <1>4, <1>5
<1>7. \A e \in Events : e.type # "stop"
  BY <1>1, <1>3 DEF BoundaryInv
<1>8. /\ NoDelivery \in ReceiptType /\ "stop" \in Observed
      /\ "stopped" \in PeerState /\ TRUE \in BOOLEAN
  BY DEF NoDelivery, ReceiptType, Observed, PeerState
<1> QED
  BY <1>2, <1>3, <1>4, <1>5, <1>6, <1>7, <1>8, ObservationKeeps

(* The receipts.                                                           *)
LEMMA DeliverKeeps ==
  ASSUME IInv, deliver
  PROVE  IInv'
<1>1. TypeInv /\ ClockInv
  BY DEF IInv
<1>2. /\ peer.state \in {"measuring", "stopped"} /\ message.at # None /\ truth.got = None
      /\ Observes("deliver", peer.state, deliveryEvent, FALSE)
      /\ truth' = [truth EXCEPT !.got = now', !.bounded = clock.synced]
      /\ now < MaxTime /\ now' = now + 1
  BY DEF deliver, Consumes, Observes
<1>3. /\ truth \in TruthType /\ now \in 1 .. MaxTime /\ truth.end <= now
      /\ truth.end \in Nat /\ clock.synced \in BOOLEAN
      /\ message.at \in Nat /\ (truth.end = None <=> peer.state = "measuring")
  BY <1>1, <1>2 DEF TypeInv, TypeOK, ClockInv, TruthType
<1>4. now' \in 0 .. MaxTime
  BY <1>2, <1>3, WindowBounds
<1>5. /\ truth' \in TruthType /\ truth'.start = truth.start /\ truth'.end = truth.end
      /\ truth'.got = now' /\ truth'.bounded = clock.synced
  BY <1>2, <1>3, <1>4 DEF TruthType
<1>6. truth'.end <= now' /\ truth'.got <= now'
  BY <1>2, <1>3, <1>4, <1>5
<1>7. deliveryEvent = [latency |-> observationClock - message.at, bounded |-> truth'.bounded]
  BY <1>5 DEF deliveryEvent
<1>8. deliveryEvent \in ReceiptType
  <2>1. observationClock \in Nat
    BY <1>1, <1>2, ReadingFacts
  <2> QED
    BY <1>3, <2>1 DEF deliveryEvent, ReceiptType
<1>9. /\ "deliver" \in Observed /\ peer.state \in PeerState /\ FALSE \in BOOLEAN
      /\ peer.state # "new" /\ peer.state # "gone"
  BY <1>2 DEF Observed, PeerState
<1> QED
  BY <1>2, <1>3, <1>5, <1>6, <1>7, <1>8, <1>9, ObservationKeeps

LEMMA DuplicateKeeps ==
  ASSUME IInv, duplicate
  PROVE  IInv'
<1>1. TypeInv /\ ClockInv
  BY DEF IInv
<1>2. /\ peer.state \in {"measuring", "stopped"}
      /\ Observes("duplicate", peer.state, NoDelivery, FALSE)
      /\ truth' = truth /\ now < MaxTime /\ now' = now + 1
  BY DEF duplicate, Consumes, Observes
<1>3. /\ truth \in TruthType /\ now \in Nat /\ truth.end <= now /\ truth.got <= now
      /\ truth.end \in Nat /\ truth.got \in Nat
      /\ (truth.end = None <=> peer.state = "measuring")
  BY <1>1, <1>2 DEF TypeInv, TypeOK, ClockInv, TruthType
<1>4. truth'.end <= now' /\ truth'.got <= now'
  BY <1>2, <1>3
<1>5. /\ NoDelivery \in ReceiptType /\ "duplicate" \in Observed
      /\ peer.state \in PeerState /\ FALSE \in BOOLEAN
      /\ peer.state # "new" /\ peer.state # "gone"
  BY <1>2 DEF NoDelivery, ReceiptType, Observed, PeerState
<1> QED
  BY <1>2, <1>3, <1>4, <1>5, ObservationKeeps

(* The queue, the end of the process, the clock and the publication.       *)
LEMMA SealKeeps ==
  ASSUME IInv, seal
  PROVE  IInv'
<1>1. TypeInv /\ ClockInv
  BY DEF IInv
<1>2. /\ peer' = [peer EXCEPT !.sealed = TRUE] /\ peer.state = "stopped"
      /\ UNCHANGED <<now, clock, message, transit, arrived, ranges, truth>>
  BY DEF seal
<1>3. /\ peer' \in PeerType /\ peer'.state = peer.state /\ peer'.sequence = peer.sequence
      /\ peer'.observedAt = peer.observedAt /\ peer'.dropped = peer.dropped
      /\ peer'.queue = peer.queue
  BY <1>1, <1>2 DEF TypeInv, PeerType
<1>4. Events' = Events
  BY <1>2, <1>3 DEF Events
<1>5. TypeInv'
  BY <1>1, <1>2, <1>3 DEF TypeInv, TypeOK
<1>6. ClockInv'
  BY <1>1, <1>2, <1>3, <1>4 DEF ClockInv
<1>7. Grows({}, {})
  BY <1>1, <1>3, <1>4, NothingNew
<1>8. now <= now'
  BY <1>1, <1>2 DEF TypeInv, TypeOK
<1> QED
  BY <1>2, <1>3, <1>5, <1>6, <1>7, <1>8, QuietKeeps

LEMMA ExitsKeeps ==
  ASSUME IInv, exits
  PROVE  IInv'
<1>1. TypeInv /\ ClockInv
  BY DEF IInv
<1>2. /\ peer.state # "gone" /\ peer' = [peer EXCEPT !.state = "gone", !.queue = <<>>]
      /\ truth' = IF truth.end = None THEN [truth EXCEPT !.end = now] ELSE truth
      /\ UNCHANGED <<now, clock, message, transit, arrived, ranges>>
  BY DEF exits
<1>3. /\ truth \in TruthType /\ now \in 1 .. MaxTime /\ truth.end \in Nat /\ truth.got \in Nat
      /\ truth.end <= now /\ truth.got <= now
  BY <1>1 DEF TypeInv, TypeOK, TruthType, ClockInv
<1>4. /\ peer' \in PeerType /\ peer'.state = "gone" /\ peer'.sequence = peer.sequence
      /\ peer'.observedAt = peer.observedAt /\ peer'.queue = <<>>
  <2>1. <<>> \in Seq(EventType) /\ "gone" \in PeerState /\ peer \in PeerType
    BY <1>1 DEF TypeInv, PeerState
  <2> QED
    BY <1>2, <2>1 DEF PeerType
<1>5. /\ truth' \in TruthType /\ truth'.start = truth.start /\ truth'.got = truth.got
      /\ truth'.bounded = truth.bounded /\ truth'.end <= now
      /\ truth'.end # None
      /\ (truth'.end = truth.end \/ (truth.end = None /\ truth'.end = now))
  <2>1. CASE truth.end = None
    <3>1. truth' = [truth EXCEPT !.end = now] /\ now \in 0 .. MaxTime
      BY <1>2, <1>3, <2>1
    <3> QED
      BY <1>3, <2>1, <3>1 DEF TruthType, None
  <2>2. CASE truth.end # None
    BY <1>2, <1>3, <2>2
  <2> QED
    BY <2>1, <2>2
<1>6. Events' \subseteq Events
  BY <1>2, <1>4 DEF Events, ToSet
<1>7. TypeInv'
  <2>1. Len(peer'.queue) = 0 /\ 0 <= QueueSize
    BY <1>4, WindowBounds
  <2> QED
    BY <1>1, <1>2, <1>4, <1>5, <2>1 DEF TypeInv, TypeOK
<1>8. ClockInv'
  BY <1>1, <1>2, <1>3, <1>4, <1>5 DEF ClockInv
<1>9. Grows({}, {})
  BY <1>1, <1>4, <1>6, NothingNew
<1>10. now <= now' /\ (truth'.end = truth.end \/ (truth.end = None /\ now <= truth'.end))
  BY <1>2, <1>3, <1>5
<1> QED
  BY <1>2, <1>5, <1>7, <1>8, <1>9, <1>10, QuietKeeps

LEMMA FlushKeeps ==
  ASSUME IInv, flush
  PROVE  IInv'
<1>1. TypeInv /\ ClockInv
  BY DEF IInv
<1>2. PICK p : p = reportDrops(peer, peer.sealed)
  OBVIOUS
<1>3. /\ peer.state # "gone" /\ p.queue # <<>> /\ transit' = transit \cup {Head(p.queue)}
      /\ peer' = [p EXCEPT !.queue = Tail(@)]
      /\ UNCHANGED <<now, clock, message, arrived, ranges, truth>>
  BY <1>2 DEF flush
<1>4. /\ peer \in PeerType /\ peer.sealed \in BOOLEAN /\ peer.sequence \in Nat
      /\ peer.observedAt \in Nat /\ transit \subseteq EventType /\ arrived \subseteq EventType
  BY <1>1 DEF TypeInv, PeerType
<1>5. /\ p \in PeerType /\ Len(p.queue) <= QueueSize
      /\ p.state = peer.state /\ p.sealed = peer.sealed /\ p.observedAt = peer.observedAt
      /\ \/ p = peer
         \/ /\ p.sequence = peer.sequence + 1 /\ p.dropped = 0 /\ peer.dropped # 0
            /\ \E e \in Notices : ToSet(p.queue) = ToSet(peer.queue) \cup {e}
  BY <1>1, <1>2, <1>4, ReportFacts
<1>6. p.queue \in Seq(EventType) /\ p.sequence \in Nat /\ p.dropped \in Nat
  BY <1>5 DEF PeerType
<1>7. /\ Head(p.queue) \in ToSet(p.queue) /\ Tail(p.queue) \in Seq(EventType)
      /\ Len(Tail(p.queue)) <= Len(p.queue) /\ ToSet(Tail(p.queue)) \subseteq ToSet(p.queue)
  BY <1>3, <1>6, QueueTail
<1>8. /\ peer' \in PeerType /\ peer'.queue = Tail(p.queue) /\ peer'.state = p.state
      /\ peer'.sealed = p.sealed /\ peer'.sequence = p.sequence /\ peer'.observedAt = p.observedAt
      /\ peer'.dropped = p.dropped
  BY <1>3, <1>5, <1>7 DEF PeerType
<1>9. Events' \subseteq ToSet(p.queue) \cup transit \cup arrived
  BY <1>3, <1>7, <1>8 DEF Events
<1>10. TypeInv'
  <2>1. Len(Tail(p.queue)) <= QueueSize
    BY <1>5, <1>6, <1>7, WindowBounds
  <2>2. Head(p.queue) \in EventType
    BY <1>6, <1>7, QueueMembers
  <2>3. TypeOK'
    BY <1>1, <1>3, <1>5, <1>8, <2>1 DEF TypeInv, TypeOK
  <2> QED
    BY <1>1, <1>3, <1>8, <2>2, <2>3 DEF TypeInv
<1>11. peer.state # "new"
  <2>1. SUFFICES ASSUME peer.state = "new" PROVE FALSE
    OBVIOUS
  <2>2. Events = {} /\ peer.dropped = 0
    BY <1>1, <2>1 DEF ClockInv
  <2>3. p = peer
    BY <1>5, <2>2
  <2> QED
    BY <1>7, <2>2, <2>3 DEF Events
<1>12. ClockInv'
  BY <1>1, <1>3, <1>5, <1>8, <1>11 DEF ClockInv
<1>13. \E N : Grows(N, {})
  <2>1. CASE p = peer
    <3>1. Events' \subseteq Events
      BY <1>9, <2>1 DEF Events
    <3>2. Grows({}, {})
      BY <1>1, <1>8, <2>1, <3>1, NothingNew
    <3> QED
      BY <3>2
  <2>2. ASSUME NEW x \in Notices, p.sequence = peer.sequence + 1,
               ToSet(p.queue) = ToSet(peer.queue) \cup {x}
        PROVE  \E N : Grows(N, {})
    <3>1. Events' \subseteq Events \cup {x}
      BY <1>9, <2>2 DEF Events
    <3>2. x \in EventType /\ x.type = "drop" /\ x.sequence = peer.sequence + 1
      BY DEF Notices
    <3>3. Grows({x}, {})
      BY <1>4, <1>5, <1>8, <2>2, <3>1, <3>2 DEF Grows
    <3> QED
      BY <3>3
  <2> QED
    BY <1>5, <2>1, <2>2
<1>14. PICK N : Grows(N, {})
  BY <1>13
<1>15. now <= now'
  BY <1>1, <1>3 DEF TypeInv, TypeOK
<1> QED
  BY <1>3, <1>10, <1>12, <1>14, <1>15, QuietKeeps

(* The only event that tells the removal; it has no number.                *)
LEMMA TerminationKeeps ==
  ASSUME IInv, queueTermination
  PROVE  IInv'
<1>1. TypeInv /\ ClockInv /\ OrderInv /\ BoundaryInv /\ DeliveryInv /\ RangeInv
  BY DEF IInv
<1>2. PICK t : t = Event("terminated", 0, now, NoDelivery)
  OBVIOUS
<1>3. /\ peer.state = "gone" /\ \A e \in transit \cup arrived : e.type # "terminated"
      /\ transit' = transit \cup {t}
      /\ UNCHANGED <<now, clock, peer, message, arrived, ranges, truth>>
  BY <1>2 DEF queueTermination
<1>4. now \in Nat /\ peer \in PeerType /\ truth.end <= now /\ peer.queue = <<>>
  BY <1>1, <1>3 DEF TypeInv, TypeOK, ClockInv
<1>5. /\ t \in EventType /\ t.type = "terminated" /\ t.sequence = 0 /\ t.at = now
  BY <1>2, <1>4 DEF Event, NoDelivery, EventType
<1>6. Events' = Events \cup {t} /\ \A e \in Events : e.type # "terminated"
  BY <1>3, <1>4 DEF Events, ToSet
<1>7. t.type \notin Observed /\ t.type \notin {"start", "stop", "checkpoint", "deliver"}
  BY <1>5 DEF Observed
<1>8. TypeInv'
  BY <1>1, <1>3, <1>5 DEF TypeInv, TypeOK
<1>9. ClockInv'
  BY <1>1, <1>3 DEF ClockInv
<1>10. OrderInv'
  <2>1. ASSUME NEW e \in Events'
        PROVE  /\ e.type # "terminated" => e.sequence \in 1 .. peer'.sequence
               /\ e.type \in Observed => e.at \in 1 .. peer'.observedAt
    BY <1>1, <1>3, <1>5, <1>6, <1>7, <2>1 DEF OrderInv
  <2>2. ASSUME NEW e \in Events', NEW f \in Events'
        PROVE  /\ e.type # "terminated" /\ f.type # "terminated" /\ e.sequence = f.sequence => e = f
               /\ e.type \in Observed /\ f.type \in Observed /\ e.sequence < f.sequence => e.at < f.at
               /\ e.type = f.type /\ e.type \in {"start", "stop", "terminated"} => e = f
               /\ e.type = "start" /\ f.type \in Observed => e.sequence <= f.sequence
    <3>1. CASE e \in Events /\ f \in Events
      BY <1>1, <3>1 DEF OrderInv
    <3>2. CASE e = t /\ f = t
      BY <1>5, <1>7, <3>2
    <3>3. CASE e = t /\ f \in Events
      BY <1>5, <1>6, <1>7, <3>3
    <3>4. CASE f = t /\ e \in Events
      BY <1>5, <1>6, <1>7, <3>4
    <3> QED
      BY <1>6, <3>1, <3>2, <3>3, <3>4
  <2> QED
    BY <2>1, <2>2 DEF OrderInv
<1>11. BoundaryInv'
  <2>1. ASSUME NEW e \in Events'
        PROVE  /\ e.type = "start" => truth'.start # None /\ truth'.start <= e.at + Uncertainty
               /\ e.type \in {"checkpoint", "stop"} =>
                    truth'.end = None \/ e.at <= truth'.end + Uncertainty
               /\ e.type = "stop" => truth'.end # None /\ truth'.end <= e.at + Uncertainty
               /\ e.type = "terminated" =>
                    e.sequence = 0 /\ peer'.state = "gone" /\ truth'.end <= e.at /\ e.at <= now'
    <3>1. CASE e \in Events
      BY <1>1, <1>3, <3>1 DEF BoundaryInv
    <3>2. CASE e = t
      BY <1>3, <1>4, <1>5, <1>7, <3>2
    <3> QED
      BY <1>6, <3>1, <3>2
  <2> QED
    BY <2>1 DEF BoundaryInv
<1>12. DeliveryInv'
  <2>1. CASE truth.got = None
    BY <1>1, <1>3, <1>6, <1>7, <2>1 DEF DeliveryInv
  <2>2. CASE truth.got # None
    <3>1. PICK n \in 1 .. peer.sequence, at \in 1 .. peer.observedAt :
                 Delivery(Event("deliver", n, at,
                                [latency |-> at - message.at, bounded |-> truth.bounded]))
      BY <1>1, <2>2 DEF DeliveryInv
    <3>2. PICK d : d = Event("deliver", n, at,
                             [latency |-> at - message.at, bounded |-> truth.bounded])
      OBVIOUS
    <3>3. Delivery(d)
      BY <3>1, <3>2
    <3>4. ASSUME NEW e \in Events'
          PROVE  /\ e.type = "deliver" => e = d
                 /\ e.type # "terminated" /\ e.sequence = d.sequence => e = d
                 /\ e.type \in Observed /\ e.sequence < d.sequence => e.at < d.at
                 /\ e.type \in Observed /\ d.sequence < e.sequence => d.at < e.at
                 /\ e.type = "start" => e.sequence < d.sequence
                 /\ e.type = "stop" /\ e.sequence < d.sequence => truth'.end < truth'.got
      <4>1. CASE e \in Events
        BY <1>3, <3>3, <4>1 DEF Delivery
      <4>2. CASE e = t
        BY <1>5, <1>7, <4>2
      <4> QED
        BY <1>6, <4>1, <4>2
    <3>5. Delivery(d)'
      BY <1>3, <3>3, <3>4 DEF Delivery
    <3>6. \E k \in 1 .. peer'.sequence, u \in 1 .. peer'.observedAt :
            Delivery(Event("deliver", k, u,
                           [latency |-> u - message.at, bounded |-> truth.bounded]))'
      BY <1>3, <3>2, <3>5
    <3> QED
      BY <1>1, <1>3, <2>2, <3>6 DEF DeliveryInv
  <2> QED
    BY <2>1, <2>2
<1>13. RangeInv'
  BY <1>1, <1>3 DEF RangeInv
<1> QED
  BY <1>8, <1>9, <1>10, <1>11, <1>12, <1>13 DEF IInv

(* A step of the clock, of true time, or of the publisher.                 *)
LEMMA ClockKeeps ==
  ASSUME IInv, synchronize \/ expires \/ publish \/ Tick \/ UNCHANGED vars
  PROVE  IInv'
<1>1. TypeInv /\ ClockInv
  BY DEF IInv
<1>2. UNCHANGED <<peer, transit, arrived, ranges, truth>>
  BY DEF synchronize, expires, publish, Tick, vars
<1>3. Events' = Events
  BY <1>2 DEF Events
<1>4. /\ now \in 1 .. MaxTime /\ MaxTime \in Nat /\ message \in [at : 0 .. MaxTime]
      /\ clock \in [error : -Uncertainty .. Uncertainty, synced : BOOLEAN, syncs : 0 .. MaxSyncs]
      /\ peer.observedAt \in Nat /\ truth.end \in Nat /\ truth.got \in Nat
      /\ Uncertainty \in Nat /\ MaxSyncs \in Nat
  BY <1>1, WindowBounds DEF TypeInv, TypeOK, PeerType, TruthType
<1>5. now' \in 1 .. MaxTime /\ now <= now'
  BY <1>4 DEF synchronize, expires, publish, Tick, vars
<1>6. clock' \in [error : -Uncertainty .. Uncertainty, synced : BOOLEAN, syncs : 0 .. MaxSyncs]
  <2>1. CASE synchronize
    <3>1. PICK error \in -Uncertainty .. Uncertainty :
            clock' = [error |-> error, synced |-> TRUE, syncs |-> clock.syncs + 1]
      BY <2>1 DEF synchronize
    <3>2. clock.syncs + 1 \in 0 .. MaxSyncs
      BY <1>4, <2>1 DEF synchronize
    <3> QED
      BY <3>1, <3>2
  <2>2. CASE expires
    BY <1>4, <2>2 DEF expires
  <2>3. CASE publish \/ Tick \/ UNCHANGED vars
    BY <1>4, <2>3 DEF publish, Tick, vars
  <2> QED
    BY <2>1, <2>2, <2>3
<1>7. /\ message' \in [at : 0 .. MaxTime] /\ message'.at <= now'
      /\ message.at # None => message' = message
  <2>1. CASE publish
    BY <1>4, <2>1 DEF publish
  <2>2. CASE synchronize \/ expires \/ Tick \/ UNCHANGED vars
    <3>1. message' = message /\ message.at <= now
      BY <1>1, <2>2 DEF synchronize, expires, Tick, vars, ClockInv
    <3> QED
      BY <1>4, <1>5, <3>1
  <2> QED
    BY <2>1, <2>2
<1>8. TypeInv'
  BY <1>1, <1>2, <1>5, <1>6, <1>7 DEF TypeInv, TypeOK
<1>9. ClockInv'
  <2>1. peer.observedAt <= now + Uncertainty /\ truth.end <= now /\ truth.got <= now
    BY <1>1 DEF ClockInv
  <2>2. now \in Nat /\ now' \in Nat
    BY <1>4, <1>5
  <2>3. peer'.observedAt <= now' + Uncertainty /\ truth'.end <= now' /\ truth'.got <= now'
    BY <1>2, <1>4, <1>5, <2>1, <2>2
  <2> QED
    BY <1>1, <1>2, <1>3, <1>7, <2>3, ZenonT(30) DEF ClockInv
<1>10. Grows({}, {})
  BY <1>1, <1>2, <1>3, NothingNew
<1> QED
  BY <1>2, <1>5, <1>7, <1>8, <1>9, <1>10, QuietKeeps

-----------------------------------------------------------------------------
(* The ranges.                                                             *)

(* A range that is made new covers what it touches and the number, nothing *)
(* more.                                                                   *)
LEMMA AddCovers ==
  ASSUME NEW S \in SUBSET RangeType, NEW n \in Nat, NEW b \in Nat, n <= b,
         \A r \in S : 1 <= r.first /\ r.first <= r.last /\ r.last <= b,
         NEW r \in add(S, n)
  PROVE  /\ r \in RangeType /\ 1 <= r.first /\ r.first <= r.last /\ r.last <= b
         /\ \A k \in r.first .. r.last : k = n \/ \E s \in S : k \in s.first .. s.last
<1>1. \A s \in S : s.first \in Nat /\ s.last \in Nat /\ s \in RangeType
  BY DEF RangeType
<1>2. CASE r \in S
  BY <1>1, <1>2
<1>3. CASE r \notin S
  <2>1. PICK T : T = {s \in S : s.first <= n + 1 /\ n <= s.last + 1}
    OBVIOUS
  <2>2. n # 0 /\ r = Spanning(n, T)
    BY <1>3, <2>1 DEF add
  <2>3. PICK F : F = {n} \cup {s.first : s \in T}
    OBVIOUS
  <2>4. PICK L : L = {n} \cup {s.last : s \in T}
    OBVIOUS
  <2>5. T \subseteq S /\ \A s \in T : s.first <= n + 1 /\ n <= s.last + 1
    BY <2>1
  <2>6. F \in SUBSET Nat /\ n \in F /\ \A f \in F : f = n \/ \E s \in T : f = s.first
    BY <1>1, <2>3, <2>5
  <2>7. /\ L \in SUBSET Nat /\ n \in L /\ \A l \in L : l = n \/ \E s \in T : l = s.last
    BY <1>1, <2>4, <2>5
  <2>8. \A l \in L : l <= b
    BY <2>5, <2>7
  <2>9. Min(F) \in F /\ \A m \in F : Min(F) <= m
    BY <2>6, MinTime
  <2>10. Max(L) \in L /\ \A m \in L : m <= Max(L)
    BY <2>7, <2>8, MaxNumber
  <2>11. r = [first |-> Min(F), last |-> Max(L)]
    BY <2>2, <2>3, <2>4, Zenon DEF Spanning
  <2>12. r.first = Min(F) /\ r.last = Max(L) /\ Min(F) \in Nat /\ Max(L) \in Nat
         /\ Min(F) <= n /\ n <= Max(L) /\ Max(L) <= b
    BY <2>6, <2>7, <2>8, <2>9, <2>10, <2>11
  <2>13. r \in RangeType
    BY <2>11, <2>12 DEF RangeType
  <2>14. 1 <= Min(F)
    <3>1. CASE Min(F) = n
      BY <2>2, <3>1
    <3>2. CASE Min(F) # n
      <4>1. PICK s \in T : Min(F) = s.first
        BY <2>6, <2>9, <3>2
      <4>2. s \in S
        BY <2>5
      <4> QED
        BY <4>1, <4>2
    <3> QED
      BY <3>1, <3>2
  <2>15. ASSUME NEW k \in Min(F) .. Max(L), k # n
         PROVE  \E s \in S : k \in s.first .. s.last
    <3>1. CASE k < n
      <4>1. Min(F) # n
        BY <2>12, <3>1
      <4>2. PICK s \in T : Min(F) = s.first
        BY <2>6, <2>9, <4>1
      <4>3. s \in S /\ s.first \in Nat /\ s.last \in Nat /\ n <= s.last + 1
        BY <1>1, <2>5
      <4>4. k \in s.first .. s.last
        BY <2>12, <3>1, <4>2, <4>3
      <4> QED
        BY <4>3, <4>4
    <3>2. CASE n < k
      <4>1. Max(L) # n
        BY <2>12, <3>2
      <4>2. PICK s \in T : Max(L) = s.last
        BY <2>7, <2>10, <4>1
      <4>3. s \in S /\ s.first \in Nat /\ s.last \in Nat /\ s.first <= n + 1
        BY <1>1, <2>5
      <4>4. k \in s.first .. s.last
        BY <2>12, <3>2, <4>2, <4>3
      <4> QED
        BY <4>3, <4>4
    <3> QED
      BY <2>12, <2>15, <3>1, <3>2
  <2> QED
    BY <2>12, <2>13, <2>14, <2>15
<1> QED
  BY <1>2, <1>3

(* A number that a range goes through has been seen.                       *)
LEMMA ThroughCovers ==
  ASSUME TypeInv, RangeInv, NEW n \in Nat, through(ranges, n) # 0
  PROVE  /\ through(ranges, n) \in Nat
         /\ \A k \in n .. through(ranges, n) : \E e \in arrived : e.sequence = k
<1>1. Holding(ranges, n) # {} /\ through(ranges, n) = (CHOOSE r \in Holding(ranges, n) : TRUE).last
  BY DEF through
<1>2. PICK r \in Holding(ranges, n) : through(ranges, n) = r.last
  BY <1>1
<1>3. r \in ranges /\ r \in RangeType /\ r.first <= n /\ n <= r.last
  BY <1>2 DEF Holding, TypeInv
<1>4. r.first \in Nat /\ r.last \in Nat
  BY <1>3 DEF RangeType
<1>5. \A k \in n .. r.last : k \in r.first .. r.last
  BY <1>3, <1>4
<1> QED
  BY <1>2, <1>3, <1>4, <1>5 DEF RangeInv

(* An event the Controller takes for seen has a copy that arrived.         *)
LEMMA SeenHasArrived ==
  ASSUME TypeInv, RangeInv, NEW e \in EventType, hasEvent(e)
  PROVE  \E f \in arrived : f.sequence = e.sequence
<1>1. e.sequence \in Nat /\ through(ranges, e.sequence) # 0
  BY DEF hasEvent, EventType
<1>2. Holding(ranges, e.sequence) # {}
  BY <1>1 DEF through
<1>3. PICK r \in ranges : r.first <= e.sequence /\ e.sequence <= r.last
  BY <1>2 DEF Holding
<1>4. r.first \in Nat /\ r.last \in Nat
  BY DEF TypeInv, RangeType
<1>5. e.sequence \in r.first .. r.last
  BY <1>1, <1>3, <1>4
<1> QED
  BY <1>5 DEF RangeInv

LEMMA ObserveKeeps ==
  ASSUME IInv, observe
  PROVE  IInv'
<1>1. TypeInv /\ ClockInv /\ OrderInv /\ BoundaryInv /\ DeliveryInv /\ RangeInv
  BY DEF IInv
<1>2. PICK e \in transit :
        /\ transit' = transit \ {e}
        /\ arrived' = IF hasEvent(e) THEN arrived ELSE arrived \cup {e}
        /\ ranges' = add(ranges, e.sequence)
        /\ UNCHANGED <<now, clock, peer, message, truth>>
  BY DEF observe
<1>3. /\ e \in EventType /\ e.sequence \in Nat /\ e \in Events /\ peer.sequence \in Nat
      /\ now \in Nat /\ ranges \in SUBSET RangeType
  BY <1>1 DEF TypeInv, TypeOK, PeerType, EventType, Events
<1>4. e.sequence <= peer.sequence
  BY <1>1, <1>3 DEF OrderInv, BoundaryInv
<1>5. arrived \subseteq arrived' /\ arrived' \subseteq arrived \cup {e} /\ Events' \subseteq Events
  BY <1>2 DEF Events
<1>6. \E f \in arrived' : f.sequence = e.sequence
  <2>1. CASE hasEvent(e)
    BY <1>1, <1>3, <1>5, <2>1, SeenHasArrived
  <2>2. CASE ~hasEvent(e)
    BY <1>2, <2>2
  <2> QED
    BY <2>1, <2>2
<1>7. \A r \in ranges : 1 <= r.first /\ r.first <= r.last /\ r.last <= peer.sequence
  BY <1>1 DEF RangeInv
<1>8. ASSUME NEW r \in ranges'
      PROVE  /\ r \in RangeType /\ 1 <= r.first /\ r.first <= r.last /\ r.last <= peer.sequence
             /\ \A k \in r.first .. r.last :
                  k = e.sequence \/ \E s \in ranges : k \in s.first .. s.last
  <2>1. r \in add(ranges, e.sequence)
    BY <1>2
  <2> QED
    BY <1>3, <1>4, <1>7, <2>1, AddCovers
<1>9. RangeInv'
  <2>1. ASSUME NEW r \in ranges', NEW k \in r.first .. r.last
        PROVE  \E f \in arrived' : f.sequence = k
    <3>1. CASE k = e.sequence
      BY <1>6, <3>1
    <3>2. CASE \E s \in ranges : k \in s.first .. s.last
      BY <1>1, <1>5, <3>2 DEF RangeInv
    <3> QED
      BY <1>8, <3>1, <3>2
  <2> QED
    BY <1>2, <1>8, <2>1 DEF RangeInv
<1>10. TypeInv'
  BY <1>1, <1>2, <1>3, <1>5, <1>8 DEF TypeInv, TypeOK
<1>11. ClockInv'
  BY <1>1, <1>2, <1>5 DEF ClockInv
<1>12. Grows({}, {})
  BY <1>1, <1>2, <1>5, NothingNew
<1>13. OrderInv'
  BY <1>1, <1>12, OrderGrows
<1>14. BoundaryInv'
  <2>1. truth' \in TruthType /\ now <= now'
    BY <1>1, <1>2, <1>3 DEF TypeInv
  <2> QED
    BY <1>1, <1>2, <1>3, <1>12, <2>1, BoundaryGrows
<1>15. DeliveryInv'
  BY <1>1, <1>2, <1>12, DeliveryGrows
<1> QED
  BY <1>9, <1>10, <1>11, <1>13, <1>14, <1>15 DEF IInv

(* Every step keeps the invariant.                                         *)
LEMMA StepKeeps ==
  ASSUME IInv, [Next]_vars
  PROVE  IInv'
<1>1. CASE startMeasurement \/ checkpoint \/ stopMeasurement
  BY <1>1, StartKeeps, CheckpointKeeps, StopKeeps
<1>2. CASE deliver \/ duplicate
  BY <1>2, DeliverKeeps, DuplicateKeeps
<1>3. CASE seal \/ flush \/ exits
  BY <1>3, SealKeeps, FlushKeeps, ExitsKeeps
<1>4. CASE queueTermination \/ observe
  BY <1>4, TerminationKeeps, ObserveKeeps
<1>5. CASE synchronize \/ expires \/ publish \/ Tick \/ UNCHANGED vars
  BY <1>5, ClockKeeps
<1> QED
  BY <1>1, <1>2, <1>3, <1>4, <1>5 DEF Next

(* The inductive invariant holds of every reachable state.                 *)
THEOREM Inductive == Spec => []IInv
<1>1. Init => IInv
  BY InitKeeps
<1>2. IInv /\ [Next]_vars => IInv'
  BY StepKeeps
<1> QED
  BY <1>1, <1>2, PTL DEF Spec

(* Every variable of the session, of the log and of the history keeps its  *)
(* type: the queue of the Peer (telemetry.go, enqueueLocked) never exceeds *)
(* its size.                                                               *)
THEOREM TypeCorrect == Spec => []TypeOK
<1>1. IInv => TypeOK
  BY DEF IInv, TypeInv
<1> QED
  BY <1>1, Inductive, PTL

-----------------------------------------------------------------------------
(* What the Controller reads off the events.                               *)

(* The events it uses are of their types.                                  *)
LEMMA SessionFacts ==
  /\ session.starts = {e \in arrived : e.type = "start"}
  /\ session.proofs = {e \in arrived : e.type \in {"checkpoint", "stop"}}
  /\ session.stops = {e \in arrived : e.type = "stop"}
  /\ session.ends = {e \in arrived : e.type = "terminated"}
  /\ session.deliveries = {e \in arrived : e.type = "deliver"}
<1>1. /\ session.starts = Of({"start"}) /\ session.proofs = Of({"checkpoint", "stop"})
      /\ session.stops = Of({"stop"}) /\ session.ends = Of({"terminated"})
      /\ session.deliveries = Of({"deliver"})
  BY DEF session
<1> QED
  BY <1>1 DEF Of

LEMMA SessionNext ==
  /\ session'.starts = {e \in arrived' : e.type = "start"}
  /\ session'.proofs = {e \in arrived' : e.type \in {"checkpoint", "stop"}}
  /\ session'.stops = {e \in arrived' : e.type = "stop"}
  /\ session'.ends = {e \in arrived' : e.type = "terminated"}
  /\ session'.deliveries = {e \in arrived' : e.type = "deliver"}
<1>1. /\ session'.starts = Of({"start"})' /\ session'.proofs = Of({"checkpoint", "stop"})'
      /\ session'.stops = Of({"stop"})' /\ session'.ends = Of({"terminated"})'
      /\ session'.deliveries = Of({"deliver"})'
  BY DEF session
<1> QED
  BY <1>1 DEF Of

LEMMA EventFacts ==
  ASSUME TypeInv, OrderInv, NEW e \in Events
  PROVE  /\ e \in EventType /\ e.sequence \in Nat /\ e.at \in Nat
         /\ e.latency \in Int /\ e.bounded \in BOOLEAN
         /\ e.type \in {"start", "checkpoint", "stop", "deliver", "duplicate"} =>
              /\ e.type \in Observed /\ e.type # "terminated" /\ 1 <= e.sequence
              /\ 1 <= e.at /\ e.at <= peer.observedAt
<1>1. e \in EventType
  BY QueueMembers DEF TypeInv, PeerType, Events
<1>2. /\ e.sequence \in Nat /\ e.at \in Nat /\ e.latency \in Int /\ e.bounded \in BOOLEAN
      /\ peer.sequence \in Nat /\ peer.observedAt \in Nat
  BY <1>1 DEF EventType, TypeInv, PeerType
<1>3. ASSUME e.type \in Observed
      PROVE  e.type # "terminated" /\ 1 <= e.sequence /\ 1 <= e.at /\ e.at <= peer.observedAt
  <2>1. e.type # "terminated"
    BY <1>3 DEF Observed
  <2>2. e.sequence \in 1 .. peer.sequence /\ e.at \in 1 .. peer.observedAt
    BY <1>1, <1>3, <2>1 DEF OrderInv
  <2> QED
    BY <1>2, <2>1, <2>2
<1> QED
  BY <1>1, <1>2, <1>3 DEF Observed

(* The start and the stop, when they have arrived, are the only ones.      *)
LEMMA BoundaryFacts ==
  ASSUME TypeInv, OrderInv
  PROVE  /\ session.starts # {} => /\ start \in arrived /\ start.type = "start"
                                   /\ \A e \in arrived : e.type = "start" => e = start
         /\ session.stops # {} => /\ stop \in arrived /\ stop.type = "stop"
                                  /\ \A e \in arrived : e.type = "stop" => e = stop
<1>1. arrived \subseteq Events
  BY DEF Events
<1>2. /\ session.starts = {e \in arrived : e.type = "start"}
      /\ session.stops = {e \in arrived : e.type = "stop"}
  BY SessionFacts
<1>3. session.starts # {} => start \in session.starts
  BY DEF start
<1>4. session.stops # {} => stop \in session.stops
  BY DEF stop
<1> QED
  BY <1>1, <1>2, <1>3, <1>4 DEF OrderInv

(* The time of the latest proof.                                           *)
LEMMA LatestFacts ==
  ASSUME TypeInv, OrderInv, NEW P \in SUBSET session.proofs
  PROVE  /\ Latest(P) \in Nat /\ \A p \in P : p.at <= Latest(P)
         /\ Latest(P) # 0 => \E p \in P : p.at = Latest(P)
<1>1. ASSUME NEW p \in P PROVE p.at \in Nat /\ p.at <= peer.observedAt
  <2>1. p \in Events /\ p.type \in {"checkpoint", "stop"}
    BY SessionFacts DEF Events
  <2> QED
    BY <2>1, EventFacts
<1>2. CASE P = {}
  BY <1>2 DEF Latest
<1>3. CASE P # {}
  <2>1. PICK S : S = {p.at : p \in P}
    OBVIOUS
  <2>2. S \in SUBSET Nat /\ S # {} /\ (\A m \in S : m <= peer.observedAt) /\ peer.observedAt \in Nat
    BY <1>1, <1>3, <2>1 DEF TypeInv, PeerType
  <2>3. Max(S) \in S /\ \A m \in S : m <= Max(S)
    BY <2>2, MaxNumber
  <2>4. Latest(P) = Max(S)
    BY <1>3, <2>1 DEF Latest
  <2>5. \A p \in P : p.at \in S
    BY <2>1
  <2>6. \E p \in P : p.at = Max(S)
    BY <2>1, <2>3
  <2> QED
    BY <2>2, <2>3, <2>4, <2>5, <2>6
<1> QED
  BY <1>2, <1>3

(* The end: the first of the stop and the confirmed removals.              *)
LEMMA EndFacts ==
  ASSUME TypeInv, OrderInv, ended
  PROVE  /\ end \in Nat /\ \A e \in session.stops \cup terminations : end <= e.at
         /\ \E e \in session.stops \cup terminations : e.at = end
<1>1. PICK S : S = {e.at : e \in session.stops \cup terminations}
  OBVIOUS
<1>2. session.stops \cup terminations \subseteq Events
  BY SessionFacts DEF terminations, Events
<1>3. S \in SUBSET Nat /\ S # {}
  BY <1>1, <1>2, EventFacts DEF ended
<1>4. Min(S) \in S /\ \A m \in S : Min(S) <= m
  BY <1>3, MinTime
<1>5. end = Min(S)
  BY <1>1 DEF end
<1> QED
  BY <1>1, <1>3, <1>4, <1>5

(* What is read at one moment.                                             *)
Read ==
  /\ session.starts # {} => /\ start \in arrived /\ start.type = "start"
                            /\ \A e \in arrived : e.type = "start" => e = start
  /\ session.stops # {} => /\ stop \in arrived /\ stop.type = "stop"
                           /\ \A e \in arrived : e.type = "stop" => e = stop
  /\ aliveThrough \in Nat /\ \A p \in session.proofs : p.at <= aliveThrough
  /\ aliveThrough # 0 => \E p \in session.proofs : p.at = aliveThrough
  /\ completeUntil \in Nat
  /\ completeUntil # 0 => \E p \in proved(session.proofs) : p.at = completeUntil
  /\ ended => /\ end \in Nat /\ \A e \in session.stops \cup terminations : end <= e.at
              /\ \E e \in session.stops \cup terminations : e.at = end

LEMMA ReadFacts == IInv => Read
<1> SUFFICES ASSUME IInv PROVE Read
  OBVIOUS
<1>1. TypeInv /\ OrderInv
  BY DEF IInv
<1>2. session.proofs \in SUBSET session.proofs /\ proved(session.proofs) \in SUBSET session.proofs
  BY DEF proved
<1>3. /\ aliveThrough \in Nat /\ \A p \in session.proofs : p.at <= aliveThrough
      /\ aliveThrough # 0 => \E p \in session.proofs : p.at = aliveThrough
  BY <1>1, <1>2, LatestFacts DEF aliveThrough
<1>4. /\ completeUntil \in Nat
      /\ completeUntil # 0 => \E p \in proved(session.proofs) : p.at = completeUntil
  BY <1>1, <1>2, LatestFacts DEF completeUntil
<1> QED
  BY <1>1, <1>3, <1>4, BoundaryFacts, EndFacts DEF Read

LEMMA ReadNext == IInv' => Read'
BY ReadFacts, PTL

(* Between the start and a proof before which nothing is missing, every    *)
(* number is that of an event that has arrived.                            *)
LEMMA NothingMissing ==
  ASSUME IInv, NEW p \in session.proofs, p.sequence <= through(ranges, start.sequence),
         session.starts # {}, NEW n \in Nat, start.sequence <= n, n <= p.sequence
  PROVE  \E e \in arrived : e.sequence = n
<1>1. TypeInv /\ OrderInv /\ RangeInv
  BY DEF IInv
<1>2. start \in Events /\ start.sequence \in Nat
  BY <1>1, BoundaryFacts, EventFacts DEF Events
<1>3. p \in Events /\ p.type \in {"checkpoint", "stop"} /\ p.sequence \in Nat /\ 1 <= p.sequence
  <2>1. p \in Events /\ p.type \in {"checkpoint", "stop"}
    BY SessionFacts DEF Events
  <2> QED
    BY <1>1, <2>1, EventFacts
<1>4. through(ranges, start.sequence) # 0
  BY <1>3
<1>5. /\ through(ranges, start.sequence) \in Nat
      /\ \A k \in start.sequence .. through(ranges, start.sequence) :
           \E e \in arrived : e.sequence = k
  BY <1>1, <1>2, <1>4, ThroughCovers
<1>6. n \in start.sequence .. through(ranges, start.sequence)
  BY <1>2, <1>3, <1>5
<1> QED
  BY <1>5, <1>6

(* The delivery, as its event tells it whether or not it was sent.         *)
LEMMA DeliveryFacts ==
  ASSUME IInv, truth.got # None
  PROVE  /\ message.at \in Nat /\ message.at # None
         /\ \E d : /\ Delivery(d) /\ d.type = "deliver" /\ d.bounded = truth.bounded
                   /\ d.latency = d.at - message.at
                   /\ d.sequence \in Nat /\ 1 <= d.sequence /\ d.at \in Nat
<1>1. TypeInv /\ DeliveryInv
  BY DEF IInv
<1>2. /\ message.at \in Nat /\ message.at # None /\ peer.sequence \in Nat /\ peer.observedAt \in Nat
  BY <1>1 DEF TypeInv, TypeOK, PeerType, DeliveryInv
<1>3. PICK n \in 1 .. peer.sequence, at \in 1 .. peer.observedAt :
             Delivery(Event("deliver", n, at,
                            [latency |-> at - message.at, bounded |-> truth.bounded]))
  BY <1>1 DEF DeliveryInv
<1>4. PICK d : d = Event("deliver", n, at,
                         [latency |-> at - message.at, bounded |-> truth.bounded])
  OBVIOUS
<1>5. Delivery(d)
  BY <1>3, <1>4
<1>6. /\ d.type = "deliver" /\ d.bounded = truth.bounded /\ d.latency = d.at - message.at
      /\ d.sequence = n /\ d.at = at
  BY <1>4 DEF Event
<1>7. n \in Nat /\ 1 <= n /\ at \in Nat
  BY <1>2
<1> QED
  BY <1>2, <1>5, <1>6, <1>7

(* An event of a delivery that has arrived is that of the delivery.        *)
LEMMA ReceiptFacts ==
  ASSUME IInv, NEW d \in Events, d.type = "deliver"
  PROVE  /\ truth.got # None /\ Delivery(d) /\ d.bounded = truth.bounded
         /\ d.latency = d.at - message.at /\ d.at \in Nat /\ d.sequence \in Nat
         /\ message.at \in Nat
<1>1. truth.got # None
  BY DEF IInv, DeliveryInv
<1>2. message.at \in Nat
  BY <1>1, DeliveryFacts
<1>3. PICK c : /\ Delivery(c) /\ c.type = "deliver" /\ c.bounded = truth.bounded
               /\ c.latency = c.at - message.at
               /\ c.sequence \in Nat /\ 1 <= c.sequence /\ c.at \in Nat
  BY <1>1, DeliveryFacts
<1>4. d = c
  BY <1>3 DEF Delivery
<1> QED
  BY <1>1, <1>2, <1>3, <1>4

(* A delivery in time for all the error of the clock is not missed, when a *)
(* proof at the deadline or the stop of the session leaves nothing out.    *)
LEMMA NotMissed ==
  ASSUME IInv, ~onTime, ~invalid, session.starts # {},
         NEW p \in session.proofs, p.sequence <= through(ranges, start.sequence),
         truth.got # None, truth.got <= Deadline - Uncertainty,
         Deadline <= p.at \/ (p.type = "stop" /\ truth.got <= truth.end)
  PROVE  FALSE
<1>1. TypeInv /\ OrderInv /\ ClockInv /\ BoundaryInv
  BY DEF IInv
<1>2. message.at \in Nat
  BY DeliveryFacts
<1>3. PICK d : /\ Delivery(d) /\ d.type = "deliver" /\ d.bounded = truth.bounded
               /\ d.latency = d.at - message.at
               /\ d.sequence \in Nat /\ 1 <= d.sequence /\ d.at \in Nat
  BY DeliveryFacts
<1>4. /\ Window \in Nat /\ Uncertainty \in Nat /\ truth.got \in Nat /\ truth.end \in Nat
      /\ Deadline \in Nat
  BY <1>1, <1>2, WindowBounds DEF TypeInv, TruthType, Deadline
<1>5. d.at <= Deadline
  BY <1>3, <1>4 DEF Delivery
<1>6. p \in Events /\ p.type \in {"checkpoint", "stop"} /\ p.type \in Observed
      /\ p.sequence \in Nat /\ p.at \in Nat /\ p.type # "terminated"
  <2>1. p \in Events /\ p.type \in {"checkpoint", "stop"}
    BY SessionFacts DEF Events
  <2> QED
    BY <1>1, <2>1, EventFacts
<1>7. p.sequence # d.sequence
  BY <1>3, <1>6 DEF Delivery
<1>8. ~(p.sequence < d.sequence)
  <2> SUFFICES ASSUME p.sequence < d.sequence PROVE FALSE
    OBVIOUS
  <2>1. p.at < d.at
    BY <1>3, <1>6 DEF Delivery
  <2>2. p.type = "stop" => truth.end < truth.got
    BY <1>3, <1>6 DEF Delivery
  <2> QED
    BY <1>3, <1>4, <1>5, <1>6, <2>1, <2>2
<1>9. d.sequence <= p.sequence
  BY <1>3, <1>6, <1>7, <1>8
<1>10. start \in Events /\ start.type = "start" /\ start.sequence \in Nat
  BY <1>1, BoundaryFacts, EventFacts DEF Events
<1>11. start.sequence <= d.sequence
  BY <1>3, <1>10 DEF Delivery
<1>12. PICK e \in arrived : e.sequence = d.sequence
  BY <1>3, <1>9, <1>11, NothingMissing
<1>13. d \in arrived
  <2>1. e \in Events
    BY DEF Events
  <2>2. e.type # "terminated"
    BY <1>1, <1>3, <1>12, <2>1 DEF BoundaryInv
  <2>3. e = d
    BY <1>3, <1>12, <2>1, <2>2 DEF Delivery
  <2> QED
    BY <2>3
<1>14. d \in session.deliveries
  BY <1>3, <1>13, SessionFacts
<1>15. ~invalidReceipt(d) /\ lateReceipt(d)
  BY <1>14 DEF onTime, invalid
<1>16. IF d.bounded THEN lower(d) > Window ELSE d.at > Deadline
  BY <1>15 DEF lateReceipt
<1> QED
  BY <1>2, <1>3, <1>4, <1>5, <1>16 DEF lower, Deadline

-----------------------------------------------------------------------------
(* The verdicts are true.                                                  *)

(* What is said to be missed was not received in the window.               *)
LEMMA MissedIsMissed ==
  ASSUME IInv, "missed" \in {stableVerdict, initialVerdict},
         WithinWindow(-Uncertainty), WithinSession
  PROVE  FALSE
<1>1. /\ truth.got # None /\ truth.got <= Deadline - Uncertainty
      /\ (truth.end = None \/ truth.got <= truth.end)
  <2>1. truth.got # None /\ truth.got <= Deadline + (-Uncertainty)
    BY DEF WithinWindow
  <2>2. Deadline \in Int /\ Uncertainty \in Int
    BY WindowBounds, DeliveryFacts, <2>1 DEF Deadline
  <2> QED
    BY <2>1, <2>2 DEF WithinSession
<1>2. /\ evaluated /\ ~onTime /\ ~invalid
      /\ \/ ~(completeUntil < Deadline)
         \/ stopComplete
  <2>1. CASE stableVerdict = "missed"
    BY <2>1 DEF stableVerdict
  <2>2. CASE initialVerdict = "missed"
    <3>1. /\ stableVerdict \notin {"pending", "incomplete", "none", "availability-unknown"}
          /\ ~onTime /\ ~invalid /\ ~(departed /\ ~stopComplete)
          /\ ~(~departed /\ completeUntil < Deadline)
      BY <2>2 DEF initialVerdict
    <3>2. evaluated
      BY <3>1 DEF stableVerdict
    <3> QED
      BY <3>1, <3>2
  <2> QED
    BY <2>1, <2>2
<1>3. session.starts # {}
  BY <1>2 DEF evaluated, knownSession
<1>4. message.at \in Nat /\ Deadline \in Nat /\ Deadline # 0 /\ Window \in Nat \ {0}
  BY <1>1, DeliveryFacts, WindowBounds DEF Deadline
<1>5. CASE ~(completeUntil < Deadline)
  <2>1. Read
    BY ReadFacts
  <2>2. completeUntil \in Nat /\ completeUntil # 0 /\ Deadline <= completeUntil
    BY <1>4, <1>5, <2>1 DEF Read
  <2>3. PICK p \in proved(session.proofs) : p.at = completeUntil
    BY <2>1, <2>2 DEF Read
  <2>4. p \in session.proofs /\ p.sequence <= through(ranges, start.sequence)
    BY DEF proved
  <2>5. Deadline <= p.at
    BY <2>2, <2>3
  <2> QED
    BY <1>1, <1>2, <1>3, <2>4, <2>5, NotMissed
<1>6. CASE stopComplete
  <2>1. session.stops # {} /\ stop \in session.stops /\ stop.sequence <= through(ranges, start.sequence)
    BY <1>6 DEF stopComplete, proved
  <2>2. stop \in arrived /\ stop.type = "stop" /\ stop \in session.proofs
    BY <2>1, SessionFacts
  <2>3. truth.end # None
    <3>1. stop \in Events
      BY <2>2 DEF Events
    <3> QED
      BY <2>2, <3>1 DEF IInv, BoundaryInv
  <2>4. truth.got <= truth.end
    BY <1>1, <2>3
  <2> QED
    BY <1>1, <1>2, <1>3, <2>1, <2>2, <2>4, NotMissed
<1> QED
  BY <1>2, <1>5, <1>6

(* A proof is not later than the session was alive, the stop and a         *)
(* confirmed removal not earlier.                                          *)
LEMMA AliveFacts ==
  ASSUME IInv
  PROVE  /\ truth.end = None \/ aliveThrough <= truth.end + Uncertainty
         /\ ended => truth.end # None /\ truth.end <= end + Uncertainty
<1>1. TypeInv /\ OrderInv /\ ClockInv /\ BoundaryInv /\ Read
  BY ReadFacts DEF IInv
<1>2. truth.end \in Nat /\ Uncertainty \in Nat
  BY <1>1, WindowBounds DEF TypeInv, TruthType
<1>3. truth.end = None \/ aliveThrough <= truth.end + Uncertainty
  <2>1. CASE aliveThrough = 0
    BY <1>2, <2>1
  <2>2. CASE aliveThrough # 0
    <3>1. PICK p \in session.proofs : p.at = aliveThrough
      BY <1>1, <2>2 DEF Read
    <3>2. p \in Events /\ p.type \in {"checkpoint", "stop"}
      BY SessionFacts DEF Events
    <3> QED
      BY <1>1, <3>1, <3>2 DEF BoundaryInv
  <2> QED
    BY <2>1, <2>2
<1>4. ASSUME ended PROVE truth.end # None /\ truth.end <= end + Uncertainty
  <2>1. PICK e \in session.stops \cup terminations : e.at = end
    BY <1>1, <1>4 DEF Read
  <2>2. e \in Events /\ (e.type = "stop" \/ e.type = "terminated") /\ end \in Nat
    BY <1>1, <1>4, SessionFacts DEF terminations, Events, Read
  <2>3. CASE e.type = "stop"
    BY <1>1, <2>1, <2>2, <2>3 DEF BoundaryInv
  <2>4. CASE e.type = "terminated"
    <3>1. peer.state = "gone" /\ truth.end <= e.at
      BY <1>1, <2>2, <2>4 DEF BoundaryInv
    <3>2. truth.end # None
      BY <1>1, <3>1 DEF ClockInv
    <3> QED
      BY <1>2, <2>1, <2>2, <3>1, <3>2
  <2> QED
    BY <2>2, <2>3, <2>4
<1> QED
  BY <1>3, <1>4

LEMMA MissedWasMeasured ==
  ASSUME IInv, stableVerdict = "missed"
  PROVE  /\ truth.start <= message.at + Uncertainty
         /\ truth.end = None \/ truth.end >= Deadline - Uncertainty
<1>1. TypeInv /\ OrderInv /\ BoundaryInv /\ Read
  BY ReadFacts DEF IInv
<1>2. evaluated /\ active /\ ~(aliveThrough < Deadline)
  BY DEF stableVerdict
<1>3. /\ message.at \in Nat /\ Uncertainty \in Nat /\ Window \in Nat /\ truth.start \in Nat
      /\ truth.end \in Nat /\ Deadline \in Nat /\ aliveThrough \in Nat
  BY <1>1, WindowBounds DEF TypeInv, TypeOK, TruthType, Deadline, Read
<1>4. start \in Events /\ start.type = "start" /\ start.at \in Nat
  <2>1. session.starts # {}
    BY <1>2 DEF evaluated, knownSession
  <2>2. start \in Events /\ start.type = "start"
    BY <1>1, <2>1, BoundaryFacts DEF Events
  <2> QED
    BY <1>1, <2>2, EventFacts
<1>5. truth.start <= start.at + Uncertainty /\ start.at <= message.at
  BY <1>1, <1>2, <1>4 DEF BoundaryInv, active
<1>6. truth.end = None \/ aliveThrough <= truth.end + Uncertainty
  BY AliveFacts
<1>7. truth.start <= message.at + Uncertainty
  BY <1>3, <1>4, <1>5
<1>8. truth.end = None \/ truth.end >= Deadline - Uncertainty
  BY <1>2, <1>3, <1>6
<1> QED
  BY <1>7, <1>8

LEMMA OnTimeWasReceived ==
  ASSUME IInv, onTime
  PROVE  WithinWindow(IF truth.bounded THEN 0 ELSE Uncertainty)
<1>1. PICK d \in session.deliveries : ~invalidReceipt(d) /\ ~lateReceipt(d)
  BY DEF onTime
<1>2. d \in Events /\ d.type = "deliver"
  BY SessionFacts DEF Events
<1>3. /\ truth.got # None /\ Delivery(d) /\ d.bounded = truth.bounded
      /\ d.latency = d.at - message.at /\ d.at \in Nat /\ d.sequence \in Nat
      /\ message.at \in Nat
  BY <1>2, ReceiptFacts
<1>4. ~(IF d.bounded THEN lower(d) > Window ELSE d.at > Deadline)
  BY <1>1 DEF lateReceipt
<1>5. ~(d.bounded /\ (upper(d) < 0 \/ (upper(d) > Window /\ lower(d) <= Window)))
  BY <1>1 DEF invalidReceipt
<1>6. /\ truth.got \in Nat /\ Window \in Nat /\ Uncertainty \in Nat
      /\ truth.got <= d.at + Uncertainty /\ Deadline = message.at + Window
      /\ truth.bounded \in BOOLEAN
  BY <1>3, WindowBounds DEF IInv, TypeInv, TruthType, Delivery, Deadline
<1>7. upper(d) = d.at - message.at + Uncertainty /\ lower(d) = d.at - message.at - Uncertainty
  BY <1>3 DEF upper, lower
<1>8. CASE truth.bounded
  <2>1. lower(d) <= Window
    BY <1>3, <1>4, <1>6, <1>7, <1>8
  <2>2. upper(d) <= Window
    BY <1>3, <1>5, <1>6, <1>7, <1>8, <2>1
  <2>3. truth.got <= Deadline + 0
    BY <1>3, <1>6, <1>7, <2>2
  <2> QED
    BY <1>3, <1>8, <2>3 DEF WithinWindow
<1>9. CASE ~truth.bounded
  <2>1. ~(d.at > Deadline)
    BY <1>3, <1>4, <1>9
  <2>2. truth.got <= Deadline + Uncertainty
    BY <1>3, <1>6, <2>1
  <2> QED
    BY <1>3, <1>9, <2>2 DEF WithinWindow
<1> QED
  BY <1>8, <1>9

LEMMA DepartedHadEnded ==
  ASSUME IInv, departed
  PROVE  truth.end # None /\ truth.end <= Deadline + Uncertainty
<1>1. ended /\ end < Deadline /\ TypeInv /\ Read
  BY ReadFacts DEF departed, IInv
<1>2. truth.end # None /\ truth.end <= end + Uncertainty
  BY <1>1, AliveFacts
<1>3. message.at \in Nat /\ Window \in Nat /\ Uncertainty \in Nat /\ truth.end \in Nat /\ end \in Nat
  BY <1>1, WindowBounds DEF TypeInv, TypeOK, TruthType, Read
<1> QED
  BY <1>1, <1>2, <1>3 DEF Deadline

(* What a summary says of a receiver is what happened to it (runMetrics,   *)
(* run_metrics_window.go): missed, on time and departed receivers were,    *)
(* up to the uncertainty of the clock, whatever of the log was dropped,    *)
(* lost or is still on its way.                                            *)
THEOREM TrueVerdicts == Spec => []VerdictsAreTrue
<1>1. ASSUME IInv PROVE VerdictsAreTrue
  <2>1. "missed" \in {stableVerdict, initialVerdict} =>
          ~(WithinWindow(-Uncertainty) /\ WithinSession)
    BY <1>1, MissedIsMissed
  <2>2. stableVerdict = "missed" =>
          /\ truth.start <= message.at + Uncertainty
          /\ truth.end = None \/ truth.end >= Deadline - Uncertainty
    BY <1>1, MissedWasMeasured
  <2>3. (stableVerdict = "on-time" \/ initialVerdict = "eligible") =>
          WithinWindow(IF truth.bounded THEN 0 ELSE Uncertainty)
    <3>1. stableVerdict = "on-time" => onTime
      BY DEF stableVerdict
    <3>2. initialVerdict = "eligible" => onTime
      BY DEF initialVerdict
    <3> QED
      BY <1>1, <3>1, <3>2, OnTimeWasReceived
  <2>4. stableVerdict = "departed" => truth.end # None /\ truth.end <= Deadline + Uncertainty
    <3>1. stableVerdict = "departed" => departed
      BY DEF stableVerdict
    <3> QED
      BY <1>1, <3>1, DepartedHadEnded
  <2> QED
    BY <2>1, <2>2, <2>3, <2>4 DEF VerdictsAreTrue
<1>2. IInv => VerdictsAreTrue
  BY <1>1
<1> QED
  BY <1>2, Inductive, PTL

-----------------------------------------------------------------------------
(* The verdicts are final.                                                 *)

(* A step that brings the Controller no event says the same as before of a *)
(* message that is due.                                                    *)
LEMMA SameLogSameVerdict ==
  ASSUME arrived' = arrived, ranges' = ranges, message' = message,
         now \in Nat, now' \in Nat, now <= now', Deadline \in Int,
         stableVerdict # "pending"
  PROVE  stableVerdict' = stableVerdict
<1>1. session' = session
  BY DEF session, Of
<1>2. start' = start /\ stop' = stop /\ aliveThrough' = aliveThrough
  BY <1>1 DEF start, stop, aliveThrough
<1>4. proved(session.proofs)' = proved(session.proofs)
  BY <1>1, <1>2 DEF proved, through, Holding
<1>5. completeUntil' = completeUntil
  BY <1>4 DEF completeUntil, Latest
<1>6. terminations' = terminations
  BY <1>1, <1>2 DEF terminations
<1>7. ended' = ended /\ end' = end
  BY <1>1, <1>6 DEF ended, end
<1>8. knownSession' = knownSession
  BY <1>1, <1>2 DEF knownSession
<1>9. evaluated' = evaluated
  BY <1>2, <1>7, <1>8 DEF evaluated
<1>10. Deadline' = Deadline
  BY DEF Deadline
<1>11. active' = active /\ departed' = departed
  BY <1>2, <1>7, <1>10 DEF active, departed
<1>12. \A d : invalidReceipt(d)' = invalidReceipt(d)
  BY <1>1, <1>2, <1>7 DEF invalidReceipt, Misplaced, upper, lower
<1>13. \A d : lateReceipt(d)' = lateReceipt(d)
  BY <1>10, <1>12 DEF lateReceipt, lower
<1>14. onTime' = onTime /\ invalid' = invalid
  BY <1>1, <1>12, <1>13 DEF onTime, invalid
<1>15. message.at # None /\ ~(now < Deadline)
  BY DEF stableVerdict
<1>16. ~(now' < Deadline)
  BY <1>15
<1> QED
  BY <1>2, <1>5, <1>9, <1>10, <1>11, <1>14, <1>15, <1>16 DEF stableVerdict

(* The verdicts that are kept, by what they were concluded from.           *)
LEMMA VerdictFacts ==
  ASSUME stableVerdict \in {"on-time", "departed", "missed"}
  PROVE  /\ message.at # None /\ ~(now < Deadline) /\ evaluated /\ active
         /\ ~(aliveThrough < message.at)
         /\ stableVerdict = "departed" => departed
         /\ stableVerdict # "departed" => ~departed /\ ~(aliveThrough < Deadline)
         /\ stableVerdict = "on-time" => onTime
         /\ stableVerdict = "missed" => ~onTime /\ ~invalid /\ ~(completeUntil < Deadline)
BY DEF stableVerdict

(* An event that is observed only adds to what was read.                   *)
LEMMA EvidenceGrows ==
  ASSUME IInv, IInv', observe, evaluated, evaluated'
  PROVE  /\ now' = now /\ message' = message /\ Deadline' = Deadline
         /\ arrived \subseteq arrived' /\ arrived' \subseteq Events
         /\ session.starts # {} /\ start' = start /\ start \in arrived /\ start.type = "start"
         /\ session.stops # {} => stop' = stop /\ session'.stops # {}
         /\ session.stops \subseteq session'.stops /\ terminations \subseteq terminations'
         /\ session.deliveries \subseteq session'.deliveries
         /\ aliveThrough \in Nat /\ aliveThrough' \in Nat /\ aliveThrough <= aliveThrough'
         /\ ended' => end' \in Nat /\ aliveThrough' <= end'
         /\ ended => ended' /\ end \in Nat /\ end' <= end
<1>1. PICK e \in transit :
        /\ transit' = transit \ {e}
        /\ arrived' = IF hasEvent(e) THEN arrived ELSE arrived \cup {e}
        /\ UNCHANGED <<now, clock, peer, message, truth>>
  BY DEF observe
<1>2. now' = now /\ message' = message /\ Deadline' = Deadline
  BY <1>1 DEF Deadline
<1>3. arrived \subseteq arrived' /\ arrived' \subseteq Events
  BY <1>1 DEF Events
<1>4. Read /\ Read'
  BY ReadFacts, ReadNext
<1>5. /\ session.starts = {f \in arrived : f.type = "start"}
      /\ session.proofs = {f \in arrived : f.type \in {"checkpoint", "stop"}}
      /\ session.stops = {f \in arrived : f.type = "stop"}
      /\ session.ends = {f \in arrived : f.type = "terminated"}
      /\ session.deliveries = {f \in arrived : f.type = "deliver"}
  BY SessionFacts
<1>6. /\ session'.starts = {f \in arrived' : f.type = "start"}
      /\ session'.proofs = {f \in arrived' : f.type \in {"checkpoint", "stop"}}
      /\ session'.stops = {f \in arrived' : f.type = "stop"}
      /\ session'.ends = {f \in arrived' : f.type = "terminated"}
      /\ session'.deliveries = {f \in arrived' : f.type = "deliver"}
  BY SessionNext
<1>7. /\ session.starts \subseteq session'.starts /\ session.stops \subseteq session'.stops
      /\ session.proofs \subseteq session'.proofs /\ session.ends \subseteq session'.ends
      /\ session.deliveries \subseteq session'.deliveries
  BY <1>3, <1>5, <1>6
<1>8. session.starts # {}
  BY DEF evaluated, knownSession
<1>9. start' = start /\ start \in arrived /\ start.type = "start"
  <2>1. start \in arrived /\ start.type = "start"
    BY <1>4, <1>8 DEF Read
  <2>2. \A f \in arrived' : f.type = "start" => f = start'
    BY <1>4, <1>7, <1>8 DEF Read
  <2> QED
    BY <1>3, <2>1, <2>2
<1>10. session.stops # {} => stop' = stop /\ session'.stops # {}
  <2> SUFFICES ASSUME session.stops # {} PROVE stop' = stop /\ session'.stops # {}
    OBVIOUS
  <2>1. stop \in arrived /\ stop.type = "stop"
    BY <1>4 DEF Read
  <2>2. \A f \in arrived' : f.type = "stop" => f = stop'
    BY <1>4, <1>7 DEF Read
  <2> QED
    BY <1>3, <1>7, <2>1, <2>2
<1>11. terminations \subseteq terminations'
  BY <1>7, <1>9 DEF terminations
<1>12. aliveThrough \in Nat /\ aliveThrough' \in Nat /\ aliveThrough <= aliveThrough'
  <2>1. aliveThrough \in Nat /\ aliveThrough' \in Nat
    BY <1>4 DEF Read
  <2>2. CASE aliveThrough = 0
    BY <2>1, <2>2
  <2>3. CASE aliveThrough # 0
    <3>1. PICK p \in session.proofs : p.at = aliveThrough
      BY <1>4, <2>3 DEF Read
    <3>2. p.at <= aliveThrough'
      BY <1>4, <1>7 DEF Read
    <3> QED
      BY <2>1, <3>1, <3>2
  <2> QED
    BY <2>2, <2>3
<1>13. ended' => end' \in Nat /\ aliveThrough' <= end'
  BY <1>4 DEF Read, evaluated
<1>14. ended => ended' /\ end \in Nat /\ end' <= end
  <2> SUFFICES ASSUME ended PROVE ended' /\ end \in Nat /\ end' <= end
    OBVIOUS
  <2>1. ended'
    BY <1>7, <1>11 DEF ended
  <2>2. PICK f \in session.stops \cup terminations : f.at = end
    BY <1>4 DEF Read
  <2>3. f \in session'.stops \cup terminations'
    BY <1>7, <1>11
  <2>4. end' <= f.at
    BY <1>4, <2>1, <2>3 DEF Read
  <2> QED
    BY <1>4, <2>1, <2>2, <2>4 DEF Read
<1> QED
  BY <1>2, <1>3, <1>7, <1>8, <1>9, <1>10, <1>11, <1>12, <1>13, <1>14

(* The session stays open at the publication.                              *)
LEMMA ActiveStays ==
  ASSUME IInv, IInv', observe, evaluated', stableVerdict \in {"on-time", "departed", "missed"}
  PROVE  active'
<1>1. /\ evaluated /\ active /\ ~(aliveThrough < message.at) /\ message.at # None
      /\ stableVerdict = "departed" => departed
      /\ stableVerdict # "departed" => ~(aliveThrough < Deadline)
  BY VerdictFacts
<1>2. /\ message' = message /\ start' = start /\ start \in arrived
      /\ arrived \subseteq arrived' /\ arrived' \subseteq Events
      /\ aliveThrough \in Nat /\ aliveThrough' \in Nat /\ aliveThrough <= aliveThrough'
      /\ ended' => end' \in Nat /\ aliveThrough' <= end'
  BY <1>1, EvidenceGrows
<1>3. message.at \in Nat /\ Window \in Nat \ {0}
  BY WindowBounds DEF IInv, TypeInv, TypeOK
<1>4. start.at <= message.at /\ (ended => end > message.at)
  BY <1>1 DEF active
<1>5. ASSUME ended' PROVE end' > message.at
  <2>1. CASE stableVerdict # "departed"
    <3>1. Deadline <= aliveThrough /\ Deadline = message.at + Window
      BY <1>1, <1>2, <1>3, <2>1 DEF Deadline
    <3> QED
      BY <1>2, <1>3, <1>5, <3>1
  <2>2. CASE stableVerdict = "departed"
    <3>1. ended /\ end > message.at /\ Read /\ Read' /\ end \in Nat
      <4>1. ended /\ Read /\ Read'
        BY <1>1, <2>2, ReadFacts, ReadNext DEF departed
      <4> QED
        BY <1>4, <4>1 DEF Read
    <3>2. PICK e \in session'.stops \cup terminations' : e.at = end'
      BY <1>5, <3>1 DEF Read
    <3>3. e \in arrived' /\ (e.type = "stop" \/ (e.type = "terminated" /\ e.at >= start.at))
      <4>1. /\ session'.stops = {f \in arrived' : f.type = "stop"}
            /\ session'.ends = {f \in arrived' : f.type = "terminated"}
        BY SessionNext
      <4> QED
        BY <1>2, <3>2, <4>1 DEF terminations
    <3>4. e \in Events /\ TypeInv /\ OrderInv
      BY <1>2, <3>3 DEF IInv
    <3>5. CASE e \in arrived
      <4>1. e \in session.stops \cup terminations
        BY <3>3, <3>5, SessionFacts DEF terminations
      <4>2. end <= e.at
        BY <3>1, <4>1 DEF Read
      <4> QED
        BY <1>2, <1>3, <1>5, <3>1, <3>2, <4>2
    <3>6. CASE e \notin arrived /\ e.type = "stop"
      <4>1. aliveThrough # 0
        BY <1>1, <1>2, <1>3 DEF None
      <4>2. PICK p \in session.proofs : p.at = aliveThrough
        BY <3>1, <4>1 DEF Read
      <4>3. p \in arrived /\ p.type \in {"checkpoint", "stop"} /\ p # e
        BY <3>6, SessionFacts
      <4>4. p \in Events
        BY <4>3 DEF Events
      <4>5. /\ p.sequence \in Nat /\ p.type \in Observed /\ p.type # "terminated"
            /\ e.sequence \in Nat /\ e.type \in Observed /\ e.type # "terminated"
            /\ e.at \in Nat /\ p.at \in Nat
        BY <3>4, <3>6, <4>3, <4>4, EventFacts
      <4>6. p.sequence <= e.sequence
        <5>1. /\ session'.stops = {f \in arrived' : f.type = "stop"}
              /\ session'.proofs = {f \in arrived' : f.type \in {"checkpoint", "stop"}}
          BY SessionNext
        <5>2. session'.stops # {} /\ p \in session'.proofs
          BY <1>2, <3>3, <3>6, <4>3, <5>1
        <5>3. e = stop'
          BY <3>1, <3>3, <3>6, <5>2 DEF Read
        <5> QED
          BY <5>2, <5>3 DEF evaluated, knownSession
      <4>7. p.sequence # e.sequence
        BY <3>4, <4>3, <4>4, <4>5 DEF OrderInv
      <4>8. p.at < e.at
        BY <3>4, <4>4, <4>5, <4>6, <4>7 DEF OrderInv
      <4> QED
        BY <1>1, <1>2, <1>3, <3>2, <4>2, <4>5, <4>8
    <3>7. CASE e \notin arrived /\ e.type = "terminated"
      <4>1. PICK f \in session.stops \cup terminations : f.at = end
        BY <3>1 DEF Read
      <4>2. f \in arrived /\ (f.type = "stop" \/ f.type = "terminated")
        BY <4>1, SessionFacts DEF terminations
      <4>3. f \in Events
        BY <4>2 DEF Events
      <4>4. f.type # "terminated"
        BY <3>4, <3>7, <4>2, <4>3 DEF OrderInv
      <4>5. f \in session.proofs
        BY <4>2, <4>4, SessionFacts
      <4>6. f.at <= aliveThrough
        BY <3>1, <4>5 DEF Read
      <4> QED
        BY <1>2, <1>3, <1>5, <3>1, <4>1, <4>6
    <3> QED
      BY <3>3, <3>5, <3>6, <3>7
  <2> QED
    BY <2>1, <2>2
<1> QED
  BY <1>2, <1>4, <1>5 DEF active

(* A receiver that had departed has.                                       *)
LEMMA DepartedStays ==
  ASSUME IInv, IInv', observe, stableVerdict = "departed"
  PROVE  stableVerdict' \in {"departed", "incomplete"}
<1>1. /\ evaluated /\ ~(aliveThrough < message.at) /\ message.at # None /\ departed
      /\ ~(now < Deadline)
  BY VerdictFacts
<1>2. CASE ~evaluated'
  <2>1. message'.at # None /\ ~(now' < Deadline')
    <3>1. message' = message /\ now' = now /\ Deadline' = Deadline
      BY DEF observe, Deadline
    <3> QED
      BY <1>1, <3>1
  <2> QED
    BY <1>2, <2>1 DEF stableVerdict
<1>3. CASE evaluated'
  <2>1. /\ now' = now /\ message' = message /\ Deadline' = Deadline
        /\ aliveThrough \in Nat /\ aliveThrough' \in Nat /\ aliveThrough <= aliveThrough'
        /\ ended' => end' \in Nat
        /\ ended => ended' /\ end \in Nat /\ end' <= end
    BY <1>1, <1>3, EvidenceGrows
  <2>2. message.at \in Nat /\ Window \in Nat /\ Deadline = message.at + Window
    BY WindowBounds DEF IInv, TypeInv, TypeOK, Deadline
  <2>3. ended /\ end < Deadline
    BY <1>1 DEF departed
  <2>4. ended' /\ end' < Deadline'
    BY <2>1, <2>2, <2>3
  <2>5. departed'
    BY <2>4 DEF departed
  <2>6. active'
    BY <1>3, ActiveStays
  <2>7. ~(aliveThrough' < message'.at) /\ message'.at # None /\ ~(now' < Deadline')
    BY <1>1, <2>1, <2>2
  <2> QED
    BY <1>3, <2>5, <2>6, <2>7 DEF stableVerdict
<1> QED
  BY <1>2, <1>3

(* A session that was alive at the deadline was.                           *)
LEMMA AliveStays ==
  ASSUME IInv, IInv', observe, evaluated', stableVerdict \in {"on-time", "missed"}
  PROVE  /\ message'.at # None /\ ~(now' < Deadline') /\ active'
         /\ ~(aliveThrough' < message'.at) /\ ~departed' /\ ~(aliveThrough' < Deadline')
<1>1. /\ evaluated /\ message.at # None /\ ~(now < Deadline) /\ ~(aliveThrough < Deadline)
  BY VerdictFacts
<1>2. /\ now' = now /\ message' = message /\ Deadline' = Deadline
      /\ aliveThrough \in Nat /\ aliveThrough' \in Nat /\ aliveThrough <= aliveThrough'
      /\ ended' => end' \in Nat /\ aliveThrough' <= end'
  BY <1>1, EvidenceGrows
<1>3. message.at \in Nat /\ Window \in Nat /\ Deadline = message.at + Window
  BY WindowBounds DEF IInv, TypeInv, TypeOK, Deadline
<1>4. ~(aliveThrough' < Deadline') /\ ~(aliveThrough' < message'.at)
  BY <1>1, <1>2, <1>3
<1>5. ~departed'
  <2>1. ended' => ~(end' < Deadline')
    BY <1>1, <1>2, <1>3
  <2> QED
    BY <2>1 DEF departed
<1>6. active'
  BY ActiveStays
<1> QED
  BY <1>1, <1>2, <1>4, <1>5, <1>6

(* A receipt in time stays valid.                                          *)
LEMMA OnTimeStays ==
  ASSUME IInv, IInv', observe, stableVerdict = "on-time"
  PROVE  stableVerdict' \in {"on-time", "incomplete"}
<1>1. evaluated /\ onTime /\ ~(aliveThrough < Deadline) /\ message.at # None
  BY VerdictFacts
<1>2. message'.at # None /\ ~(now' < Deadline')
  <2>1. message' = message /\ now' = now /\ Deadline' = Deadline /\ ~(now < Deadline)
    BY VerdictFacts DEF observe, Deadline
  <2> QED
    BY <1>1, <2>1
<1>3. CASE ~evaluated'
  BY <1>2, <1>3 DEF stableVerdict
<1>4. CASE evaluated'
  <2>1. /\ message' = message /\ Deadline' = Deadline
        /\ arrived \subseteq arrived' /\ arrived' \subseteq Events /\ start' = start
        /\ session.stops # {} => stop' = stop /\ session'.stops # {}
        /\ session.deliveries \subseteq session'.deliveries
        /\ aliveThrough \in Nat /\ aliveThrough' \in Nat /\ aliveThrough <= aliveThrough'
        /\ ended' => end' \in Nat /\ aliveThrough' <= end'
    BY <1>1, <1>4, EvidenceGrows
  <2>2. PICK d \in session.deliveries : ~invalidReceipt(d) /\ ~lateReceipt(d)
    BY <1>1 DEF onTime
  <2>3. d \in Events /\ d.type = "deliver"
    BY SessionFacts DEF Events
  <2>4. /\ d.latency = d.at - message.at /\ d.at \in Nat /\ d.sequence \in Nat
        /\ message.at \in Nat /\ d.bounded \in BOOLEAN
    <3>1. TypeInv /\ OrderInv
      BY DEF IInv
    <3> QED
      BY <2>3, <3>1, ReceiptFacts, EventFacts
  <2>5. Window \in Nat /\ Uncertainty \in Nat /\ Deadline = message.at + Window
    BY WindowBounds DEF Deadline
  <2>6. ~(IF d.bounded THEN lower(d) > Window ELSE d.at > Deadline)
    BY <2>2 DEF lateReceipt
  <2>7. /\ ~Misplaced(d)
        /\ ~(d.bounded /\ (upper(d) < 0 \/ (upper(d) > Window /\ lower(d) <= Window)))
        /\ ~(~d.bounded /\ d.latency < 0)
    BY <2>2 DEF invalidReceipt
  <2>8. d.at <= Deadline
    <3>1. upper(d) = d.at - message.at + Uncertainty /\ lower(d) = d.at - message.at - Uncertainty
      BY <2>4 DEF upper, lower
    <3>2. CASE d.bounded
      <4>1. lower(d) <= Window
        BY <2>4, <2>5, <2>6, <3>1, <3>2
      <4>2. upper(d) <= Window
        BY <2>4, <2>5, <2>7, <3>1, <3>2, <4>1
      <4> QED
        BY <2>4, <2>5, <3>1, <4>2
    <3>3. CASE ~d.bounded
      BY <2>4, <2>5, <2>6, <3>3
    <3> QED
      BY <3>2, <3>3
  <2>9. Deadline <= aliveThrough'
    BY <1>1, <2>1, <2>4, <2>5
  <2>10. ~(ended' /\ d.at > end')
    BY <2>1, <2>4, <2>5, <2>8, <2>9
  <2>11. ASSUME session'.stops # {}
         PROVE  ~(d.at > stop'.at \/ d.sequence > stop'.sequence)
    <3>1. CASE session.stops # {}
      <4>1. stop' = stop
        BY <2>1, <3>1
      <4> QED
        BY <2>7, <3>1, <4>1 DEF Misplaced
    <3>2. CASE session.stops = {}
      <4>1. stop' \in session'.stops
        BY <2>11 DEF stop
      <4>2. ended' /\ Read'
        BY <2>11, ReadNext DEF ended
      <4>3. end' <= stop'.at
        BY <4>1, <4>2 DEF Read
      <4>4. stop' \in arrived' /\ stop'.type = "stop"
        BY <4>1, SessionNext
      <4>5. stop' \in Events
        BY <2>1, <4>4
      <4>6. TypeInv /\ OrderInv
        BY DEF IInv
      <4>7. stop'.at \in Nat /\ stop'.sequence \in Nat /\ stop'.type \in Observed
        BY <4>4, <4>5, <4>6, EventFacts
      <4>8. d.type \in Observed
        BY <2>3 DEF Observed
      <4>9. d.at <= stop'.at
        BY <2>1, <2>4, <2>5, <2>8, <2>9, <4>2, <4>3, <4>7
      <4>10. ~(d.sequence > stop'.sequence)
        <5> SUFFICES ASSUME stop'.sequence < d.sequence PROVE FALSE
          BY <2>4, <4>7
        <5>1. stop'.at < d.at
          BY <2>3, <4>5, <4>6, <4>7, <4>8 DEF OrderInv
        <5> QED
          BY <2>4, <4>7, <4>9, <5>1
      <4> QED
        BY <2>4, <4>7, <4>9, <4>10
    <3> QED
      BY <3>1, <3>2
  <2>12. ~Misplaced(d)'
    BY <2>1, <2>7, <2>10, <2>11 DEF Misplaced
  <2>13. upper(d)' = upper(d) /\ lower(d)' = lower(d)
    BY DEF upper, lower
  <2>14. ~invalidReceipt(d)'
    BY <2>7, <2>12, <2>13 DEF invalidReceipt
  <2>15. ~lateReceipt(d)'
    BY <2>1, <2>6, <2>13 DEF lateReceipt
  <2>16. onTime'
    BY <2>1, <2>14, <2>15 DEF onTime
  <2>17. /\ active' /\ ~(aliveThrough' < message'.at) /\ ~departed'
         /\ ~(aliveThrough' < Deadline')
    BY <1>4, AliveStays
  <2> QED
    BY <1>2, <1>4, <2>16, <2>17 DEF stableVerdict
<1> QED
  BY <1>3, <1>4

(* A delivery whose event comes late is not one in the window.             *)
LEMMA MissedStays ==
  ASSUME IInv, IInv', observe, stableVerdict = "missed"
  PROVE  stableVerdict' \in {"missed", "unknown", "incomplete"}
<1>1. evaluated /\ ~onTime /\ ~invalid /\ ~(completeUntil < Deadline) /\ message.at # None
  BY VerdictFacts
<1>2. message'.at # None /\ ~(now' < Deadline')
  <2>1. message' = message /\ now' = now /\ Deadline' = Deadline /\ ~(now < Deadline)
    BY VerdictFacts DEF observe, Deadline
  <2> QED
    BY <1>1, <2>1
<1>3. CASE ~evaluated'
  BY <1>2, <1>3 DEF stableVerdict
<1>4. CASE evaluated'
  <2>1. /\ message' = message /\ Deadline' = Deadline
        /\ arrived \subseteq arrived' /\ arrived' \subseteq Events
        /\ session.starts # {} /\ start' = start /\ start \in arrived /\ start.type = "start"
    BY <1>1, <1>4, EvidenceGrows
  <2>2. TypeInv /\ OrderInv /\ BoundaryInv /\ Read
    BY ReadFacts DEF IInv
  <2>3. ~onTime'
    <3> SUFFICES ASSUME onTime' PROVE FALSE
      OBVIOUS
    <3>1. PICK d \in session'.deliveries : ~invalidReceipt(d)' /\ ~lateReceipt(d)'
      BY DEF onTime
    <3>2. d \in arrived' /\ d \in Events /\ d.type = "deliver"
      BY <2>1, SessionNext
    <3>3. /\ Delivery(d) /\ d.latency = d.at - message.at /\ d.at \in Nat /\ d.sequence \in Nat
          /\ message.at \in Nat /\ d.bounded \in BOOLEAN
      BY <2>2, <3>2, ReceiptFacts, EventFacts
    <3>4. upper(d)' = upper(d) /\ lower(d)' = lower(d)
      BY DEF upper, lower
    <3>5. ~(IF d.bounded THEN lower(d) > Window ELSE d.at > Deadline)
      BY <2>1, <3>1, <3>4 DEF lateReceipt
    <3>6. ~(d.bounded /\ (upper(d) < 0 \/ (upper(d) > Window /\ lower(d) <= Window)))
      BY <3>1, <3>4 DEF invalidReceipt
    <3>7. d \notin arrived
      <4> SUFFICES ASSUME d \in arrived PROVE FALSE
        OBVIOUS
      <4>1. d \in session.deliveries
        BY <3>2, SessionFacts
      <4>2. ~invalidReceipt(d) /\ lateReceipt(d)
        BY <1>1, <4>1 DEF onTime, invalid
      <4> QED
        BY <3>5, <4>2 DEF lateReceipt
    <3>8. Window \in Nat \ {0} /\ Uncertainty \in Nat /\ Deadline = message.at + Window
      BY WindowBounds DEF Deadline
    <3>9. completeUntil \in Nat /\ completeUntil # 0 /\ Deadline <= completeUntil
      BY <1>1, <2>2, <3>3, <3>8 DEF Read
    <3>10. PICK p \in proved(session.proofs) : p.at = completeUntil
      BY <2>2, <3>9 DEF Read
    <3>11. p \in session.proofs /\ p.sequence <= through(ranges, start.sequence)
      BY DEF proved
    <3>12. p \in Events /\ p.type \in {"checkpoint", "stop"} /\ p.type \in Observed
           /\ p.type # "terminated" /\ p.sequence \in Nat /\ p.at \in Nat
      <4>1. p \in Events /\ p.type \in {"checkpoint", "stop"}
        BY <3>11, SessionFacts DEF Events
      <4> QED
        BY <2>2, <4>1, EventFacts
    <3>13. start \in Events /\ start.sequence < d.sequence /\ start.sequence \in Nat
      <4>1. start \in Events
        BY <2>1 DEF Events
      <4> QED
        BY <2>1, <2>2, <3>3, <4>1, EventFacts DEF Delivery
    <3>14. ~(d.sequence <= p.sequence)
      <4> SUFFICES ASSUME d.sequence <= p.sequence PROVE FALSE
        OBVIOUS
      <4>1. PICK e \in arrived : e.sequence = d.sequence
        BY <2>1, <3>3, <3>11, <3>13, NothingMissing
      <4>2. e \in Events /\ 0 < d.sequence
        BY <3>3, <3>13 DEF Events
      <4>3. e.type # "terminated"
        BY <2>2, <3>3, <4>1, <4>2 DEF BoundaryInv
      <4>4. e = d
        BY <3>3, <4>1, <4>2, <4>3 DEF Delivery
      <4> QED
        BY <3>7, <4>4
    <3>15. p.at < d.at
      <4>1. p.sequence < d.sequence
        BY <3>3, <3>12, <3>14
      <4> QED
        BY <3>3, <3>12, <4>1 DEF Delivery
    <3>16. Deadline < d.at
      BY <3>3, <3>8, <3>9, <3>10, <3>12, <3>15
    <3>17. CASE d.bounded
      <4>1. upper(d) = d.at - message.at + Uncertainty /\ lower(d) \in Int
        BY <3>3, <3>8 DEF upper, lower
      <4>2. upper(d) > Window
        BY <3>3, <3>8, <3>16, <4>1
      <4> QED
        BY <3>5, <3>6, <3>8, <3>17, <4>1, <4>2
    <3>18. CASE ~d.bounded
      BY <3>3, <3>5, <3>8, <3>16, <3>18
    <3> QED
      BY <3>17, <3>18
  <2>4. /\ active' /\ ~(aliveThrough' < message'.at) /\ ~departed'
        /\ ~(aliveThrough' < Deadline')
    BY <1>4, AliveStays
  <2> QED
    BY <1>2, <1>4, <2>3, <2>4 DEF stableVerdict
<1> QED
  BY <1>3, <1>4

(* A verdict on a message that is due is not reversed by an event that     *)
(* arrives later, in any order (runMetrics, run_metrics_window.go): "on    *)
(* time" and "departed" are at most withdrawn, "missed" is never followed  *)
(* by a receipt in time.                                                   *)
THEOREM FinalVerdicts == Spec => VerdictsAreFinal
<1> DEFINE Final == /\ Kept("on-time", {"incomplete"}) /\ Kept("departed", {"incomplete"})
                    /\ Kept("missed", {"unknown", "incomplete"})
<1>1. ASSUME IInv, IInv', [Next]_vars
      PROVE  Final
  <2>1. CASE observe
    <3>1. Kept("on-time", {"incomplete"})
      BY <1>1, <2>1, OnTimeStays DEF Kept
    <3>2. Kept("departed", {"incomplete"})
      BY <1>1, <2>1, DepartedStays DEF Kept
    <3>3. Kept("missed", {"unknown", "incomplete"})
      BY <1>1, <2>1, MissedStays DEF Kept
    <3> QED
      BY <3>1, <3>2, <3>3
  <2>2. CASE publish
    <3>1. stableVerdict = "pending"
      BY <2>2 DEF publish, stableVerdict
    <3> QED
      BY <3>1 DEF Kept
  <2>3. CASE ~observe /\ ~publish
    <3>1. arrived' = arrived /\ ranges' = ranges /\ message' = message
      BY <1>1, <2>3 DEF Next, startMeasurement, checkpoint, stopMeasurement, deliver, duplicate,
         seal, flush, exits, queueTermination, synchronize, expires, Tick, Observes, vars
    <3>2. now \in Nat /\ now' \in Nat /\ Deadline \in Int
      BY <1>1, WindowBounds DEF IInv, TypeInv, TypeOK, Deadline
    <3>3. now <= now'
      BY <1>1, <2>3, <3>2 DEF Next, startMeasurement, checkpoint, stopMeasurement, deliver,
         duplicate, seal, flush, exits, queueTermination, synchronize, expires, Tick, Observes, vars
    <3>4. stableVerdict # "pending" => stableVerdict' = stableVerdict
      BY <3>1, <3>2, <3>3, SameLogSameVerdict
    <3> QED
      BY <3>4 DEF Kept
  <2> QED
    BY <2>1, <2>2, <2>3
<1>2. IInv /\ IInv' /\ [Next]_vars => [Final]_vars
  BY <1>1
<1> QED
  BY <1>2, Inductive, PTL DEF Spec, VerdictsAreFinal
=============================================================================
