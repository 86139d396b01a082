----------------------- MODULE TelemetryDeliveryProofs -----------------------
(***************************************************************************)
(* Proofs about TelemetryDelivery: what the Agent has acknowledged is      *)
(* durable, a successful drain means that the logs are complete, and the   *)
(* logs are in source order without needless repetitions, whatever is      *)
(* lost, repeated, failed or restarted.                                    *)
(***************************************************************************)
EXTENDS TelemetryDelivery, Integers, SequenceTheorems, FiniteSetTheorems, TLAPS

SegmentType == [events : Seq(Events), ack : Nat, saved : Nat, tracked : BOOLEAN]
BatchType   == [events : Seq(Events), todo : SUBSET Runs, live : BOOLEAN]

(* Types beyond TypeOK: the shape of batches and posts, queued markers, and *)
(* that nothing is in flight without a request.                            *)
TypeInv ==
  /\ TypeOK
  /\ batches \subseteq BatchType
  /\ \A i \in DOMAIN terminations : terminations[i][2] = 0
  /\ answer = "none" => flight = <<>>
  /\ \A p \in Peers : post[p].phase # "none" => post[p].upto > sent[p]
  /\ \A l \in latePosts : l[2] <= l[3]

(* Whatever the spool holds as acknowledged, in memory or on disk, is in a *)
(* log; what the Agent has acknowledged is in a log or in the spool.       *)
SpoolInv ==
  /\ \A s \in DOMAIN segments : \A i \in DOMAIN segments[s].events :
       i <= segments[s].ack \/ i <= segments[s].saved => Logged(segments[s].events[i])
  /\ \A e \in accepted : Logged(e) \/
       \E s \in DOMAIN segments : e \in Range(segments[s].events)

(* A request owes the Controller's log exactly the runs it has still to do; *)
(* only one is waited for, it carries the batch in flight, and a good      *)
(* answer means that all of it is logged.                                  *)
RequestInv ==
  /\ \A b \in batches : \A e \in Range(b.events) : Run(e) \in b.todo \/ Logged(e)
  /\ \A b \in batches : b.live => answer = "sent" /\ b.events = flight
  /\ \A b, c \in batches : b.live /\ c.live => b = c
  /\ answer = "ok" => \A e \in Range(flight) : Logged(e)

(* Nothing acknowledged is forgotten in memory before it is logged.        *)
QueueInv ==
  \A e \in accepted \cup {Marker(p) : p \in exits} :
    Logged(e) \/ e \in Range(events) \cup Range(flight) \cup Range(terminations)

(* The identities in memory are logged; each log has events of its run     *)
(* only and is in source order, and it repeats nothing as long as all its  *)
(* events are in memory.                                                   *)
LogInv ==
  /\ \A e \in seen : Logged(e)
  /\ \A r \in Runs : \A i \in DOMAIN log[r] : Run(log[r][i]) = r
  /\ LogsAreInSourceOrder
  /\ EventsAreLoggedOnce
  /\ ~repeatable => \A r \in Runs : Range(log[r]) \subseteq seen

(* The predecessor of every event of a queue is logged, among the events   *)
(* that are ahead of the queue, or ahead of it in the queue.               *)
Prev(e) == <<e[1], e[2] - 1>>

Backed(queue, ahead) ==
  \A i \in DOMAIN queue : queue[i][2] > 1 =>
    \/ Logged(Prev(queue[i]))
    \/ Prev(queue[i]) \in ahead
    \/ \E j \in 1 .. i - 1 : queue[j] = Prev(queue[i])

Before(s) == UNION {Range(segments[t].events) : t \in 1 .. s - 1}

OrderInv ==
  /\ Backed(flight, {})
  /\ Backed(events, Range(flight))
  /\ \A b \in batches : Backed(b.events, {})
  /\ \A s \in DOMAIN segments : Backed(segments[s].events, Before(s))

(* A Peer posts what follows on what the Agent has acknowledged.           *)
PostInv ==
  /\ \A p \in Peers : sent[p] > 0 => <<p, sent[p]>> \in accepted
  /\ \A p \in Peers : post[p].phase = "ok" => <<p, post[p].upto>> \in accepted
  /\ \A l \in latePosts : l[2] > 1 => <<l[1], l[2] - 1>> \in accepted

IInv ==
  TypeInv /\ SpoolInv /\ RequestInv /\ QueueInv /\ LogInv /\ OrderInv /\ PostInv

-----------------------------------------------------------------------------
(* Lemmas about the operators of the model.                                *)

(* A set of naturals that is not empty has a least element.                *)
LEMMA LeastNat ==
  ASSUME NEW T, T \subseteq Nat, T # {}
  PROVE  \E x \in T : \A y \in T : x <= y
<1>1. \E x \in T : \A y \in T : ~ (<<y, x>> \in OpToRel(<, Nat))
  BY NatLessThanWellFounded, WFMin
<1>2. PICK x \in T : \A y \in T : ~ (<<y, x>> \in OpToRel(<, Nat))
  BY <1>1
<1>3. ASSUME NEW y \in T PROVE x <= y
  <2>1. <<y, x>> \in Nat \X Nat
    OBVIOUS
  <2>2. ~ (y < x)
    BY <1>2, <2>1 DEF OpToRel
  <2> QED
    BY <2>2
<1> QED
  BY <1>3

(* The number of the positions of P up to i.                               *)
Rank(P, i) == Cardinality({j \in P : j <= i})

(* Ranks number a finite set of naturals in order, from 1 on and without   *)
(* gaps.                                                                   *)
LEMMA Ranks ==
  ASSUME NEW P, P \subseteq Nat, IsFiniteSet(P)
  PROVE  /\ Cardinality(P) \in Nat
         /\ \A i \in P : Rank(P, i) \in 1 .. Cardinality(P)
         /\ \A i, j \in P : i < j => Rank(P, i) < Rank(P, j)
         /\ \A n \in 1 .. Cardinality(P) : \E i \in P : Rank(P, i) = n
<1> DEFINE UpTo(i) == {j \in P : j <= i}
<1>1. Cardinality(P) \in Nat
  BY FS_CardinalityType
<1>2. ASSUME NEW i \in P
      PROVE  IsFiniteSet(UpTo(i)) /\ Rank(P, i) \in 1 .. Cardinality(P)
  <2>1. UpTo(i) \in SUBSET P /\ i \in UpTo(i)
    OBVIOUS
  <2>2. IsFiniteSet(UpTo(i)) /\ Cardinality(UpTo(i)) <= Cardinality(P)
    BY <2>1, FS_Subset
  <2>3. Cardinality(UpTo(i)) \in Nat /\ Cardinality(UpTo(i)) # 0
    <3>1. Cardinality(UpTo(i)) \in Nat
      BY <2>2, FS_CardinalityType
    <3>2. Cardinality(UpTo(i)) # 0
      BY <2>1, <2>2, FS_EmptySet
    <3> QED
      BY <3>1, <3>2
  <2> QED
    BY <1>1, <2>2, <2>3 DEF Rank
<1>3. ASSUME NEW i \in P, NEW j \in P, i < j
      PROVE  Rank(P, i) < Rank(P, j)
  <2>1. UpTo(i) \in SUBSET UpTo(j)
    <3> SUFFICES ASSUME NEW k \in P, k <= i PROVE k <= j
      OBVIOUS
    <3>1. k \in Nat /\ i \in Nat /\ j \in Nat
      OBVIOUS
    <3> QED
      BY <1>3, <3>1
  <2>2. j \in UpTo(j) /\ j \notin UpTo(i)
    BY <1>3
  <2>3. /\ Cardinality(UpTo(i)) <= Cardinality(UpTo(j))
        /\ Cardinality(UpTo(j)) = Cardinality(UpTo(i)) => UpTo(j) = UpTo(i)
    BY <1>2, <2>1, FS_Subset
  <2>4. Cardinality(UpTo(i)) # Cardinality(UpTo(j))
    BY <2>2, <2>3
  <2>5. Rank(P, i) = Cardinality(UpTo(i)) /\ Rank(P, j) = Cardinality(UpTo(j))
    BY DEF Rank
  <2>6. Rank(P, i) \in 1 .. Cardinality(P) /\ Rank(P, j) \in 1 .. Cardinality(P)
    BY <1>2
  <2> QED
    BY <1>1, <2>3, <2>4, <2>5, <2>6
<1>4. \A n \in 1 .. Cardinality(P) : \E i \in P : Rank(P, i) = n
  <2> DEFINE rank == [i \in P |-> Rank(P, i)]
  <2>1. rank \in [P -> 1 .. Cardinality(P)]
    BY <1>2
  <2>2. \A i, j \in P : rank[i] = rank[j] => i = j
    <3> SUFFICES ASSUME NEW i \in P, NEW j \in P, Rank(P, i) = Rank(P, j)
                 PROVE  i = j
      OBVIOUS
    <3>1. i \in Nat /\ j \in Nat
      OBVIOUS
    <3>2. Rank(P, i) \in 1 .. Cardinality(P)
      BY <1>2
    <3> HIDE DEF rank
    <3> QED
      BY <1>1, <1>3, <3>1, <3>2
  <2>3. rank \in Injection(P, 1 .. Cardinality(P))
    BY <2>1, <2>2 DEF Injection, IsInjective
  <2>4. IsFiniteSet(1 .. Cardinality(P)) /\ Cardinality(1 .. Cardinality(P)) = Cardinality(P)
    BY <1>1, FS_Interval
  <2>5. rank \in Surjection(P, 1 .. Cardinality(P))
    BY <2>3, <2>4, FS_Injection
  <2> QED
    BY <2>5 DEF Surjection
<1> QED
  BY <1>1, <1>2, <1>3, <1>4

(* What is kept is the elements at the given positions, all of them and in *)
(* their order.                                                            *)
LEMMA KeptInOrder ==
  ASSUME NEW S, NEW s \in Seq(S), NEW P \in SUBSET (1 .. Len(s))
  PROVE  /\ Kept(s, P) \in Seq(S)
         /\ \E f \in [1 .. Len(Kept(s, P)) -> P] :
              /\ \A n \in 1 .. Len(Kept(s, P)) : Kept(s, P)[n] = s[f[n]]
              /\ \A m, n \in 1 .. Len(Kept(s, P)) : m < n => f[m] < f[n]
              /\ \A i \in P : \E n \in 1 .. Len(Kept(s, P)) : f[n] = i
<1>1. Len(s) \in Nat /\ \A i \in P : s[i] \in S
  BY LenProperties, ElementOfSeq
<1>2. IsFiniteSet(P) /\ P \subseteq Nat
  <2>1. IsFiniteSet(1 .. Len(s))
    BY <1>1, FS_Interval
  <2>2. IsFiniteSet(P)
    BY <2>1, FS_Subset
  <2>3. P \subseteq Nat
    BY <1>1
  <2> QED
    BY <2>2, <2>3
<1>3. /\ Cardinality(P) \in Nat
      /\ \A i \in P : Rank(P, i) \in 1 .. Cardinality(P)
      /\ \A i, j \in P : i < j => Rank(P, i) < Rank(P, j)
      /\ \A n \in 1 .. Cardinality(P) : \E i \in P : Rank(P, i) = n
  BY <1>2, Ranks
<1> DEFINE N == Cardinality(P)
           f == [n \in 1 .. N |-> CHOOSE i \in P : Rank(P, i) = n]
<1>4. \A n \in 1 .. N : f[n] \in P /\ Rank(P, f[n]) = n
  BY <1>3
<1>5. Kept(s, P) = [n \in 1 .. N |-> s[f[n]]]
  BY DEF Kept, Rank
<1>6. Kept(s, P) \in [1 .. N -> S]
  BY <1>1, <1>4, <1>5
<1>7. Kept(s, P) \in Seq(S) /\ Len(Kept(s, P)) = N
  <2>1. Kept(s, P) \in Seq(S)
    BY <1>3, <1>6, SeqDef
  <2>2. DOMAIN Kept(s, P) = 1 .. N
    BY <1>6
  <2>3. Len(Kept(s, P)) \in Nat /\ DOMAIN Kept(s, P) = 1 .. Len(Kept(s, P))
    BY <2>1, LenProperties
  <2> QED
    BY <1>3, <2>1, <2>2, <2>3
<1>8. f \in [1 .. N -> P]
  BY <1>4
<1>9. ASSUME NEW m \in 1 .. N, NEW n \in 1 .. N, m < n
      PROVE  f[m] < f[n]
  <2>1. f[m] \in Nat /\ f[n] \in Nat /\ f[m] \in P /\ f[n] \in P
    BY <1>2, <1>4
  <2>2. f[n] < f[m] => n < m
    BY <1>3, <1>4, <2>1
  <2>3. f[n] = f[m] => n = m
    BY <1>4
  <2> HIDE DEF f
  <2> QED
    BY <1>3, <1>9, <2>1, <2>2, <2>3
<1>10. ASSUME NEW i \in P PROVE \E n \in 1 .. N : f[n] = i
  <2>1. Rank(P, i) \in 1 .. N
    BY <1>3
  <2>2. f[Rank(P, i)] \in P /\ Rank(P, f[Rank(P, i)]) = Rank(P, i)
    BY <1>4, <2>1
  <2>3. f[Rank(P, i)] = i
    <3> DEFINE j == f[Rank(P, i)]
    <3>1. j \in P /\ Rank(P, j) = Rank(P, i) /\ j \in Nat /\ i \in Nat
      BY <1>2, <2>2
    <3> HIDE DEF j, f
    <3>2. j = i
      BY <1>3, <3>1
    <3> QED
      BY <3>2 DEF j
  <2> QED
    BY <2>1, <2>3
<1> QED
  <2> HIDE DEF f
  <2>1. \A n \in 1 .. N : Kept(s, P)[n] = s[f[n]]
    BY <1>5
  <2> QED
    BY <1>7, <1>8, <1>9, <1>10, <2>1, SMTT(30)

(* A sequence and the elements it has.                                     *)
LEMMA RangeOfSequence ==
  ASSUME NEW S, NEW s \in Seq(S)
  PROVE  /\ Len(s) \in Nat
         /\ DOMAIN s = 1 .. Len(s)
         /\ Range(s) \subseteq S
         /\ \A e : e \in Range(s) <=> \E i \in 1 .. Len(s) : s[i] = e
  BY LenProperties, ElementOfSeq DEF Range

(* The first n elements of a sequence, and the rest of it.                 *)
LEMMA TakeElements ==
  ASSUME NEW S, NEW s \in Seq(S), NEW n \in 0 .. Len(s)
  PROVE  /\ Take(s, n) \in Seq(S)
         /\ Len(Take(s, n)) = n
         /\ \A i \in 1 .. n : Take(s, n)[i] = s[i]
<1>1. Len(s) \in Nat /\ n \in Nat
  BY LenProperties
<1>2. \A i \in 1 .. n : s[i] \in S
  BY <1>1, ElementOfSeq
<1>3. /\ SubSeq(s, 1, n) \in Seq(S)
      /\ Len(SubSeq(s, 1, n)) = IF 1 <= n THEN n - 1 + 1 ELSE 0
      /\ \A i \in 1 .. n - 1 + 1 : SubSeq(s, 1, n)[i] = s[1 + i - 1]
  BY <1>1, <1>2, SubSeqProperties
<1>4. \A i \in 1 .. n : i \in 1 .. n - 1 + 1 /\ 1 + i - 1 = i
  BY <1>1
<1> QED
  BY <1>1, <1>3, <1>4 DEF Take

(* What is left of a sequence behind its first n elements.                 *)
LEMMA DropElements ==
  ASSUME NEW S, NEW s \in Seq(S), NEW n \in Nat
  PROVE  /\ Drop(s, n) \in Seq(S)
         /\ Len(Drop(s, n)) = IF n < Len(s) THEN Len(s) - n ELSE 0
         /\ \A i \in 1 .. Len(Drop(s, n)) : i + n \in 1 .. Len(s) /\ Drop(s, n)[i] = s[i + n]
<1>1. Len(s) \in Nat
  BY LenProperties
<1>2. \A i \in n + 1 .. Len(s) : s[i] \in S
  BY <1>1, ElementOfSeq
<1>3. /\ SubSeq(s, n + 1, Len(s)) \in Seq(S)
      /\ Len(SubSeq(s, n + 1, Len(s))) = IF n + 1 <= Len(s) THEN Len(s) - (n + 1) + 1 ELSE 0
      /\ \A i \in 1 .. Len(s) - (n + 1) + 1 : SubSeq(s, n + 1, Len(s))[i] = s[n + 1 + i - 1]
  BY <1>1, <1>2, SubSeqProperties
<1>4. Len(Drop(s, n)) = IF n < Len(s) THEN Len(s) - n ELSE 0
  BY <1>1, <1>3 DEF Drop
<1>5. ASSUME NEW i \in 1 .. Len(Drop(s, n))
      PROVE  i + n \in 1 .. Len(s) /\ Drop(s, n)[i] = s[i + n]
  <2>1. i \in 1 .. Len(s) - (n + 1) + 1 /\ n + 1 + i - 1 = i + n /\ i + n \in 1 .. Len(s)
    BY <1>1, <1>4
  <2>2. SubSeq(s, n + 1, Len(s))[i] = s[n + 1 + i - 1]
    BY <1>3, <2>1
  <2> QED
    BY <2>1, <2>2 DEF Drop
<1> QED
  BY <1>3, <1>4, <1>5 DEF Drop

(* t is the parts of the first m segments that are not saved as            *)
(* acknowledged, one after the other.                                      *)
Unsaved(segs, s) == {i \in 1 .. Len(segs[s].events) : i > segs[s].saved}

TailsOf(segs, t, m) ==
  /\ t \in Seq(Events)
  /\ \A k \in 1 .. Len(t) : \E s \in 1 .. m : \E i \in Unsaved(segs, s) :
       /\ t[k] = segs[s].events[i]
       /\ \A u \in 1 .. m : \A j \in Unsaved(segs, u) :
            u < s \/ (u = s /\ j < i) => \E l \in 1 .. k - 1 : t[l] = segs[u].events[j]
  /\ \A s \in 1 .. m : \A i \in Unsaved(segs, s) :
       \E k \in 1 .. Len(t) : t[k] = segs[s].events[i]

(* One more segment puts its rest behind.                                  *)
LEMMA TailsOfNext ==
  ASSUME NEW segs \in Seq(SegmentType), NEW m \in 1 .. Len(segs), NEW t,
         TailsOf(segs, t, m - 1)
  PROVE  TailsOf(segs, t \o Drop(segs[m].events, segs[m].saved), m)
<1> DEFINE ev == segs[m].events
           sv == segs[m].saved
           d == Drop(ev, sv)
           w == t \o d
<1>1. Len(segs) \in Nat /\ m \in Nat /\ segs[m] \in SegmentType
  BY LenProperties, ElementOfSeq
<1>2. ev \in Seq(Events) /\ sv \in Nat /\ Len(ev) \in Nat
  BY <1>1, LenProperties DEF SegmentType
<1>3. /\ d \in Seq(Events)
      /\ Len(d) = IF sv < Len(ev) THEN Len(ev) - sv ELSE 0
      /\ \A i \in 1 .. Len(d) : i + sv \in 1 .. Len(ev) /\ d[i] = ev[i + sv]
  BY <1>2, DropElements
<1>4. t \in Seq(Events) /\ Len(t) \in Nat /\ Len(d) \in Nat
  BY <1>3, LenProperties DEF TailsOf
<1>5. /\ w \in Seq(Events)
      /\ Len(w) = Len(t) + Len(d)
      /\ \A i \in 1 .. Len(t) + Len(d) : w[i] = IF i <= Len(t) THEN t[i] ELSE d[i - Len(t)]
  BY <1>3, <1>4, ConcatProperties
<1>6. Unsaved(segs, m) = {i \in 1 .. Len(ev) : i > sv}
  BY DEF Unsaved
<1> HIDE DEF ev, sv, d, w
<1>7. \A l \in 1 .. Len(t) : l \in 1 .. Len(w) /\ w[l] = t[l]
  BY <1>4, <1>5
<1>8. \A j \in Unsaved(segs, m) :
        /\ j - sv \in 1 .. Len(d) /\ Len(t) + (j - sv) \in 1 .. Len(w)
        /\ w[Len(t) + (j - sv)] = ev[j]
  <2> SUFFICES ASSUME NEW j \in Unsaved(segs, m)
               PROVE  /\ j - sv \in 1 .. Len(d) /\ Len(t) + (j - sv) \in 1 .. Len(w)
                      /\ w[Len(t) + (j - sv)] = ev[j]
    OBVIOUS
  <2>1. j \in 1 .. Len(ev) /\ j > sv /\ j - sv \in 1 .. Len(d)
    BY <1>2, <1>3, <1>6
  <2>2. w[Len(t) + (j - sv)] = d[j - sv]
    <3> DEFINE n == j - sv
    <3>1. n \in 1 .. Len(d) /\ n \in Nat
      BY <2>1
    <3> HIDE DEF n
    <3>2. /\ Len(t) + n \in 1 .. Len(t) + Len(d)
          /\ ~(Len(t) + n <= Len(t)) /\ Len(t) + n - Len(t) = n
      BY <1>4, <3>1
    <3>3. w[Len(t) + n] = d[n]
      BY <1>4, <1>5, <3>1, <3>2
    <3> QED
      BY <3>3 DEF n
  <2>3. d[j - sv] = ev[(j - sv) + sv] /\ (j - sv) + sv = j
    BY <1>2, <1>3, <2>1
  <2> QED
    BY <1>2, <1>4, <1>5, <2>1, <2>2, <2>3
<1>9. ASSUME NEW k \in 1 .. Len(w)
      PROVE  \E s \in 1 .. m : \E i \in Unsaved(segs, s) :
               /\ w[k] = segs[s].events[i]
               /\ \A u \in 1 .. m : \A j \in Unsaved(segs, u) :
                    u < s \/ (u = s /\ j < i) =>
                      \E l \in 1 .. k - 1 : w[l] = segs[u].events[j]
  <2>1. CASE k <= Len(t)
    <3>1. k \in 1 .. Len(t) /\ w[k] = t[k]
      BY <1>4, <1>5, <2>1
    <3>2. PICK s \in 1 .. m - 1 : \E i \in Unsaved(segs, s) :
            /\ t[k] = segs[s].events[i]
            /\ \A u \in 1 .. m - 1 : \A j \in Unsaved(segs, u) :
                 u < s \/ (u = s /\ j < i) =>
                   \E l \in 1 .. k - 1 : t[l] = segs[u].events[j]
      BY <3>1 DEF TailsOf
    <3>3. PICK i \in Unsaved(segs, s) :
            /\ t[k] = segs[s].events[i]
            /\ \A u \in 1 .. m - 1 : \A j \in Unsaved(segs, u) :
                 u < s \/ (u = s /\ j < i) =>
                   \E l \in 1 .. k - 1 : t[l] = segs[u].events[j]
      BY <3>2
    <3>4. ASSUME NEW u \in 1 .. m, NEW j \in Unsaved(segs, u), u < s \/ (u = s /\ j < i)
          PROVE  \E l \in 1 .. k - 1 : w[l] = segs[u].events[j]
      <4>1. u \in 1 .. m - 1
        BY <1>1, <3>4
      <4>2. PICK l \in 1 .. k - 1 : t[l] = segs[u].events[j]
        BY <3>3, <3>4, <4>1
      <4>3. l \in 1 .. Len(t)
        BY <1>4, <3>1
      <4> QED
        BY <1>7, <4>2, <4>3
    <3>5. s \in 1 .. m
      BY <1>1
    <3> QED
      BY <3>1, <3>3, <3>4, <3>5
  <2>2. CASE k > Len(t)
    <3> DEFINE i == k - Len(t) + sv
    <3>1. k - Len(t) \in 1 .. Len(d) /\ w[k] = d[k - Len(t)]
      BY <1>4, <1>5, <2>2
    <3>2. i \in 1 .. Len(ev) /\ i > sv /\ w[k] = ev[i]
      BY <1>2, <1>3, <1>4, <3>1, SMTT(30)
    <3>3. i \in Unsaved(segs, m) /\ m \in 1 .. m /\ w[k] = segs[m].events[i]
      BY <1>1, <1>6, <3>2 DEF ev
    <3>4. ASSUME NEW u \in 1 .. m, NEW j \in Unsaved(segs, u), u < m \/ (u = m /\ j < i)
          PROVE  \E l \in 1 .. k - 1 : w[l] = segs[u].events[j]
      <4>1. CASE u < m
        <5>1. u \in 1 .. m - 1
          BY <1>1, <4>1
        <5>2. PICK l \in 1 .. Len(t) : t[l] = segs[u].events[j]
          BY <5>1 DEF TailsOf
        <5>3. l \in 1 .. k - 1
          BY <1>4, <1>5, <2>2
        <5> QED
          BY <1>7, <5>2, <5>3
      <4>2. CASE u = m /\ j < i
        <5>1. j - sv \in 1 .. Len(d) /\ w[Len(t) + (j - sv)] = ev[j]
          BY <1>8, <4>2
        <5>2. j \in Nat
          BY <1>2, <1>6, <4>2
        <5>3. Len(t) + (j - sv) \in 1 .. k - 1
          BY <1>2, <1>3, <1>4, <1>5, <4>2, <5>1, <5>2
        <5> QED
          BY <4>2, <5>1, <5>3 DEF ev
      <4> QED
        BY <1>1, <3>4, <4>1, <4>2
    <3> HIDE DEF i
    <3> QED
      BY <3>3, <3>4
  <2> QED
    BY <1>4, <1>5, <2>1, <2>2
<1>10. ASSUME NEW s \in 1 .. m, NEW i \in Unsaved(segs, s)
       PROVE  \E k \in 1 .. Len(w) : w[k] = segs[s].events[i]
  <2>1. CASE s = m
    BY <1>8, <2>1 DEF ev
  <2>2. CASE s # m
    <3>1. s \in 1 .. m - 1
      BY <1>1, <2>2
    <3>2. PICK k \in 1 .. Len(t) : t[k] = segs[s].events[i]
      BY <3>1 DEF TailsOf
    <3> QED
      BY <1>7, <3>2
  <2> QED
    BY <2>1, <2>2
<1> QED
  <2>1. TailsOf(segs, w, m)
    BY <1>5, <1>9, <1>10 DEF TailsOf
  <2> QED
    BY <2>1 DEF w, d, ev, sv

(* The recursion of Tails has a solution up to every n.                    *)
Solves(segs, n, f) ==
  f = [x \in 0 .. n |-> IF x = 0 THEN <<>>
                        ELSE f[x - 1] \o Drop(segs[x].events, segs[x].saved)]

(* The recursive function in Tails is well defined for every number of     *)
(* segments: the least number it were not defined for has none before it.  *)
LEMMA TailsExist ==
  ASSUME NEW segs, NEW n \in Nat
  PROVE  \E f : Solves(segs, n, f)
<1> DEFINE Bad == {k \in Nat : ~ \E f : Solves(segs, k, f)}
<1> SUFFICES ASSUME Bad # {} PROVE FALSE
  OBVIOUS
<1>1. PICK k \in Bad : \A y \in Bad : k <= y
  <2>1. Bad \subseteq Nat
    OBVIOUS
  <2> HIDE DEF Bad
  <2> QED
    BY <2>1, LeastNat
<1>2. CASE k = 0
  <2>1. Solves(segs, 0, [x \in 0 .. 0 |-> <<>>])
    BY DEF Solves
  <2> QED
    BY <1>1, <1>2, <2>1
<1>3. CASE k # 0
  <2>1. k \in Nat /\ k - 1 \in Nat /\ k - 1 \notin Bad
    BY <1>1, <1>3
  <2>2. PICK g : Solves(segs, k - 1, g)
    BY <2>1
  <2> DEFINE piece(x) == Drop(segs[x].events, segs[x].saved)
             f == [x \in 0 .. k |-> IF x = k THEN g[k - 1] \o piece(k) ELSE g[x]]
  <2>3. \A x \in 0 .. k : f[x] = IF x = 0 THEN <<>> ELSE f[x - 1] \o piece(x)
    <3> SUFFICES ASSUME NEW x \in 0 .. k
                 PROVE  f[x] = IF x = 0 THEN <<>> ELSE f[x - 1] \o piece(x)
      OBVIOUS
    <3>1. \A y \in 0 .. k - 1 : g[y] = IF y = 0 THEN <<>> ELSE g[y - 1] \o piece(y)
      BY <2>2 DEF Solves
    <3> HIDE DEF piece
    <3>2. CASE x = k
      <4>1. k - 1 \in 0 .. k /\ k - 1 # k /\ k \in 0 .. k
        BY <2>1
      <4>2. f[k] = g[k - 1] \o piece(k) /\ f[k - 1] = g[k - 1]
        BY <4>1
      <4> HIDE DEF f
      <4> QED
        BY <1>3, <3>2, <4>2
    <3>3. CASE x # k
      <4>1. x \in 0 .. k - 1 /\ f[x] = g[x]
        BY <2>1, <3>3
      <4>2. x # 0 => x - 1 \in 0 .. k /\ x - 1 # k /\ f[x - 1] = g[x - 1]
        BY <2>1, <3>3
      <4>3. g[x] = IF x = 0 THEN <<>> ELSE g[x - 1] \o piece(x)
        BY <3>1, <4>1
      <4> HIDE DEF f
      <4>4. CASE x = 0
        BY <4>1, <4>3, <4>4
      <4>5. CASE x # 0
        <5>1. f[x - 1] = g[x - 1] /\ g[x] = g[x - 1] \o piece(x)
          BY <4>2, <4>3, <4>5
        <5> QED
          BY <4>1, <4>5, <5>1
      <4> QED
        BY <4>4, <4>5
    <3> QED
      BY <3>2, <3>3
  <2>4. f = [x \in 0 .. k |-> f[x]]
    OBVIOUS
  <2>5. f = [x \in 0 .. k |-> IF x = 0 THEN <<>> ELSE f[x - 1] \o piece(x)]
    <3> HIDE DEF f, piece
    <3> QED
      BY <2>3, <2>4
  <2>6. Solves(segs, k, f)
    BY <2>5 DEF Solves
  <2> QED
    BY <1>1, <2>6
<1> QED
  BY <1>2, <1>3

(* What is replayed is all that is not saved as acknowledged, in the order *)
(* of the segments.                                                        *)
LEMMA TailsInOrder ==
  ASSUME NEW segs \in Seq(SegmentType)
  PROVE  TailsOf(segs, Tails(segs), Len(segs))
<1> DEFINE n == Len(segs)
           tail == CHOOSE f : Solves(segs, n, f)
           Bad == {k \in 0 .. n : ~TailsOf(segs, tail[k], k)}
<1>1. n \in Nat
  BY LenProperties
<1>2. Solves(segs, n, tail)
  BY <1>1, TailsExist
<1>3. Tails(segs) = tail[n]
  BY DEF Tails, Solves
<1>4. \A x \in 0 .. n :
        tail[x] = IF x = 0 THEN <<>>
                  ELSE tail[x - 1] \o Drop(segs[x].events, segs[x].saved)
  <2> HIDE DEF tail
  <2> QED
    BY <1>2 DEF Solves
<1> HIDE DEF n, tail
<1>5. Bad = {}
  <2> SUFFICES ASSUME Bad # {} PROVE FALSE
    OBVIOUS
  <2>1. PICK k \in Bad : \A y \in Bad : k <= y
    <3>1. Bad \subseteq Nat
      BY <1>1
    <3> HIDE DEF Bad
    <3> QED
      BY <3>1, LeastNat
  <2>2. CASE k = 0
    <3>1. tail[0] = <<>>
      BY <1>1, <1>4
    <3>2. TailsOf(segs, <<>>, 0)
      BY EmptySeq DEF TailsOf
    <3> QED
      BY <2>1, <2>2, <3>1, <3>2
  <2>3. CASE k # 0
    <3>1. k \in 1 .. n /\ k - 1 \in 0 .. n /\ k - 1 \notin Bad
      BY <1>1, <2>1, <2>3
    <3>2. TailsOf(segs, tail[k - 1], k - 1)
      BY <3>1
    <3>3. TailsOf(segs, tail[k - 1] \o Drop(segs[k].events, segs[k].saved), k)
      BY <3>1, <3>2, TailsOfNext DEF n
    <3>4. tail[k] = tail[k - 1] \o Drop(segs[k].events, segs[k].saved)
      BY <1>1, <1>4, <2>3, <3>1
    <3> QED
      BY <2>1, <3>3, <3>4
  <2> QED
    BY <2>2, <2>3
<1>6. TailsOf(segs, tail[n], n)
  BY <1>1, <1>5
<1> QED
  BY <1>3, <1>6 DEF n

-----------------------------------------------------------------------------
(* What a step that leaves a part of the state alone preserves.            *)

(* No log loses an event.                                                  *)
Grows == \A e \in Events : Logged(e) => Logged(e)'

(* A step that writes no log loses no event.                               *)
LEMMA SameLog ==
  ASSUME UNCHANGED log
  PROVE  Grows
BY DEF Grows, Logged, Run

(* The elements of the queues are events.                                  *)
LEMMA QueueTypes ==
  ASSUME TypeInv
  PROVE  /\ Range(events) \subseteq Events /\ Range(flight) \subseteq Events
         /\ Range(terminations) \subseteq Events
         /\ \A b \in batches : Range(b.events) \subseteq Events
         /\ \A r \in Runs : Range(log[r]) \subseteq Events
         /\ Len(segments) \in Nat /\ DOMAIN segments = 1 .. Len(segments)
         /\ \A s \in DOMAIN segments :
              /\ segments[s] \in SegmentType
              /\ Len(segments[s].events) \in Nat
              /\ DOMAIN segments[s].events = 1 .. Len(segments[s].events)
              /\ Range(segments[s].events) \subseteq Events
              /\ \A i \in DOMAIN segments[s].events : segments[s].events[i] \in Events
<1>1. Range(events) \subseteq Events /\ Range(flight) \subseteq Events
      /\ Range(terminations) \subseteq Events
  BY RangeOfSequence DEF TypeInv, TypeOK
<1>2. \A b \in batches : Range(b.events) \subseteq Events
  BY RangeOfSequence DEF TypeInv, BatchType
<1>3. \A r \in Runs : Range(log[r]) \subseteq Events
  BY RangeOfSequence DEF TypeInv, TypeOK
<1>4. segments \in Seq(SegmentType)
  BY DEF TypeInv, TypeOK, SegmentType
<1>5. /\ Len(segments) \in Nat /\ DOMAIN segments = 1 .. Len(segments)
      /\ \A s \in DOMAIN segments : segments[s] \in SegmentType
  BY <1>4, LenProperties, ElementOfSeq
<1>6. ASSUME NEW s \in DOMAIN segments
      PROVE  /\ Len(segments[s].events) \in Nat
             /\ DOMAIN segments[s].events = 1 .. Len(segments[s].events)
             /\ Range(segments[s].events) \subseteq Events
             /\ \A i \in DOMAIN segments[s].events : segments[s].events[i] \in Events
  <2>1. segments[s].events \in Seq(Events)
    BY <1>5 DEF SegmentType
  <2> QED
    BY <2>1, RangeOfSequence, ElementOfSeq
<1> QED
  BY <1>1, <1>2, <1>3, <1>5, <1>6

(* A step that leaves the spool alone keeps what it says of the logs.      *)
LEMMA SameSpool ==
  ASSUME TypeInv, SpoolInv, UNCHANGED <<segments, accepted>>, Grows
  PROVE  SpoolInv'
<1>1. ASSUME NEW s \in DOMAIN segments', NEW i \in DOMAIN segments'[s].events,
             i <= segments'[s].ack \/ i <= segments'[s].saved
      PROVE  Logged(segments[s].events[i])'
  <2>1. segments[s].events[i] \in Events /\ Logged(segments[s].events[i])
    BY <1>1, QueueTypes DEF SpoolInv
  <2>2. segments'[s].events[i] = segments[s].events[i]
    OBVIOUS
  <2> QED
    BY <2>1, <2>2 DEF Grows
<1>2. ASSUME NEW e \in accepted'
      PROVE  Logged(e)' \/ \E s \in DOMAIN segments' : e \in Range(segments'[s].events)
  <2>1. e \in Events
    BY DEF TypeInv, TypeOK
  <2> QED
    BY <2>1 DEF SpoolInv, Grows
<1> QED
  BY <1>1, <1>2 DEF SpoolInv

(* A step that leaves the requests alone keeps what they owe the logs.     *)
LEMMA SameRequests ==
  ASSUME TypeInv, RequestInv, UNCHANGED <<batches, answer, flight>>, Grows
  PROVE  RequestInv'
<1>1. ASSUME NEW b \in batches', NEW e \in Range(b.events)
      PROVE  Run(e) \in b.todo \/ Logged(e)'
  BY QueueTypes DEF RequestInv, Grows
<1>2. ASSUME answer' = "ok", NEW e \in Range(flight')
      PROVE  Logged(e)'
  BY <1>2, QueueTypes DEF RequestInv, Grows
<1> QED
  BY <1>1, <1>2 DEF RequestInv, Run

(* A step that leaves the queues alone forgets nothing.                    *)
LEMMA SameQueue ==
  ASSUME TypeInv, QueueInv, UNCHANGED <<accepted, exits, events, flight, terminations>>, Grows
  PROVE  QueueInv'
<1> SUFFICES ASSUME NEW e \in accepted \cup {Marker(p) : p \in exits}
             PROVE  Logged(e)' \/ e \in Range(events) \cup Range(flight) \cup Range(terminations)
  BY DEF QueueInv, Marker
<1>1. e \in Events
  BY BoundsAssumption DEF TypeInv, TypeOK, Marker, Events
<1> QED
  BY <1>1 DEF QueueInv, Grows

(* A step that leaves the logs alone keeps them in order.                  *)
LEMMA SameLogs ==
  ASSUME LogInv, UNCHANGED <<log, seen, repeatable>>
  PROVE  LogInv'
BY DEF LogInv, Logged, Run, LogsAreInSourceOrder, EventsAreLoggedOnce

(* Queues stay backed while the logs grow, and the more is ahead of them.  *)
LEMMA BackedGrows ==
  ASSUME Grows, NEW q \in Seq(Events), NEW A, NEW B, Backed(q, A), A \subseteq B
  PROVE  Backed(q, B)'
<1> SUFFICES ASSUME NEW i \in DOMAIN q, q[i][2] > 1
             PROVE  \/ Logged(Prev(q[i]))'
                    \/ Prev(q[i]) \in B
                    \/ \E j \in 1 .. i - 1 : q[j] = Prev(q[i])
  BY DEF Backed, Prev
<1>1. q[i] \in Events
  BY RangeOfSequence, ElementOfSeq
<1>2. Prev(q[i]) \in Events
  BY <1>1, BoundsAssumption DEF Prev, Events
<1> QED
  BY <1>2 DEF Backed, Grows

(* A step that leaves the queues, the requests and the spool alone keeps   *)
(* them backed.                                                            *)
LEMMA SameOrder ==
  ASSUME TypeInv, OrderInv, UNCHANGED <<flight, events, batches, segments>>, Grows
  PROVE  OrderInv'
<1>1. flight \in Seq(Events) /\ events \in Seq(Events)
  BY DEF TypeInv, TypeOK
<1>2. Backed(flight, {})' /\ Backed(events, Range(flight))'
  BY <1>1, BackedGrows DEF OrderInv
<1>3. ASSUME NEW b \in batches' PROVE Backed(b.events, {})'
  BY BackedGrows DEF OrderInv, TypeInv, BatchType
<1>4. ASSUME NEW s \in DOMAIN segments' PROVE Backed(segments[s].events, Before(s))'
  <2>1. segments[s].events \in Seq(Events)
    BY QueueTypes DEF SegmentType
  <2>2. Before(s)' = Before(s) /\ segments'[s].events = segments[s].events
    BY DEF Before
  <2>3. Backed(segments[s].events, Before(s))
    BY DEF OrderInv
  <2> HIDE DEF Before
  <2> QED
    BY <2>1, <2>2, <2>3, BackedGrows
<1> QED
  BY <1>2, <1>3, <1>4 DEF OrderInv

-----------------------------------------------------------------------------
(* The invariant holds at the start and every action preserves it.         *)

(* The system starts with nothing queued, sent, spooled or logged.         *)
LEMMA InitHolds == Init => IInv
<1> SUFFICES ASSUME Init PROVE IInv
  OBVIOUS
<1>1. TypeInv
  <2>1. /\ <<>> \in Seq(Events)
        /\ segments \in Seq([events : Seq(Events), ack : Nat, saved : Nat, tracked : BOOLEAN])
    BY EmptySeq DEF Init
  <2>2. sent \in [Peers -> 0 .. MaxEvents] /\ faults \in 0 .. MaxFaults
    BY BoundsAssumption DEF Init
  <2>3. post \in [Peers -> [phase : {"none", "sent", "ok", "refused"}, upto : 0 .. MaxEvents]]
    BY BoundsAssumption DEF Init, NoPost
  <2>4. alive \in [Peers -> BOOLEAN] /\ log \in [Runs -> Seq(Events)]
    BY <2>1 DEF Init
  <2>5. TypeOK
    BY <2>1, <2>2, <2>3, <2>4 DEF Init, TypeOK
  <2>6. \A i \in DOMAIN terminations : terminations[i][2] = 0
    BY DEF Init
  <2>7. \A p \in Peers : post[p].phase = "none"
    BY DEF Init, NoPost
  <2> QED
    BY <2>5, <2>6, <2>7 DEF Init, TypeInv
<1>2. SpoolInv /\ RequestInv /\ QueueInv
  BY DEF Init, SpoolInv, RequestInv, QueueInv
<1>3. LogInv
  BY DEF Init, LogInv, LogsAreInSourceOrder, EventsAreLoggedOnce, Range
<1>4. OrderInv /\ PostInv
  BY DEF Init, OrderInv, PostInv, Backed, NoPost
<1> QED
  BY <1>1, <1>2, <1>3, <1>4 DEF IInv

(* A step that touches the Peers' side of the posts only.                  *)
LEMMA PeerFrame ==
  ASSUME IInv, TypeInv', PostInv', UNCHANGED <<agentVars, logVars, accepted, exits>>
  PROVE  IInv'
<1>1. Grows
  BY SameLog DEF logVars
<1>2. SpoolInv' /\ RequestInv' /\ QueueInv' /\ LogInv' /\ OrderInv'
  BY <1>1, SameSpool, SameRequests, SameQueue, SameLogs, SameOrder
     DEF IInv, agentVars, logVars
<1> QED
  BY <1>2 DEF IInv

(* A Peer posts its next batch.                                            *)
LEMMA flushPreserves ==
  ASSUME IInv, NEW p \in Peers, NEW upto \in 1 .. MaxEvents, flush(p, upto)
  PROVE  IInv'
<1> USE DEF IInv, flush, agentVars, logVars
<1>1. post' = [post EXCEPT ![p] = [phase |-> "sent", upto |-> upto]]
      /\ upto \in 0 .. MaxEvents /\ upto > sent[p]
  BY BoundsAssumption DEF TypeInv, TypeOK
<1>2. post' \in [Peers -> [phase : {"none", "sent", "ok", "refused"}, upto : 0 .. MaxEvents]]
  BY <1>1 DEF TypeInv, TypeOK
<1>3. \A q \in Peers : post'[q].phase # "none" => post'[q].upto > sent[q]
  BY <1>1 DEF TypeInv, TypeOK
<1>4. TypeInv'
  BY <1>2, <1>3 DEF TypeInv, TypeOK
<1>5. PostInv'
  BY <1>1 DEF PostInv, TypeInv, TypeOK
<1> QED
  BY <1>4, <1>5, PeerFrame

(* A Peer moves on, or sends the same batch again.                         *)
LEMMA postAnsweredPreserves ==
  ASSUME IInv, NEW p \in Peers, postAnswered(p)
  PROVE  IInv'
<1> USE DEF IInv, postAnswered, agentVars, logVars, NoPost
<1>1. CASE post[p].phase = "ok"
  <2>1. sent' = [sent EXCEPT ![p] = post[p].upto] /\ post' = [post EXCEPT ![p] = NoPost]
    BY <1>1
  <2>2. sent' \in [Peers -> 0 .. MaxEvents]
    BY <2>1 DEF TypeInv, TypeOK
  <2>3. post' \in [Peers -> [phase : {"none", "sent", "ok", "refused"}, upto : 0 .. MaxEvents]]
    BY <2>1, BoundsAssumption DEF TypeInv, TypeOK
  <2>4. \A q \in Peers : post'[q].phase # "none" => post'[q].upto > sent'[q]
    BY <2>1 DEF TypeInv, TypeOK
  <2>5. TypeInv'
    BY <2>2, <2>3, <2>4 DEF TypeInv, TypeOK
  <2>6. PostInv'
    BY <1>1, <2>1 DEF PostInv, TypeInv, TypeOK
  <2> QED
    BY <2>5, <2>6, PeerFrame
<1>2. CASE post[p].phase = "refused"
  <2>1. sent' = sent /\ post' = [post EXCEPT ![p].phase = "sent"]
    BY <1>2 DEF TypeInv, TypeOK
  <2>2. post' \in [Peers -> [phase : {"none", "sent", "ok", "refused"}, upto : 0 .. MaxEvents]]
    BY <2>1 DEF TypeInv, TypeOK
  <2>3. \A q \in Peers : post'[q].phase # "none" => post'[q].upto > sent'[q]
    BY <1>2, <2>1 DEF TypeInv, TypeOK
  <2>4. TypeInv'
    BY <2>1, <2>2, <2>3 DEF TypeInv, TypeOK
  <2>5. PostInv'
    BY <1>2, <2>1 DEF PostInv, TypeInv, TypeOK
  <2> QED
    BY <2>4, <2>5, PeerFrame
<1> QED
  BY <1>1, <1>2

(* A post given up on may be handled later.                                *)
LEMMA LatePost ==
  ASSUME TypeInv, PostInv, NEW p \in Peers, post[p].phase # "none"
  PROVE  LET l == <<p, sent[p] + 1, post[p].upto>>
         IN  /\ l \in Peers \X (1 .. MaxEvents) \X (1 .. MaxEvents)
             /\ l[2] <= l[3]
             /\ l[2] > 1 => <<l[1], l[2] - 1>> \in accepted
<1>1. sent[p] \in 0 .. MaxEvents /\ post[p].upto \in 0 .. MaxEvents /\ post[p].upto > sent[p]
  BY DEF TypeInv, TypeOK
<1>2. sent[p] + 1 \in 1 .. MaxEvents /\ post[p].upto \in 1 .. MaxEvents
      /\ sent[p] + 1 <= post[p].upto
  BY <1>1, BoundsAssumption
<1>3. sent[p] + 1 > 1 => sent[p] > 0 /\ sent[p] + 1 - 1 = sent[p]
  BY <1>1, BoundsAssumption
<1> DEFINE l == <<p, sent[p] + 1, post[p].upto>>
<1>4. l[1] = p /\ l[2] = sent[p] + 1 /\ l[3] = post[p].upto
  OBVIOUS
<1>5. l \in Peers \X (1 .. MaxEvents) \X (1 .. MaxEvents)
  BY <1>2
<1>6. ASSUME l[2] > 1 PROVE <<l[1], l[2] - 1>> \in accepted
  <2>1. sent[p] > 0 /\ l[2] - 1 = sent[p]
    <3> HIDE DEF l
    <3>1. sent[p] + 1 > 1
      BY <1>4, <1>6
    <3> QED
      BY <1>1, <1>3, <1>4, <3>1
  <2>2. <<p, sent[p]>> \in accepted
    BY <2>1 DEF PostInv
  <2> QED
    BY <1>4, <2>1, <2>2
<1> QED
  BY <1>2, <1>4, <1>5, <1>6

(* A Peer gives up on a post that may still be handled.                    *)
LEMMA postTimesOutPreserves ==
  ASSUME IInv, NEW p \in Peers, postTimesOut(p)
  PROVE  IInv'
<1> USE DEF IInv, postTimesOut, agentVars, logVars
<1> DEFINE l == <<p, sent[p] + 1, post[p].upto>>
<1>1. /\ l \in Peers \X (1 .. MaxEvents) \X (1 .. MaxEvents)
      /\ l[2] <= l[3]
      /\ l[2] > 1 => <<l[1], l[2] - 1>> \in accepted
  BY LatePost
<1>2. latePosts' = latePosts \/ latePosts' = latePosts \cup {l}
  OBVIOUS
<1>3. post' = [post EXCEPT ![p].phase = "sent"] /\ faults' \in 0 .. MaxFaults
  BY BoundsAssumption DEF Fault, TypeInv, TypeOK
<1> HIDE DEF l
<1>4. latePosts' \subseteq Peers \X (1 .. MaxEvents) \X (1 .. MaxEvents)
  BY <1>1, <1>2 DEF TypeInv, TypeOK
<1>5. \A k \in latePosts' : k[2] <= k[3]
  BY <1>1, <1>2 DEF TypeInv
<1>6. post' \in [Peers -> [phase : {"none", "sent", "ok", "refused"}, upto : 0 .. MaxEvents]]
  BY <1>3, ZenonT(30) DEF TypeInv, TypeOK
<1>7. \A q \in Peers : post'[q].phase # "none" => post'[q].upto > sent[q]
  BY <1>3 DEF TypeInv, TypeOK
<1>8. TypeInv'
  BY <1>3, <1>4, <1>5, <1>6, <1>7 DEF TypeInv, TypeOK
<1>9. PostInv'
  BY <1>1, <1>2, <1>3 DEF PostInv, TypeInv, TypeOK
<1> QED
  BY <1>8, <1>9, PeerFrame

(* The final drain begins.                                                 *)
LEMMA closeTelemetryPreserves ==
  ASSUME IInv, closeTelemetry
  PROVE  IInv'
<1> USE DEF IInv, closeTelemetry, peerVars, logVars
<1>1. TypeInv' /\ PostInv'
  BY DEF TypeInv, TypeOK, PostInv
<1>2. Grows
  BY SameLog
<1>3. SpoolInv' /\ RequestInv' /\ QueueInv' /\ LogInv' /\ OrderInv'
  BY <1>2, SameSpool, SameRequests, SameQueue, SameLogs, SameOrder
<1> QED
  BY <1>1, <1>3

(* A queue behind a queue: what is ahead of the second one is the first    *)
(* one and what is ahead of that.                                          *)
LEMMA BackedConcat ==
  ASSUME NEW q \in Seq(Events), NEW d \in Seq(Events), NEW A, NEW B,
         Backed(q, A), Backed(d, B), B \subseteq A \cup Range(q)
  PROVE  Backed(q \o d, A)
<1> DEFINE w == q \o d
<1>1. /\ Len(q) \in Nat /\ Len(d) \in Nat
      /\ DOMAIN q = 1 .. Len(q) /\ DOMAIN d = 1 .. Len(d)
      /\ w \in Seq(Events)
      /\ Len(w) = Len(q) + Len(d)
      /\ \A i \in 1 .. Len(q) + Len(d) : w[i] = IF i <= Len(q) THEN q[i] ELSE d[i - Len(q)]
  BY LenProperties, ConcatProperties
<1>2. DOMAIN w = 1 .. Len(q) + Len(d)
  BY <1>1, LenProperties
<1> HIDE DEF w
<1> SUFFICES ASSUME NEW i \in 1 .. Len(q) + Len(d), w[i][2] > 1
             PROVE  \/ Logged(Prev(w[i]))
                    \/ Prev(w[i]) \in A
                    \/ \E j \in 1 .. i - 1 : w[j] = Prev(w[i])
  BY <1>2 DEF Backed, w
<1>3. CASE i <= Len(q)
  <2>1. w[i] = q[i] /\ i \in DOMAIN q
    BY <1>1, <1>3
  <2>2. CASE \E j \in 1 .. i - 1 : q[j] = Prev(w[i])
    <3>1. PICK j \in 1 .. i - 1 : q[j] = Prev(w[i])
      BY <2>2
    <3>2. w[j] = q[j]
      BY <1>1, <1>3
    <3> QED
      BY <3>1, <3>2
  <2> QED
    BY <2>1, <2>2 DEF Backed
<1>4. CASE i > Len(q)
  <2> DEFINE k == i - Len(q)
  <2>1. w[i] = d[k] /\ k \in DOMAIN d
    BY <1>1, <1>4
  <2>2. CASE Prev(w[i]) \in Range(q)
    <3>1. PICK j \in 1 .. Len(q) : q[j] = Prev(w[i])
      BY <1>1, <2>2 DEF Range
    <3>2. w[j] = q[j] /\ j \in 1 .. i - 1
      BY <1>1, <1>4
    <3> QED
      BY <3>1, <3>2
  <2>3. CASE \E j \in 1 .. k - 1 : d[j] = Prev(w[i])
    <3>1. PICK j \in 1 .. k - 1 : d[j] = Prev(w[i])
      BY <2>3
    <3>2. j \in Nat /\ j >= 1 /\ j < i - Len(q)
      BY <1>1
    <3> DEFINE m == Len(q) + j
    <3>3. m \in 1 .. Len(q) + Len(d) /\ m \in 1 .. i - 1 /\ ~(m <= Len(q)) /\ m - Len(q) = j
      BY <1>1, <3>2
    <3> HIDE DEF m
    <3>4. w[m] = d[j]
      BY <1>1, <3>3
    <3> QED
      BY <3>1, <3>3, <3>4
  <2> HIDE DEF k
  <2> QED
    BY <2>1, <2>2, <2>3 DEF Backed
<1> QED
  BY <1>1, <1>3, <1>4

(* Everything the spool holds.                                             *)
LEMMA AcceptedIsHeld ==
  ASSUME TypeInv, SpoolInv, NEW e \in accepted
  PROVE  Logged(e) \/ e \in Before(Len(segments) + 1)
<1>1. Len(segments) \in Nat /\ DOMAIN segments = 1 .. Len(segments)
  BY QueueTypes
<1>2. 1 .. Len(segments) + 1 - 1 = 1 .. Len(segments)
  BY <1>1
<1> QED
  BY <1>1, <1>2 DEF SpoolInv, Before

(* A segment for a batch whose predecessors are logged or in the spool.    *)
LEMMA SegmentAdded ==
  ASSUME TypeInv, SpoolInv, OrderInv, UNCHANGED log,
         NEW batch \in Seq(Events), NEW tracked \in BOOLEAN,
         segments' = Append(segments, Segment(batch, tracked)),
         accepted' \subseteq accepted \cup Range(batch),
         Backed(batch, Before(Len(segments) + 1))
  PROVE  /\ segments' \in Seq(SegmentType)
         /\ SpoolInv'
         /\ \A s \in DOMAIN segments' : Backed(segments[s].events, Before(s))'
<1> DEFINE N == Len(segments)
           new == Segment(batch, tracked)
<1>1. /\ new \in SegmentType /\ new.events = batch /\ new.ack = 0 /\ new.saved = 0
      /\ segments \in Seq(SegmentType) /\ N \in Nat /\ DOMAIN segments = 1 .. N
  BY QueueTypes DEF Segment, SegmentType, TypeInv, TypeOK
<1> HIDE DEF new
<1>2. /\ segments' \in Seq(SegmentType)
      /\ DOMAIN segments' = 1 .. N + 1
      /\ \A s \in 1 .. N : segments'[s] = segments[s]
      /\ segments'[N + 1] = new
  BY <1>1, AppendProperties, LenProperties DEF new
<1>3. Grows
  BY SameLog
<1>4. \A i \in DOMAIN batch : i > 0
  BY RangeOfSequence
<1>5. ASSUME NEW s \in DOMAIN segments', NEW i \in DOMAIN segments'[s].events,
             i <= segments'[s].ack \/ i <= segments'[s].saved
      PROVE  \E e \in Events : e = segments'[s].events[i] /\ Logged(e)'
  <2>1. s # N + 1
    BY <1>1, <1>2, <1>4, <1>5
  <2>2. s \in DOMAIN segments /\ segments'[s] = segments[s]
    BY <1>1, <1>2, <2>1
  <2>3. Logged(segments[s].events[i]) /\ segments[s].events[i] \in Events
    BY <1>5, <2>2, QueueTypes DEF SpoolInv
  <2>4. PICK e \in Events : e = segments[s].events[i] /\ Logged(e)
    BY <2>3
  <2> QED
    BY <1>3, <2>2, <2>4 DEF Grows
<1>6. ASSUME NEW e \in accepted'
      PROVE  Logged(e)' \/ \E s \in DOMAIN segments' : e \in Range(segments'[s].events)
  <2>1. CASE e \in Range(batch)
    <3>1. N + 1 \in DOMAIN segments' /\ e \in Range(segments'[N + 1].events)
      BY <1>1, <1>2, <2>1
    <3> QED
      BY <3>1
  <2>2. CASE e \in accepted
    <3>1. e \in Events
      BY <2>2 DEF TypeInv, TypeOK
    <3>2. CASE Logged(e)
      BY <1>3, <3>1, <3>2 DEF Grows
    <3>3. CASE \E s \in DOMAIN segments : e \in Range(segments[s].events)
      <4>1. PICK s \in DOMAIN segments : e \in Range(segments[s].events)
        BY <3>3
      <4>2. s \in DOMAIN segments' /\ segments'[s] = segments[s]
        BY <1>1, <1>2
      <4> QED
        BY <4>1, <4>2
    <3> QED
      BY <2>2, <3>2, <3>3 DEF SpoolInv
  <2> QED
    BY <2>1, <2>2
<1>7. ASSUME NEW s \in DOMAIN segments'
      PROVE  Backed(segments[s].events, Before(s))'
  <2>1. Before(s)' = Before(s)
    <3>1. \A t \in 1 .. s - 1 : segments'[t] = segments[t]
      BY <1>1, <1>2
    <3> QED
      BY <3>1 DEF Before
  <2>2. CASE s = N + 1
    <3>1. segments'[s].events = batch
      BY <1>1, <1>2, <2>2
    <3>2. Backed(batch, Before(s))'
      BY <1>3, <2>1, <2>2, BackedGrows
    <3> QED
      BY <3>1, <3>2 DEF Backed
  <2>3. CASE s # N + 1
    <3>1. s \in DOMAIN segments /\ segments'[s] = segments[s]
      BY <1>1, <1>2, <2>3
    <3>2. segments[s].events \in Seq(Events) /\ Backed(segments[s].events, Before(s))
      BY <3>1, QueueTypes DEF OrderInv, SegmentType
    <3> DEFINE q == segments[s].events
    <3>3. segments'[s].events = q
      BY <3>1
    <3> HIDE DEF Before
    <3> QED
      BY <1>3, <2>1, <3>2, <3>3, BackedGrows
  <2> QED
    BY <2>2, <2>3
<1>8. SpoolInv'
  <2>1. ASSUME NEW s \in DOMAIN segments', NEW i \in DOMAIN segments'[s].events,
               i <= segments'[s].ack \/ i <= segments'[s].saved
        PROVE  Logged(segments[s].events[i])'
    BY <1>5, <2>1 DEF Logged, Run
  <2> QED
    BY <1>6, <2>1 DEF SpoolInv
<1> QED
  BY <1>2, <1>7, <1>8

(* The events of a post, in order, each behind its predecessor.            *)
LEMMA BatchElements ==
  ASSUME NEW p \in Peers, NEW from \in 1 .. MaxEvents, NEW upto \in 1 .. MaxEvents,
         from <= upto
  PROVE  /\ Batch(p, from, upto) \in Seq(Events)
         /\ <<p, upto>> \in Range(Batch(p, from, upto))
         /\ \A A : (from > 1 => Logged(<<p, from - 1>>) \/ <<p, from - 1>> \in A) =>
                     Backed(Batch(p, from, upto), A)
<1> DEFINE n == upto - from + 1
           b == Batch(p, from, upto)
<1>1. n \in Nat /\ n > 0 /\ from \in Nat /\ upto \in Nat
  BY BoundsAssumption
<1>2. \A i \in 1 .. n : from + i - 1 \in 1 .. MaxEvents
  BY BoundsAssumption
<1>3. b = [i \in 1 .. n |-> <<p, from + i - 1>>]
  BY DEF Batch
<1>4. \A i \in 1 .. n : b[i] = <<p, from + i - 1>> /\ b[i] \in Events
  BY <1>2, <1>3, BoundsAssumption DEF Events
<1>5. b \in [1 .. n -> Events] /\ DOMAIN b = 1 .. n
  BY <1>3, <1>4
<1>6. b \in Seq(Events)
  BY <1>1, <1>5, SeqDef
<1>7. <<p, upto>> \in Range(b)
  <2>1. n \in 1 .. n /\ from + n - 1 = upto
    BY <1>1
  <2>2. b[n] = <<p, upto>>
    BY <1>4, <2>1
  <2> QED
    BY <1>5, <2>1, <2>2 DEF Range
<1> HIDE DEF b, n
<1>8. ASSUME NEW A, from > 1 => Logged(<<p, from - 1>>) \/ <<p, from - 1>> \in A
      PROVE  Backed(b, A)
  <2> SUFFICES ASSUME NEW i \in 1 .. n, b[i][2] > 1
               PROVE  \/ Logged(Prev(b[i]))
                      \/ Prev(b[i]) \in A
                      \/ \E j \in 1 .. i - 1 : b[j] = Prev(b[i])
    BY <1>5 DEF Backed
  <2>1. b[i] = <<p, from + i - 1>> /\ Prev(b[i]) = <<p, from + i - 1 - 1>>
    BY <1>4 DEF Prev
  <2>2. CASE i = 1
    <3>1. from + i - 1 - 1 = from - 1 /\ from + i - 1 = from
      BY <1>1, <2>2
    <3>2. from > 1
      BY <2>1, <3>1
    <3> QED
      BY <1>8, <2>1, <3>1, <3>2
  <2>3. CASE i # 1
    <3>1. i - 1 \in 1 .. i - 1 /\ i - 1 \in 1 .. n /\ from + (i - 1) - 1 = from + i - 1 - 1
      BY <1>1, <2>3
    <3>2. b[i - 1] = <<p, from + (i - 1) - 1>>
      BY <1>4, <3>1
    <3> QED
      BY <2>1, <3>1, <3>2
  <2> QED
    BY <2>2, <2>3
<1> QED
  BY <1>6, <1>7, <1>8 DEF b

(* A post is taken, refused or not saved.                                  *)
LEMMA enqueueHolds ==
  ASSUME IInv, NEW p \in Peers, NEW from \in 1 .. MaxEvents, NEW upto \in 1 .. MaxEvents,
         from <= upto, from > 1 => <<p, from - 1>> \in accepted,
         NEW outcome \in Outcomes, enqueueEvents(Batch(p, from, upto), outcome),
         UNCHANGED <<flight, answer, terminations, logVars, exits>>
  PROVE  /\ events' \in Seq(Events)
         /\ segments' \in Seq(SegmentType)
         /\ accepted' \subseteq Events
         /\ accepted \subseteq accepted'
         /\ faults' \in 0 .. MaxFaults
         /\ spoolError' \in BOOLEAN
         /\ outcome = "ok" => <<p, upto>> \in accepted'
         /\ SpoolInv' /\ RequestInv' /\ QueueInv' /\ LogInv' /\ OrderInv'
<1> DEFINE b == Batch(p, from, upto)
           prev == <<p, from - 1>>
<1>1. /\ TypeInv /\ SpoolInv /\ RequestInv /\ QueueInv /\ LogInv /\ OrderInv
      /\ UNCHANGED <<batches, seen, log, repeatable>>
  BY DEF IInv, logVars
<1>2. Grows
  BY <1>1, SameLog
<1>3. RequestInv' /\ LogInv'
  BY <1>1, <1>2, SameRequests, SameLogs
<1>4. /\ b \in Seq(Events)
      /\ <<p, upto>> \in Range(b)
      /\ \A A : (from > 1 => Logged(prev) \/ prev \in A) => Backed(b, A)
  BY BatchElements
<1>5. /\ Len(b) \in Nat /\ DOMAIN b = 1 .. Len(b) /\ Range(b) \subseteq Events
      /\ events \in Seq(Events) /\ segments \in Seq(SegmentType) /\ accepted \subseteq Events
      /\ faults \in 0 .. MaxFaults
  BY <1>1, <1>4, RangeOfSequence DEF TypeInv, TypeOK, SegmentType
<1> HIDE DEF b
<1>6. Backed(b, Before(Len(segments) + 1))
  BY <1>1, <1>4, AcceptedIsHeld
<1>7. Backed(b, Range(flight) \cup Range(events))
  <2>1. ASSUME from > 1
        PROVE  Logged(prev) \/ prev \in Range(flight) \cup Range(events)
    <3>1. Logged(prev) \/ prev \in Range(events) \cup Range(flight) \cup Range(terminations)
      BY <1>1, <2>1 DEF QueueInv
    <3>2. prev \notin Range(terminations)
      <4>1. prev[2] = from - 1 /\ from - 1 # 0
        BY <2>1
      <4> QED
        BY <1>1, <4>1 DEF TypeInv, Range
    <3> QED
      BY <3>1, <3>2
  <2> HIDE DEF prev
  <2> QED
    BY <1>4, <2>1
<1>8. ASSUME segments' = Append(segments, Segment(b, TRUE)) \/
             segments' = Append(segments, Segment(b, FALSE)),
             accepted' \subseteq accepted \cup Range(b)
      PROVE  /\ segments' \in Seq(SegmentType)
             /\ SpoolInv'
             /\ \A s \in DOMAIN segments' : Backed(segments[s].events, Before(s))'
  BY <1>1, <1>4, <1>6, <1>8, SegmentAdded
<1>9. flight \in Seq(Events) /\ \A c \in batches : c.events \in Seq(Events)
  BY <1>1 DEF TypeInv, TypeOK, BatchType
<1>10. CASE outcome = "ok"
  <2>1. /\ segments' = Append(segments, Segment(b, TRUE))
        /\ events' = events \o b
        /\ accepted' = accepted \cup Range(b)
        /\ UNCHANGED <<faults, spoolError>>
    BY <1>10 DEF enqueueEvents, b
  <2>2. /\ segments' \in Seq(SegmentType)
        /\ SpoolInv'
        /\ \A s \in DOMAIN segments' : Backed(segments[s].events, Before(s))'
    BY <1>8, <2>1
  <2>3. events' \in Seq(Events) /\ Range(events') = Range(events) \cup Range(b)
    BY <1>4, <1>5, <2>1, ConcatProperties, RangeConcatenation
  <2>4. QueueInv'
    <3> SUFFICES ASSUME NEW e \in accepted' \cup {Marker(q) : q \in exits}
                 PROVE  \/ Logged(e)'
                        \/ e \in Range(events') \cup Range(flight) \cup Range(terminations)
      BY DEF QueueInv, Marker
    <3>1. CASE e \in Range(b)
      BY <2>3, <3>1
    <3>2. CASE e \in accepted \cup {Marker(q) : q \in exits}
      <4>1. e \in Events
        BY <1>1, <3>2, BoundsAssumption, SMTT(30) DEF TypeInv, TypeOK, Marker, Events
      <4> QED
        BY <1>1, <1>2, <2>3, <3>2, <4>1 DEF QueueInv, Grows
    <3> QED
      BY <2>1, <3>1, <3>2
  <2>5. Backed(events, Range(flight))'
    <3>1. Backed(events \o b, Range(flight))
      BY <1>1, <1>4, <1>5, <1>7, BackedConcat DEF OrderInv
    <3>2. PICK w \in Seq(Events), A \in {Range(flight)} : w = events \o b
      BY <2>1, <2>3
    <3>3. Backed(w, A)'
      BY <1>2, <3>1, <3>2, BackedGrows
    <3>4. events' = w /\ Range(flight)' = A
      BY <2>1, <3>2
    <3> QED
      BY <3>3, <3>4 DEF Backed
  <2>6. Backed(flight, {})' /\ \A c \in batches' : Backed(c.events, {})'
    BY <1>1, <1>2, <1>9, BackedGrows DEF OrderInv
  <2>7. OrderInv'
    BY <2>2, <2>5, <2>6 DEF OrderInv
  <2>8. spoolError' \in BOOLEAN
    BY <1>1, <2>1 DEF TypeInv, TypeOK
  <2> QED
    BY <1>3, <1>4, <1>5, <2>1, <2>2, <2>3, <2>4, <2>7, <2>8
<1>11. CASE outcome \in {"full", "unsaved", "saved"}
  <2>1. UNCHANGED <<events, accepted>>
    BY <1>11 DEF enqueueEvents
  <2>2. faults' \in 0 .. MaxFaults
    <3>1. faults' = faults \/ Fault
      BY <1>11 DEF enqueueEvents
    <3> QED
      BY <1>5, <3>1, BoundsAssumption DEF Fault
  <2>3. spoolError' \in BOOLEAN
    BY <1>1, <1>11 DEF enqueueEvents, TypeInv, TypeOK
  <2>4. QueueInv'
    BY <1>1, <1>2, <2>1, SameQueue
  <2>5. CASE segments' = segments
    <3>1. SpoolInv' /\ OrderInv'
      BY <1>1, <1>2, <2>1, <2>5, SameSpool, SameOrder
    <3> QED
      BY <1>3, <1>5, <1>11, <2>1, <2>2, <2>3, <2>4, <2>5, <3>1
  <2>6. CASE segments' = Append(segments, Segment(b, FALSE))
    <3>1. /\ segments' \in Seq(SegmentType)
          /\ SpoolInv'
          /\ \A s \in DOMAIN segments' : Backed(segments[s].events, Before(s))'
      BY <1>8, <2>1, <2>6
    <3>2. /\ Backed(flight, {})' /\ Backed(events, Range(flight))'
          /\ \A c \in batches' : Backed(c.events, {})'
      BY <1>1, <1>2, <1>5, <1>9, <2>1, BackedGrows DEF OrderInv
    <3>3. OrderInv'
      BY <3>1, <3>2 DEF OrderInv
    <3> QED
      BY <1>3, <1>5, <1>11, <2>1, <2>2, <2>3, <2>4, <3>1, <3>3
  <2>7. segments' = segments \/ segments' = Append(segments, Segment(b, FALSE))
    BY <1>11 DEF enqueueEvents, b
  <2> QED
    BY <2>5, <2>6, <2>7
<1> QED
  BY <1>10, <1>11 DEF Outcomes

(* The Agent handles a post, whatever becomes of it.                       *)
LEMMA handleTelemetryPreserves ==
  ASSUME IInv, NEW p \in Peers, NEW outcome \in Outcomes, handleTelemetry(p, outcome)
  PROVE  IInv'
<1> DEFINE l == <<p, sent[p] + 1, post[p].upto>>
<1>1. /\ l \in Peers \X (1 .. MaxEvents) \X (1 .. MaxEvents)
      /\ l[2] <= l[3]
      /\ l[2] > 1 => <<l[1], l[2] - 1>> \in accepted
  BY LatePost DEF IInv, handleTelemetry
<1>2. /\ enqueueEvents(Batch(p, l[2], l[3]), outcome)
      /\ UNCHANGED <<alive, sent, latePosts, flight, answer, terminations, closed, logVars, exits>>
      /\ post[p].phase = "sent"
      /\ post' = [post EXCEPT ![p].phase = IF outcome = "ok" THEN "ok" ELSE "refused"]
  BY DEF handleTelemetry
<1>3. l[1] = p /\ l[2] \in 1 .. MaxEvents /\ l[3] \in 1 .. MaxEvents /\ l[3] = post[p].upto
  BY <1>1
<1> HIDE DEF l
<1>4. /\ events' \in Seq(Events)
      /\ segments' \in Seq(SegmentType)
      /\ accepted' \subseteq Events
      /\ accepted \subseteq accepted'
      /\ faults' \in 0 .. MaxFaults
      /\ spoolError' \in BOOLEAN
      /\ outcome = "ok" => <<p, l[3]>> \in accepted'
      /\ SpoolInv' /\ RequestInv' /\ QueueInv' /\ LogInv' /\ OrderInv'
  BY <1>1, <1>2, <1>3, enqueueHolds
<1>5. post' \in [Peers -> [phase : {"none", "sent", "ok", "refused"}, upto : 0 .. MaxEvents]]
  BY <1>2 DEF IInv, TypeInv, TypeOK
<1>6. \A q \in Peers : post'[q].phase # "none" => post'[q].upto > sent[q]
  BY <1>2 DEF IInv, TypeInv, TypeOK
<1>7. TypeInv'
  BY <1>2, <1>4, <1>5, <1>6 DEF IInv, TypeInv, TypeOK, SegmentType, logVars
<1>8. PostInv'
  <2>1. PostInv /\ TypeInv
    BY DEF IInv
  <2>2. \A q \in Peers : sent'[q] > 0 => <<q, sent'[q]>> \in accepted'
    BY <1>2, <1>4, <2>1 DEF PostInv
  <2>3. \A k \in latePosts' : k[2] > 1 => <<k[1], k[2] - 1>> \in accepted'
    BY <1>2, <1>4, <2>1 DEF PostInv
  <2>4. ASSUME NEW q \in Peers, post'[q].phase = "ok"
        PROVE  <<q, post'[q].upto>> \in accepted'
    <3>1. CASE q = p
      BY <1>2, <1>3, <1>4, <2>1, <2>4, <3>1 DEF TypeInv, TypeOK
    <3>2. CASE q # p
      BY <1>2, <1>4, <2>1, <2>4, <3>2 DEF PostInv, TypeInv, TypeOK
    <3> QED
      BY <3>1, <3>2
  <2> QED
    BY <2>2, <2>3, <2>4 DEF PostInv
<1> QED
  BY <1>4, <1>7, <1>8 DEF IInv

(* The Agent handles a post its Peer has given up on.                      *)
LEMMA handleLatePreserves ==
  ASSUME IInv, NEW l \in latePosts, NEW outcome \in Outcomes, handleLate(l, outcome)
  PROVE  IInv'
<1>1. /\ l[1] \in Peers /\ l[2] \in 1 .. MaxEvents /\ l[3] \in 1 .. MaxEvents
      /\ l[2] <= l[3]
      /\ l[2] > 1 => <<l[1], l[2] - 1>> \in accepted
  BY DEF IInv, TypeInv, TypeOK, PostInv
<1>2. /\ enqueueEvents(Batch(l[1], l[2], l[3]), outcome)
      /\ UNCHANGED <<alive, sent, post, flight, answer, terminations, closed, logVars, exits>>
      /\ latePosts' = latePosts \ {l}
  BY DEF handleLate
<1>3. /\ events' \in Seq(Events)
      /\ segments' \in Seq(SegmentType)
      /\ accepted' \subseteq Events
      /\ accepted \subseteq accepted'
      /\ faults' \in 0 .. MaxFaults
      /\ spoolError' \in BOOLEAN
      /\ SpoolInv' /\ RequestInv' /\ QueueInv' /\ LogInv' /\ OrderInv'
  BY <1>1, <1>2, enqueueHolds
<1>4. TypeInv'
  BY <1>2, <1>3 DEF IInv, TypeInv, TypeOK, SegmentType, logVars
<1>5. PostInv'
  BY <1>2, <1>3 DEF IInv, PostInv
<1> QED
  BY <1>3, <1>4, <1>5 DEF IInv

(* A container is gone and its marker waits, spooled or not.               *)
LEMMA queueTerminationPreserves ==
  ASSUME IInv, NEW p \in Peers, NEW outcome \in Outcomes \ {"full"},
         queueTermination(p, outcome)
  PROVE  IInv'
<1> DEFINE l == <<p, sent[p] + 1, post[p].upto>>
           b == <<Marker(p)>>
<1>1. /\ TypeInv /\ SpoolInv /\ RequestInv /\ QueueInv /\ LogInv /\ OrderInv /\ PostInv
  BY DEF IInv
<1>2. /\ alive' = [alive EXCEPT ![p] = FALSE]
      /\ post' = [post EXCEPT ![p] = NoPost]
      /\ latePosts' = latePosts \/ (post[p].phase # "none" /\ latePosts' = latePosts \cup {l})
      /\ terminations' = Append(terminations, Marker(p))
      /\ exits' = exits \cup {p}
      /\ UNCHANGED <<sent, events, flight, answer, closed, logVars>>
  <2>1. latePosts' = latePosts \/ (post[p].phase # "none" /\ latePosts' = latePosts \cup {l})
    <3>1. latePosts' = IF post[p].phase = "sent" THEN latePosts \cup {l} ELSE latePosts
      BY DEF queueTermination
    <3> HIDE DEF l
    <3> QED
      BY <3>1
  <2> QED
    BY <2>1 DEF queueTermination
<1>3. Grows
  BY <1>2, SameLog DEF logVars
<1>4. Marker(p) \in Events /\ Marker(p)[2] = 0
  BY BoundsAssumption DEF Marker, Events
<1>5. b \in Seq(Events) /\ Range(b) = {Marker(p)} /\ DOMAIN b = 1 .. 1 /\ b[1] = Marker(p)
  BY <1>4 DEF Range
<1>6. Backed(b, Before(Len(segments) + 1))
  BY <1>4, <1>5 DEF Backed
<1>7. /\ segments' = segments \/ segments' = Append(segments, Segment(b, TRUE))
         \/ segments' = Append(segments, Segment(b, FALSE))
      /\ accepted' = accepted
         \/ (accepted' = accepted \cup {Marker(p)} /\ segments' = Append(segments, Segment(b, TRUE)))
      /\ faults' = faults \/ Fault
  <2>1. CASE outcome = "ok"
    BY <2>1 DEF queueTermination
  <2>2. CASE outcome = "unsaved"
    BY <2>2 DEF queueTermination
  <2>3. CASE outcome = "saved"
    BY <2>3 DEF queueTermination
  <2> QED
    BY <2>1, <2>2, <2>3 DEF Outcomes
<1>8. spoolError' \in BOOLEAN
  <2>1. spoolError' = spoolError \/ spoolError' = TRUE
    BY DEF queueTermination, Outcomes
  <2> QED
    BY <1>1, <2>1 DEF TypeInv, TypeOK
<1> HIDE DEF b
<1>9. /\ segments' \in Seq(SegmentType)
      /\ SpoolInv'
      /\ \A s \in DOMAIN segments' : Backed(segments[s].events, Before(s))'
  <2>1. accepted' \subseteq accepted \cup Range(b)
    BY <1>5, <1>7
  <2>2. CASE segments' = segments
    <3>1. accepted' = accepted
      <4>1. \A t \in {TRUE, FALSE} : Append(segments, Segment(b, t)) # segments
        BY <1>1, <1>5, AppendProperties, LenProperties DEF Segment, TypeInv, TypeOK
      <4> QED
        BY <1>7, <2>2, <4>1
    <3>2. SpoolInv'
      BY <1>1, <1>3, <2>2, <3>1, SameSpool
    <3>3. \A s \in DOMAIN segments' : Backed(segments[s].events, Before(s))'
      <4> SUFFICES ASSUME NEW s \in DOMAIN segments'
                   PROVE  Backed(segments[s].events, Before(s))'
        OBVIOUS
      <4>1. segments[s].events \in Seq(Events) /\ Backed(segments[s].events, Before(s))
        BY <1>1, <2>2, QueueTypes DEF OrderInv, SegmentType
      <4>2. Before(s)' = Before(s) /\ segments'[s].events = segments[s].events
        BY <2>2 DEF Before
      <4> HIDE DEF Before
      <4> QED
        BY <1>3, <4>1, <4>2, BackedGrows
    <3>4. segments' \in Seq(SegmentType)
      BY <1>1, <2>2 DEF TypeInv, TypeOK, SegmentType
    <3> QED
      BY <3>2, <3>3, <3>4
  <2>3. CASE segments' = Append(segments, Segment(b, TRUE))
             \/ segments' = Append(segments, Segment(b, FALSE))
    BY <1>1, <1>2, <1>5, <1>6, <2>1, <2>3, SegmentAdded DEF logVars
  <2> QED
    BY <1>7, <2>2, <2>3
<1>10. RequestInv' /\ LogInv'
  BY <1>1, <1>2, <1>3, SameRequests, SameLogs DEF logVars
<1>11. /\ terminations \in Seq(Events)
       /\ terminations' \in Seq(Events)
       /\ Range(terminations') = Range(terminations) \cup {Marker(p)}
       /\ \A i \in DOMAIN terminations' : terminations'[i][2] = 0
  <2>1. terminations \in Seq(Events) /\ \A i \in DOMAIN terminations : terminations[i][2] = 0
    BY <1>1 DEF TypeInv, TypeOK
  <2>2. /\ terminations' \in Seq(Events)
        /\ Len(terminations') = Len(terminations) + 1
        /\ \A i \in 1 .. Len(terminations) : terminations'[i] = terminations[i]
        /\ terminations'[Len(terminations) + 1] = Marker(p)
    BY <1>2, <1>4, <2>1, AppendProperties
  <2>3. /\ Len(terminations) \in Nat
        /\ DOMAIN terminations = 1 .. Len(terminations)
        /\ DOMAIN terminations' = 1 .. Len(terminations) + 1
    BY <2>1, <2>2, LenProperties
  <2>4. \A i \in DOMAIN terminations' : terminations'[i][2] = 0
    BY <1>4, <2>1, <2>2, <2>3
  <2>5. Range(terminations') = Range(terminations) \cup {Marker(p)}
    BY <2>2, <2>3 DEF Range
  <2> QED
    BY <2>1, <2>2, <2>4, <2>5
<1>12. QueueInv'
  <2> SUFFICES ASSUME NEW e \in accepted' \cup {Marker(q) : q \in exits'}
               PROVE  \/ Logged(e)'
                      \/ e \in Range(events') \cup Range(flight') \cup Range(terminations')
    BY DEF QueueInv, Marker
  <2>1. CASE e = Marker(p)
    BY <1>11, <2>1
  <2>2. CASE e # Marker(p)
    <3>1. e \in accepted \cup {Marker(q) : q \in exits}
      BY <1>2, <1>7, <2>2
    <3>2. e \in Events
      BY <1>1, <3>1, BoundsAssumption DEF TypeInv, TypeOK, Marker, Events
    <3> QED
      BY <1>1, <1>2, <1>3, <1>11, <3>1, <3>2 DEF QueueInv, Grows
  <2> QED
    BY <2>1, <2>2
<1>13. OrderInv'
  <2>1. flight \in Seq(Events) /\ events \in Seq(Events)
        /\ \A c \in batches : c.events \in Seq(Events)
    BY <1>1 DEF TypeInv, TypeOK, BatchType
  <2>2. /\ Backed(flight, {})' /\ Backed(events, Range(flight))'
        /\ \A c \in batches' : Backed(c.events, {})'
    BY <1>1, <1>2, <1>3, <2>1, BackedGrows DEF OrderInv, logVars
  <2> QED
    BY <1>9, <2>2 DEF OrderInv
<1>14. TypeInv'
  <2>1. alive' \in [Peers -> BOOLEAN] /\ exits' \subseteq Peers
    BY <1>1, <1>2 DEF TypeInv, TypeOK
  <2>2. post' \in [Peers -> [phase : {"none", "sent", "ok", "refused"}, upto : 0 .. MaxEvents]]
    BY <1>1, <1>2, BoundsAssumption DEF NoPost, TypeInv, TypeOK
  <2>3. \A q \in Peers : post'[q].phase # "none" => post'[q].upto > sent[q]
    BY <1>1, <1>2 DEF NoPost, TypeInv, TypeOK
  <2>4. accepted' \subseteq Events /\ faults' \in 0 .. MaxFaults
    <3>1. accepted' \subseteq accepted \cup {Marker(p)}
      BY <1>7
    <3>2. accepted' \subseteq Events
      BY <1>1, <1>4, <3>1 DEF TypeInv, TypeOK
    <3>3. faults' = faults \/ Fault
      BY <1>7
    <3>4. faults \in 0 .. MaxFaults
      BY <1>1 DEF TypeInv, TypeOK
    <3> QED
      BY <3>2, <3>3, <3>4, BoundsAssumption DEF Fault
  <2>5. /\ latePosts' \subseteq Peers \X (1 .. MaxEvents) \X (1 .. MaxEvents)
        /\ \A k \in latePosts' : k[2] <= k[3]
    <3>1. CASE latePosts' = latePosts
      BY <1>1, <3>1 DEF TypeInv, TypeOK
    <3>2. CASE post[p].phase # "none" /\ latePosts' = latePosts \cup {l}
      BY <1>1, <3>2, LatePost DEF TypeInv, TypeOK
    <3> QED
      BY <1>2, <3>1, <3>2
  <2> QED
    BY <1>1, <1>2, <1>8, <1>9, <1>11, <2>1, <2>2, <2>3, <2>4, <2>5
       DEF TypeInv, TypeOK, SegmentType, logVars
<1>15. PostInv'
  <2>1. accepted \subseteq accepted'
    BY <1>7
  <2>2. \A q \in Peers : sent'[q] > 0 => <<q, sent'[q]>> \in accepted'
    BY <1>1, <1>2, <2>1 DEF PostInv
  <2>3. \A q \in Peers : post'[q].phase = "ok" => <<q, post'[q].upto>> \in accepted'
    BY <1>1, <1>2, <2>1 DEF NoPost, PostInv, TypeInv, TypeOK
  <2>4. \A k \in latePosts' : k[2] > 1 => <<k[1], k[2] - 1>> \in accepted'
    <3>1. CASE latePosts' = latePosts
      BY <1>1, <2>1, <3>1 DEF PostInv
    <3>2. CASE post[p].phase # "none" /\ latePosts' = latePosts \cup {l}
      <4>1. l[2] > 1 => <<l[1], l[2] - 1>> \in accepted
        BY <1>1, <3>2, LatePost
      <4> HIDE DEF l
      <4> QED
        BY <1>1, <2>1, <3>2, <4>1 DEF PostInv
    <3> QED
      BY <1>2, <3>1, <3>2
  <2> QED
    BY <2>2, <2>3, <2>4 DEF PostInv
<1> QED
  BY <1>9, <1>10, <1>12, <1>13, <1>14, <1>15 DEF IInv

(* Cutting a queue: the rest is behind what is taken.                      *)
LEMMA QueueCut ==
  ASSUME NEW w \in Seq(Events), NEW n \in 0 .. Len(w), NEW A, Backed(w, A)
  PROVE  /\ Take(w, n) \in Seq(Events) /\ Drop(w, n) \in Seq(Events)
         /\ Range(w) = Range(Take(w, n)) \cup Range(Drop(w, n))
         /\ Backed(Take(w, n), A)
         /\ Backed(Drop(w, n), A \cup Range(Take(w, n)))
<1> DEFINE t == Take(w, n)
           d == Drop(w, n)
<1>1. Len(w) \in Nat /\ n \in Nat /\ DOMAIN w = 1 .. Len(w)
  BY LenProperties
<1>2. /\ t \in Seq(Events) /\ Len(t) = n
      /\ \A i \in 1 .. n : t[i] = w[i]
  BY TakeElements
<1>3. /\ d \in Seq(Events) /\ Len(d) = IF n < Len(w) THEN Len(w) - n ELSE 0
      /\ \A i \in 1 .. Len(d) : i + n \in 1 .. Len(w) /\ d[i] = w[i + n]
  BY <1>1, DropElements
<1>4. DOMAIN t = 1 .. n /\ DOMAIN d = 1 .. Len(d) /\ Len(d) \in Nat
  BY <1>2, <1>3, LenProperties
<1> HIDE DEF t, d
<1>5. \A i \in 1 .. Len(w) : i <= n \/ (i - n \in 1 .. Len(d) /\ d[i - n] = w[i])
  <2> SUFFICES ASSUME NEW i \in 1 .. Len(w), ~(i <= n)
               PROVE  i - n \in 1 .. Len(d) /\ d[i - n] = w[i]
    OBVIOUS
  <2> DEFINE k == i - n
  <2>1. k \in 1 .. Len(d) /\ k + n = i
    <3>1. Len(d) = IF n < Len(w) THEN Len(w) - n ELSE 0
      BY <1>3
    <3>2. i \in Nat /\ n < i /\ i <= Len(w)
      BY <1>1
    <3>3. n < Len(w)
      BY <1>1, <3>2
    <3>4. Len(d) = Len(w) - n
      BY <3>1, <3>3
    <3> QED
      BY <1>1, <1>4, <3>2, <3>4
  <2> HIDE DEF k
  <2>2. d[k] = w[i]
    BY <1>3, <2>1
  <2> QED
    BY <2>1, <2>2 DEF k
<1>6. \A i \in 1 .. n : i \in 1 .. Len(w)
  BY <1>1
<1>7. Range(w) = Range(t) \cup Range(d)
  <2>1. ASSUME NEW e \in Range(w) PROVE e \in Range(t) \cup Range(d)
    <3>1. PICK i \in 1 .. Len(w) : w[i] = e
      BY <1>1 DEF Range
    <3>2. CASE i <= n
      <4>1. i \in 1 .. n
        BY <1>1, <3>2
      <4> QED
        BY <1>2, <1>4, <3>1, <4>1 DEF Range
    <3>3. CASE ~(i <= n)
      BY <1>4, <1>5, <3>1, <3>3 DEF Range
    <3> QED
      BY <3>2, <3>3
  <2>2. Range(t) \subseteq Range(w)
    BY <1>1, <1>2, <1>4, <1>6 DEF Range
  <2>3. Range(d) \subseteq Range(w)
    <3> SUFFICES ASSUME NEW i \in 1 .. Len(d) PROVE d[i] \in Range(w)
      BY <1>4 DEF Range
    <3>1. i + n \in DOMAIN w /\ d[i] = w[i + n]
      BY <1>1, <1>3
    <3> QED
      BY <3>1 DEF Range
  <2> QED
    BY <2>1, <2>2, <2>3
<1>8. Backed(t, A)
  <2> SUFFICES ASSUME NEW i \in 1 .. n, t[i][2] > 1
               PROVE  \/ Logged(Prev(t[i])) \/ Prev(t[i]) \in A
                      \/ \E j \in 1 .. i - 1 : t[j] = Prev(t[i])
    BY <1>4 DEF Backed
  <2>1. t[i] = w[i] /\ i \in DOMAIN w
    BY <1>1, <1>2, <1>6
  <2>2. \A j \in 1 .. i - 1 : t[j] = w[j]
    BY <1>1, <1>2
  <2> QED
    BY <2>1, <2>2 DEF Backed
<1>9. Backed(d, A \cup Range(t))
  <2> SUFFICES ASSUME NEW i \in 1 .. Len(d), d[i][2] > 1
               PROVE  \/ Logged(Prev(d[i])) \/ Prev(d[i]) \in A \cup Range(t)
                      \/ \E j \in 1 .. i - 1 : d[j] = Prev(d[i])
    BY <1>4 DEF Backed
  <2>1. d[i] = w[i + n] /\ i + n \in DOMAIN w /\ i \in Nat
    <3>1. i \in Nat
      BY <1>4
    <3>2. i + n \in 1 .. Len(w) /\ d[i] = w[i + n]
      BY <1>3
    <3> QED
      BY <1>1, <3>1, <3>2
  <2>2. CASE \E j \in 1 .. i + n - 1 : w[j] = Prev(d[i])
    <3>1. PICK j \in 1 .. i + n - 1 : w[j] = Prev(d[i])
      BY <2>2
    <3>2. j \in 1 .. Len(w)
      BY <1>1, <2>1
    <3>3. CASE j <= n
      <4>1. j \in 1 .. n
        BY <1>1, <3>2, <3>3
      <4> QED
        BY <1>2, <1>4, <3>1, <4>1 DEF Range
    <3>4. CASE ~(j <= n)
      <4>1. j - n \in 1 .. Len(d) /\ d[j - n] = w[j]
        BY <1>5, <3>2, <3>4
      <4>2. j - n \in 1 .. i - 1
        BY <1>1, <2>1, <3>2, <3>4
      <4> QED
        BY <3>1, <4>1, <4>2
    <3> QED
      BY <3>3, <3>4
  <2> QED
    BY <2>1, <2>2 DEF Backed
<1> QED
  BY <1>2, <1>3, <1>7, <1>8, <1>9 DEF t, d

(* The Agent takes the next batch off its queue and sends it.              *)
LEMMA flushEventsPreserves ==
  ASSUME IInv, flushEvents
  PROVE  IInv'
<1> DEFINE room == IF Len(events) >= Limit THEN 0 ELSE Limit - Len(events)
           admitted == IF Len(terminations) <= room THEN Len(terminations) ELSE room
           joined == Take(terminations, admitted)
           queue == events \o joined
           count == IF Len(queue) <= MaxBatch THEN Len(queue) ELSE MaxBatch
           batch == [events |-> flight', todo |-> {Run(e) : e \in Range(flight')}, live |-> TRUE]
<1>1. /\ TypeInv /\ SpoolInv /\ RequestInv /\ QueueInv /\ LogInv /\ OrderInv /\ PostInv
  BY DEF IInv
<1>2. /\ answer = "none"
      /\ flight' = Take(queue, count)
      /\ events' = Drop(queue, count)
      /\ terminations' = Drop(terminations, admitted)
      /\ answer' = "sent"
      /\ batches' = batches \cup {batch}
      /\ UNCHANGED <<peerVars, spoolError, closed, segments, seen, log, repeatable, faults,
                     accepted, exits>>
  BY DEF flushEvents, FlushReady
<1>3. Grows
  BY <1>2, SameLog
<1>4. /\ events \in Seq(Events) /\ Len(events) \in Nat
      /\ terminations \in Seq(Events) /\ Len(terminations) \in Nat
      /\ DOMAIN terminations = 1 .. Len(terminations)
      /\ flight = <<>>
  BY <1>1, <1>2, LenProperties DEF TypeInv, TypeOK
<1>5. admitted \in 0 .. Len(terminations) /\ admitted \in Nat
  BY <1>4, BoundsAssumption
<1> HIDE DEF room, admitted
<1>6. \A A : Backed(terminations, A)
  BY <1>1 DEF Backed, TypeInv
<1>7. /\ joined \in Seq(Events) /\ terminations' \in Seq(Events)
      /\ Range(terminations) = Range(joined) \cup Range(terminations')
      /\ Backed(joined, Range(events))
  BY <1>2, <1>4, <1>5, <1>6, QueueCut
<1>8. \A i \in DOMAIN terminations' : terminations'[i][2] = 0
  <2>1. \A i \in 1 .. Len(terminations') :
          i + admitted \in 1 .. Len(terminations) /\ terminations'[i] = terminations[i + admitted]
    BY <1>2, <1>4, <1>5, DropElements
  <2>2. DOMAIN terminations' = 1 .. Len(terminations')
    BY <1>7, LenProperties
  <2> QED
    BY <1>1, <1>4, <2>1, <2>2 DEF TypeInv
<1> HIDE DEF joined
<1>9. /\ queue \in Seq(Events) /\ Range(queue) = Range(events) \cup Range(joined)
      /\ Len(queue) \in Nat
  BY <1>4, <1>7, ConcatProperties, RangeConcatenation, LenProperties
<1>10. Backed(queue, {})
  <2>1. Backed(events, {})
    <3>1. Range(flight) = {}
      BY <1>4 DEF Range
    <3> QED
      BY <1>1, <3>1 DEF OrderInv
  <2> QED
    BY <1>4, <1>7, <2>1, BackedConcat
<1>11. count \in 0 .. Len(queue)
  BY <1>9, BoundsAssumption
<1> HIDE DEF queue, count
<1>12. /\ flight' \in Seq(Events) /\ events' \in Seq(Events)
       /\ Range(queue) = Range(flight') \cup Range(events')
       /\ Backed(Take(queue, count), {})
       /\ Backed(Drop(queue, count), Range(Take(queue, count)))
  BY <1>2, <1>9, <1>10, <1>11, QueueCut
<1>13. Backed(flight, {})' /\ Backed(events, Range(flight))'
  <2>1. PICK t \in Seq(Events), d \in Seq(Events), A \in {Range(Take(queue, count))} :
          t = Take(queue, count) /\ d = Drop(queue, count)
    BY <1>2, <1>12
  <2>2. Backed(t, {})' /\ Backed(d, A)'
    BY <1>3, <1>12, <2>1, BackedGrows
  <2>3. flight' = t /\ events' = d /\ Range(flight)' = A
    BY <1>2, <2>1
  <2> QED
    BY <2>2, <2>3 DEF Backed
<1>14. batch \in BatchType
  <2>1. \A e \in Range(flight') : Run(e) \in Runs
    <3>1. Range(flight') \subseteq Events
      BY <1>12, RangeOfSequence
    <3> QED
      BY <3>1, RunAssumption DEF Run, Events
  <2> QED
    BY <1>12, <2>1 DEF BatchType
<1>15. TypeInv'
  BY <1>1, <1>2, <1>7, <1>8, <1>12, <1>14 DEF TypeInv, TypeOK, peerVars, BatchType
<1>16. SpoolInv' /\ LogInv'
  BY <1>1, <1>2, <1>3, SameSpool, SameLogs
<1>17. RequestInv'
  <2>1. \A b \in batches : ~b.live
    BY <1>1, <1>2 DEF RequestInv
  <2>2. ASSUME NEW b \in batches', NEW e \in Range(b.events)
        PROVE  Run(e) \in b.todo \/ Logged(e)'
    <3>1. CASE b \in batches
      BY <1>1, <1>3, <3>1, QueueTypes DEF RequestInv, Grows
    <3>2. CASE b = batch
      BY <3>2
    <3> QED
      BY <1>2, <3>1, <3>2
  <2>3. \A b \in batches' : b.live => b = batch
    BY <1>2, <2>1
  <2>4. batch.events = flight'
    OBVIOUS
  <2> HIDE DEF batch
  <2> QED
    BY <1>2, <2>2, <2>3, <2>4 DEF RequestInv, Run
<1>18. QueueInv'
  <2> SUFFICES ASSUME NEW e \in accepted \cup {Marker(p) : p \in exits}
               PROVE  \/ Logged(e)'
                      \/ e \in Range(events') \cup Range(flight') \cup Range(terminations')
    BY <1>2 DEF QueueInv, Marker
  <2>1. e \in Events
    BY <1>1, BoundsAssumption DEF TypeInv, TypeOK, Marker, Events
  <2>2. Range(flight) = {}
    BY <1>4 DEF Range
  <2> QED
    BY <1>1, <1>3, <1>7, <1>9, <1>12, <2>1, <2>2 DEF QueueInv, Grows
<1>19. OrderInv'
  <2>1. \A b \in batches' : Backed(b.events, {})'
    <3> SUFFICES ASSUME NEW b \in batches' PROVE Backed(b.events, {})'
      OBVIOUS
    <3>1. CASE b \in batches
      BY <1>1, <1>3, <3>1, BackedGrows DEF OrderInv, TypeInv, BatchType
    <3>2. CASE b = batch
      BY <1>13, <3>2 DEF Backed
    <3> QED
      BY <1>2, <3>1, <3>2
  <2>2. ASSUME NEW s \in DOMAIN segments' PROVE Backed(segments[s].events, Before(s))'
    <3>1. segments[s].events \in Seq(Events) /\ Backed(segments[s].events, Before(s))
      BY <1>1, <1>2, QueueTypes DEF OrderInv, SegmentType
    <3>2. Before(s)' = Before(s) /\ segments'[s].events = segments[s].events
      BY <1>2 DEF Before
    <3> HIDE DEF Before
    <3> QED
      BY <1>3, <3>1, <3>2, BackedGrows
  <2> QED
    BY <1>13, <2>1, <2>2 DEF OrderInv
<1>20. PostInv'
  BY <1>1, <1>2 DEF PostInv, peerVars
<1> QED
  BY <1>15, <1>16, <1>17, <1>18, <1>19, <1>20 DEF IInv

(* A step of the Agent that leaves the spool and the logs alone.           *)
LEMMA flushTimesOutPreserves ==
  ASSUME IInv, flushTimesOut
  PROVE  IInv'
<1> DEFINE given(b) == [b EXCEPT !.live = FALSE]
<1>1. /\ TypeInv /\ SpoolInv /\ RequestInv /\ QueueInv /\ LogInv /\ OrderInv /\ PostInv
  BY DEF IInv
<1>2. /\ answer' = "failed"
      /\ batches' = {given(b) : b \in batches}
      /\ UNCHANGED <<peerVars, events, flight, terminations, spoolError, closed, segments, seen,
                     log, repeatable, accepted, exits>>
      /\ faults' \in 0 .. MaxFaults
  BY <1>1, BoundsAssumption DEF flushTimesOut, Fault, TypeInv, TypeOK
<1>3. Grows
  BY <1>2, SameLog
<1>4. \A c \in batches' : /\ c \in BatchType /\ ~c.live
                          /\ \E b \in batches : c.events = b.events /\ c.todo = b.todo
  BY <1>1, <1>2 DEF TypeInv, BatchType
<1> HIDE DEF given
<1>5. TypeInv'
  BY <1>1, <1>2, <1>4 DEF TypeInv, TypeOK, peerVars, BatchType
<1>6. SpoolInv' /\ LogInv' /\ QueueInv'
  BY <1>1, <1>2, <1>3, SameSpool, SameLogs, SameQueue
<1>7. RequestInv'
  <2>1. ASSUME NEW c \in batches', NEW e \in Range(c.events)
        PROVE  Run(e) \in c.todo \/ Logged(e)'
    BY <1>1, <1>3, <1>4, QueueTypes DEF RequestInv, Grows
  <2> QED
    BY <1>2, <1>4, <2>1 DEF RequestInv, Run
<1>8. OrderInv'
  <2>1. \A c \in batches' : Backed(c.events, {})'
    BY <1>1, <1>3, <1>4, BackedGrows DEF OrderInv, TypeInv, BatchType
  <2>2. /\ Backed(flight, {})' /\ Backed(events, Range(flight))'
        /\ \A s \in DOMAIN segments' : Backed(segments[s].events, Before(s))'
    BY <1>1, <1>2 DEF OrderInv, Backed, Logged, Run, Before
  <2> QED
    BY <2>1, <2>2 DEF OrderInv
<1>9. PostInv'
  BY <1>1, <1>2 DEF PostInv, peerVars
<1> QED
  BY <1>5, <1>6, <1>7, <1>8, <1>9 DEF IInv

(* The batch in flight goes back to the head of the queue.                 *)
LEMMA RequeuedQueue ==
  ASSUME TypeInv, OrderInv
  PROVE  /\ Requeued \in Seq(Events)
         /\ Range(Requeued) = Range(flight) \cup Range(events)
         /\ Backed(Requeued, {})
<1>1. flight \in Seq(Events) /\ events \in Seq(Events)
  BY DEF TypeInv, TypeOK
<1>2. Backed(flight \o events, {})
  BY <1>1, BackedConcat DEF OrderInv
<1> QED
  BY <1>1, <1>2, ConcatProperties, RangeConcatenation DEF Requeued

(* The Agent puts a batch that was refused back at the head.               *)
LEMMA flushFailedPreserves ==
  ASSUME IInv, flushFailed
  PROVE  IInv'
<1>1. /\ TypeInv /\ SpoolInv /\ RequestInv /\ QueueInv /\ LogInv /\ OrderInv /\ PostInv
  BY DEF IInv
<1>2. /\ answer = "failed" /\ answer' = "none"
      /\ events' = Requeued /\ flight' = <<>>
      /\ UNCHANGED <<peerVars, terminations, spoolError, closed, segments, batches, seen, log,
                     repeatable, faults, accepted, exits>>
  BY DEF flushFailed, logVars
<1>3. Grows
  BY <1>2, SameLog
<1>4. /\ Requeued \in Seq(Events)
      /\ Range(Requeued) = Range(flight) \cup Range(events)
      /\ Backed(Requeued, {})
  BY <1>1, RequeuedQueue
<1>5. Range(flight') = {}
  BY <1>2 DEF Range
<1>6. TypeInv'
  <2>1. flight' \in Seq(Events)
    BY <1>2, EmptySeq
  <2> QED
    BY <1>1, <1>2, <1>4, <2>1 DEF TypeInv, TypeOK, peerVars, BatchType
<1>7. SpoolInv' /\ LogInv'
  BY <1>1, <1>2, <1>3, SameSpool, SameLogs
<1>8. RequestInv'
  <2>1. \A b \in batches : ~b.live
    BY <1>1, <1>2 DEF RequestInv
  <2> QED
    BY <1>1, <1>2, <2>1 DEF RequestInv, Logged, Run
<1>9. QueueInv'
  BY <1>1, <1>2, <1>4 DEF QueueInv, Logged, Run, Marker
<1>10. OrderInv'
  <2>1. PICK w \in Seq(Events) : w = Requeued
    BY <1>4
  <2>2. Backed(w, {})'
    BY <1>3, <1>4, <2>1, BackedGrows
  <2>3. Backed(events, Range(flight))'
    BY <1>2, <1>5, <2>1, <2>2 DEF Backed
  <2>4. Backed(flight, {})'
    BY <1>2 DEF Backed
  <2>5. /\ \A c \in batches' : Backed(c.events, {})'
        /\ \A s \in DOMAIN segments' : Backed(segments[s].events, Before(s))'
    BY <1>1, <1>2 DEF OrderInv, Backed, Logged, Run, Before
  <2> QED
    BY <2>3, <2>4, <2>5 DEF OrderInv
<1>11. PostInv'
  BY <1>1, <1>2 DEF PostInv, peerVars
<1> QED
  BY <1>6, <1>7, <1>8, <1>9, <1>10, <1>11 DEF IInv

(* A queue stays backed when what was ahead of it still is, or is logged.  *)
LEMMA BackedMoves ==
  ASSUME Grows, NEW q \in Seq(Events), NEW A, NEW B, Backed(q, A),
         \A x \in A : x \in B \/ Logged(x)
  PROVE  Backed(q, B)'
<1> SUFFICES ASSUME NEW i \in DOMAIN q, q[i][2] > 1
             PROVE  \/ Logged(Prev(q[i]))'
                    \/ Prev(q[i]) \in B
                    \/ \E j \in 1 .. i - 1 : q[j] = Prev(q[i])
  BY DEF Backed, Prev
<1>1. q[i] \in Events
  BY RangeOfSequence, ElementOfSeq
<1>2. Prev(q[i]) \in Events
  BY <1>1, BoundsAssumption DEF Prev, Events
<1> QED
  BY <1>2 DEF Backed, Grows

(* Segments are dropped once all their events are logged, and the marks of *)
(* the others never pass an event that is not.                             *)
LEMMA SegmentsKept ==
  ASSUME TypeInv, SpoolInv, OrderInv, UNCHANGED <<log, accepted>>,
         NEW P \in SUBSET (1 .. Len(segments)),
         \A s \in 1 .. Len(segments) : s \in P \/ \A e \in Range(segments[s].events) : Logged(e),
         segments' \in Seq(SegmentType),
         NEW f \in [1 .. Len(segments') -> P],
         \A m, n \in 1 .. Len(segments') : m < n => f[m] < f[n],
         \A s \in P : \E n \in 1 .. Len(segments') : f[n] = s,
         \A n \in 1 .. Len(segments') : segments'[n].events = segments[f[n]].events,
         \A n \in 1 .. Len(segments') : \A i \in DOMAIN segments'[n].events :
           i <= segments'[n].ack \/ i <= segments'[n].saved => Logged(segments'[n].events[i])
  PROVE  SpoolInv' /\ \A n \in DOMAIN segments' : Backed(segments[n].events, Before(n))'
<1> DEFINE N == Len(segments)
           M == Len(segments')
<1>1. /\ N \in Nat /\ M \in Nat /\ DOMAIN segments = 1 .. N /\ DOMAIN segments' = 1 .. M
      /\ \A s \in 1 .. N : segments[s].events \in Seq(Events)
      /\ \A n \in 1 .. M : segments'[n].events \in Seq(Events)
  <2>1. \A n \in 1 .. M : segments'[n] \in SegmentType
    BY ElementOfSeq
  <2> QED
    BY <2>1, QueueTypes, LenProperties DEF SegmentType
<1>2. Grows
  BY SameLog
<1>3. SpoolInv'
  <2>1. ASSUME NEW n \in DOMAIN segments', NEW i \in DOMAIN segments'[n].events,
               i <= segments'[n].ack \/ i <= segments'[n].saved
        PROVE  Logged(segments[n].events[i])'
    BY <1>1, <2>1 DEF Logged, Run
  <2>2. ASSUME NEW e \in accepted'
        PROVE  Logged(e)' \/ \E n \in DOMAIN segments' : e \in Range(segments'[n].events)
    <3>1. e \in accepted /\ e \in Events
      BY DEF TypeInv, TypeOK
    <3>2. CASE Logged(e)
      BY <1>2, <3>1, <3>2 DEF Grows
    <3>3. CASE \E s \in DOMAIN segments : e \in Range(segments[s].events)
      <4>1. PICK s \in 1 .. N : e \in Range(segments[s].events)
        BY <1>1, <3>3
      <4>2. CASE s \in P
        <5>1. PICK n \in 1 .. M : f[n] = s
          BY <4>2
        <5>2. segments'[n].events = segments[s].events
          BY <5>1
        <5> QED
          BY <1>1, <4>1, <5>2
      <4>3. CASE Logged(e)
        BY <1>2, <3>1, <4>3 DEF Grows
      <4> QED
        BY <4>1, <4>2, <4>3
    <3> QED
      BY <3>1, <3>2, <3>3 DEF SpoolInv
  <2> QED
    BY <2>1, <2>2 DEF SpoolInv
<1>4. ASSUME NEW n \in DOMAIN segments'
      PROVE  Backed(segments[n].events, Before(n))'
  <2>1. /\ n \in 1 .. M /\ f[n] \in 1 .. N /\ f[n] \in P
        /\ segments'[n].events = segments[f[n]].events
    BY <1>1
  <2>2. PICK q \in Seq(Events), A \in {Before(f[n])}, B \in {Before(n)'} :
          q = segments[f[n]].events
    BY <1>1, <2>1
  <2>3. Backed(q, A)
    BY <1>1, <2>1, <2>2 DEF OrderInv
  <2>4. ASSUME NEW x \in A PROVE x \in B \/ Logged(x)
    <3>1. PICK t \in 1 .. f[n] - 1 : x \in Range(segments[t].events)
      BY <2>2 DEF Before
    <3>2. t \in 1 .. N /\ t < f[n] /\ t \in Nat /\ f[n] \in Nat
      BY <1>1, <2>1
    <3>3. CASE t \in P
      <4>1. PICK m \in 1 .. M : f[m] = t
        BY <3>3
      <4>2. m < n
        <5>1. m \in Nat /\ n \in Nat
          BY <1>1, <2>1
        <5>2. m # n
          BY <3>2, <4>1
        <5>3. ~(n < m)
          <6> SUFFICES ASSUME n < m PROVE FALSE
            OBVIOUS
          <6>1. f[n] < f[m]
            BY <2>1
          <6> QED
            BY <3>2, <4>1, <6>1
        <5> QED
          BY <5>1, <5>2, <5>3
      <4>3. m \in 1 .. n - 1
        BY <1>1, <2>1, <4>2
      <4>4. segments'[m].events = segments[t].events
        BY <4>1
      <4>5. x \in Range(segments'[m].events)
        BY <3>1, <4>4
      <4> QED
        BY <2>2, <4>3, <4>5 DEF Before
    <3>4. CASE t \notin P
      BY <3>1, <3>2, <3>4
    <3> QED
      BY <3>3, <3>4
  <2>5. Backed(q, B)'
    BY <1>2, <2>3, <2>4, BackedMoves
  <2>6. segments'[n].events = q /\ Before(n)' = B
    BY <2>1, <2>2
  <2> HIDE DEF Before
  <2> QED
    BY <2>5, <2>6 DEF Backed
<1> QED
  BY <1>3, <1>4

(* The selected positions of a segment hold events of the batch.           *)
LEMMA SelectedPositions ==
  ASSUME NEW batch, NEW s, NEW i \in Selected(batch, s)
  PROVE  i \in DOMAIN segments[s].events /\ segments[s].events[i] \in Range(batch)
<1>1. PICK e \in Range(batch) : s \in Refs(e) /\ i = Position(s, e)
  BY DEF Selected
<1>2. \E j \in DOMAIN segments[s].events : segments[s].events[j] = e
  BY <1>1 DEF Refs
<1>3. i \in DOMAIN segments[s].events /\ segments[s].events[i] = e
  BY <1>1, <1>2 DEF Position
<1> QED
  BY <1>1, <1>3

(* Acknowledging a logged batch in order keeps the spool's promise.        *)
LEMMA AckHolds ==
  ASSUME TypeInv, SpoolInv, OrderInv, UNCHANGED <<log, accepted>>,
         \A e \in Range(flight) : Logged(e),
         NEW done \in SUBSET DOMAIN segments, NEW saved \in SUBSET DOMAIN segments,
         \A s \in done \cup saved : InOrder(flight, s),
         segments' = AfterAck(flight, done, saved)
  PROVE  /\ segments' \in Seq(SegmentType)
         /\ SpoolInv'
         /\ \A n \in DOMAIN segments' : Backed(segments[n].events, Before(n))'
<1> DEFINE N == Len(segments)
           next(s) == segments[s].ack + Cardinality(Selected(flight, s))
           marked == [s \in DOMAIN segments |->
             IF s \in done THEN [segments[s] EXCEPT !.ack = next(s), !.saved = next(s)]
             ELSE IF s \in saved THEN [segments[s] EXCEPT !.saved = next(s)]
             ELSE segments[s]]
           P == {s \in DOMAIN marked : marked[s].ack < Len(marked[s].events)}
<1>1. segments' = Kept(marked, P)
  BY DEF AfterAck
<1>2. /\ N \in Nat /\ DOMAIN segments = 1 .. N /\ DOMAIN marked = 1 .. N
      /\ \A s \in 1 .. N : /\ segments[s] \in SegmentType
                           /\ segments[s].events \in Seq(Events)
                           /\ segments[s].ack \in Nat
                           /\ Len(segments[s].events) \in Nat
                           /\ DOMAIN segments[s].events = 1 .. Len(segments[s].events)
  BY QueueTypes DEF SegmentType
<1>3. ASSUME NEW s \in 1 .. N
      PROVE  /\ next(s) \in Nat
             /\ s \in done \cup saved =>
                  \A i \in DOMAIN segments[s].events :
                    i <= next(s) => Logged(segments[s].events[i])
  <2>1. Selected(flight, s) \in SUBSET (1 .. Len(segments[s].events))
    BY <1>2, SelectedPositions
  <2>2. IsFiniteSet(1 .. Len(segments[s].events))
    BY <1>2, FS_Interval
  <2>3. IsFiniteSet(Selected(flight, s))
    BY <2>1, <2>2, FS_Subset
  <2>4. Cardinality(Selected(flight, s)) \in Nat
    BY <2>3, FS_CardinalityType
  <2>5. ASSUME s \in done \cup saved, NEW i \in DOMAIN segments[s].events, i <= next(s)
        PROVE  Logged(segments[s].events[i])
    <3>1. CASE i <= segments[s].ack
      BY <1>2, <3>1 DEF SpoolInv
    <3>2. CASE ~(i <= segments[s].ack)
      <4>1. i \in Nat
        BY <1>2
      <4>2. i \in segments[s].ack + 1 .. segments[s].ack + Cardinality(Selected(flight, s))
        BY <1>2, <2>4, <2>5, <3>2, <4>1
      <4>3. i \in Selected(flight, s)
        BY <2>5, <4>2 DEF InOrder
      <4>4. segments[s].events[i] \in Range(flight)
        BY <4>3, SelectedPositions
      <4> QED
        BY <4>4
    <3> QED
      BY <3>1, <3>2
  <2> QED
    BY <1>2, <2>4, <2>5
<1> HIDE DEF next
<1>4. ASSUME NEW s \in 1 .. N
      PROVE  /\ marked[s] \in SegmentType
             /\ marked[s].events = segments[s].events
             /\ \A i \in DOMAIN segments[s].events :
                  i <= marked[s].ack \/ i <= marked[s].saved => Logged(segments[s].events[i])
  <2>0. \A i \in DOMAIN segments[s].events :
          i <= segments[s].ack \/ i <= segments[s].saved => Logged(segments[s].events[i])
    BY <1>2 DEF SpoolInv
  <2>1. CASE s \in done
    <3>1. marked[s] = [segments[s] EXCEPT !.ack = next(s), !.saved = next(s)]
      BY <1>2, <2>1
    <3> HIDE DEF marked
    <3>2. /\ marked[s] \in SegmentType /\ marked[s].events = segments[s].events
          /\ marked[s].ack = next(s) /\ marked[s].saved = next(s)
      BY <1>2, <1>3, <3>1 DEF SegmentType
    <3> QED
      BY <1>3, <2>1, <3>2
  <2>2. CASE s \notin done /\ s \in saved
    <3>1. marked[s] = [segments[s] EXCEPT !.saved = next(s)]
      BY <1>2, <2>2
    <3> HIDE DEF marked
    <3>2. /\ marked[s] \in SegmentType /\ marked[s].events = segments[s].events
          /\ marked[s].ack = segments[s].ack /\ marked[s].saved = next(s)
      BY <1>2, <1>3, <3>1 DEF SegmentType
    <3> QED
      BY <1>3, <2>0, <2>2, <3>2
  <2>3. CASE s \notin done /\ s \notin saved
    <3>1. marked[s] = segments[s]
      BY <1>2, <2>3
    <3> HIDE DEF marked
    <3> QED
      BY <1>2, <2>0, <3>1
  <2> QED
    BY <2>1, <2>2, <2>3
<1> HIDE DEF marked
<1>5. marked \in Seq(SegmentType) /\ Len(marked) = N
  <2>0. \E m \in [1 .. N -> SegmentType] : marked = m
    <3>1. marked = [s \in 1 .. N |-> marked[s]]
      BY <1>2 DEF marked
    <3> QED
      BY <1>4, <3>1
  <2>1. marked \in Seq(SegmentType)
    BY <1>2, <2>0, SeqDef
  <2> QED
    BY <1>2, <2>1, LenProperties
<1>6. P \in SUBSET (1 .. Len(marked)) /\ P \in SUBSET (1 .. N)
  BY <1>2, <1>5
<1>7. \A s \in 1 .. N : s \in P \/ \A e \in Range(segments[s].events) : Logged(e)
  <2> SUFFICES ASSUME NEW s \in 1 .. N, s \notin P, NEW e \in Range(segments[s].events)
               PROVE  Logged(e)
    OBVIOUS
  <2>1. PICK i \in 1 .. Len(segments[s].events) : segments[s].events[i] = e
    BY <1>2 DEF Range
  <2>2. ~(marked[s].ack < Len(segments[s].events)) /\ marked[s].ack \in Nat
    BY <1>2, <1>4 DEF SegmentType
  <2>3. i <= marked[s].ack
    BY <1>2, <2>2
  <2> QED
    BY <1>2, <1>4, <2>1, <2>3
<1> HIDE DEF P
<1>8. segments' \in Seq(SegmentType)
  BY <1>1, <1>5, <1>6, KeptInOrder
<1>9. PICK f \in [1 .. Len(segments') -> P] :
        /\ \A n \in 1 .. Len(segments') : segments'[n] = marked[f[n]]
        /\ \A m, n \in 1 .. Len(segments') : m < n => f[m] < f[n]
        /\ \A i \in P : \E n \in 1 .. Len(segments') : f[n] = i
  <2>1. PICK k : k = segments' /\ k = Kept(marked, P)
    BY <1>1
  <2>2. \E f \in [1 .. Len(k) -> P] :
          /\ \A n \in 1 .. Len(k) : k[n] = marked[f[n]]
          /\ \A m, n \in 1 .. Len(k) : m < n => f[m] < f[n]
          /\ \A i \in P : \E n \in 1 .. Len(k) : f[n] = i
    BY <1>5, <1>6, <2>1, KeptInOrder
  <2> QED
    BY <2>1, <2>2
<1>10. \A n \in 1 .. Len(segments') : f[n] \in 1 .. N
  BY <1>6
<1>11. \A n \in 1 .. Len(segments') : segments'[n].events = segments[f[n]].events
  BY <1>4, <1>9, <1>10
<1>12. \A n \in 1 .. Len(segments') : \A i \in DOMAIN segments'[n].events :
         i <= segments'[n].ack \/ i <= segments'[n].saved => Logged(segments'[n].events[i])
  BY <1>4, <1>9, <1>10
<1> HIDE DEF N
<1>13. P \in SUBSET (1 .. Len(segments))
  BY <1>6 DEF N
<1>14. \A s \in 1 .. Len(segments) : s \in P \/ \A e \in Range(segments[s].events) : Logged(e)
  BY <1>7 DEF N
<1>15. SpoolInv' /\ \A n \in DOMAIN segments' : Backed(segments[n].events, Before(n))'
  BY <1>8, <1>9, <1>11, <1>12, <1>13, <1>14, SegmentsKept
<1> QED
  BY <1>8, <1>15

(* The Agent gives up the batch in flight, for good or to send it again.   *)
LEMMA acknowledgePreserves ==
  ASSUME IInv, acknowledge
  PROVE  IInv'
<1>1. /\ TypeInv /\ SpoolInv /\ RequestInv /\ QueueInv /\ LogInv /\ OrderInv /\ PostInv
  BY DEF IInv
<1>2. /\ answer = "ok" /\ answer' = "none" /\ flight' = <<>>
      /\ \A s \in Acknowledged(flight) : InOrder(flight, s)
      /\ segments' = AfterAck(flight, Acknowledged(flight), {})
      /\ UNCHANGED <<peerVars, events, terminations, closed, batches, seen, log, repeatable,
                     faults, accepted, exits>>
  BY DEF acknowledge, logVars
<1>3. Grows
  BY <1>2, SameLog
<1>4. \A e \in Range(flight) : Logged(e)
  BY <1>1, <1>2 DEF RequestInv
<1>5. /\ segments' \in Seq(SegmentType)
      /\ SpoolInv'
      /\ \A n \in DOMAIN segments' : Backed(segments[n].events, Before(n))'
  <2>1. Acknowledged(flight) \in SUBSET DOMAIN segments
    BY DEF Acknowledged
  <2> QED
    BY <1>1, <1>2, <1>4, <2>1, AckHolds
<1>6. flight' \in Seq(Events) /\ Range(flight') = {}
  BY <1>2, EmptySeq DEF Range
<1>7. spoolError' \in BOOLEAN
  BY DEF acknowledge
<1>8. TypeInv'
  BY <1>1, <1>2, <1>5, <1>6, <1>7 DEF TypeInv, TypeOK, peerVars, BatchType, SegmentType
<1>9. LogInv'
  BY <1>1, <1>2, SameLogs
<1>10. RequestInv'
  <2>1. \A b \in batches : ~b.live
    BY <1>1, <1>2 DEF RequestInv
  <2> QED
    BY <1>1, <1>2, <2>1 DEF RequestInv, Logged, Run
<1>11. QueueInv'
  BY <1>1, <1>2, <1>4 DEF QueueInv, Logged, Run, Marker
<1>12. OrderInv'
  <2>1. Backed(events, Range(flight))'
    <3>1. PICK q \in Seq(Events), A \in {Range(flight)} : q = events
      BY <1>1 DEF TypeInv, TypeOK
    <3>2. Backed(q, {})'
      BY <1>1, <1>3, <1>4, <3>1, BackedMoves DEF OrderInv
    <3> QED
      BY <1>2, <1>6, <3>1, <3>2 DEF Backed
  <2>2. Backed(flight, {})'
    BY <1>2 DEF Backed
  <2>3. \A c \in batches' : Backed(c.events, {})'
    BY <1>1, <1>2 DEF OrderInv, Backed, Logged, Run
  <2> QED
    BY <1>5, <2>1, <2>2, <2>3 DEF OrderInv
<1>13. PostInv'
  BY <1>1, <1>2 DEF PostInv, peerVars
<1> QED
  BY <1>5, <1>8, <1>9, <1>10, <1>11, <1>12, <1>13 DEF IInv

(* Some segments are marked, one fails, and the batch is queued again.     *)
LEMMA acknowledgeFailsPreserves ==
  ASSUME IInv, NEW s \in Acknowledged(flight), NEW outcome \in {"unsaved", "saved", "unremoved"},
         NEW done \in SUBSET (Acknowledged(flight) \ {s}), acknowledgeFails(done, s, outcome)
  PROVE  IInv'
<1>1. /\ TypeInv /\ SpoolInv /\ RequestInv /\ QueueInv /\ LogInv /\ OrderInv /\ PostInv
  BY DEF IInv
<1>2. /\ answer = "ok" /\ answer' = "none" /\ flight' = <<>> /\ events' = Requeued
      /\ \A t \in done : InOrder(flight, t)
      /\ UNCHANGED <<peerVars, terminations, spoolError, closed, batches, seen, log,
                     repeatable, accepted, exits>>
  BY DEF acknowledgeFails, logVars
<1>3. Grows
  BY <1>2, SameLog
<1>4. \A e \in Range(flight) : Logged(e)
  BY <1>1, <1>2 DEF RequestInv
<1>5. /\ segments' \in Seq(SegmentType)
      /\ SpoolInv'
      /\ \A n \in DOMAIN segments' : Backed(segments[n].events, Before(n))'
  <2>1. s \in DOMAIN segments /\ done \in SUBSET DOMAIN segments
    BY DEF Acknowledged
  <2>2. CASE outcome = "unsaved"
    <3>1. segments' = AfterAck(flight, done, {})
      BY <2>2 DEF acknowledgeFails
    <3> QED
      BY <1>1, <1>2, <1>4, <2>1, <3>1, AckHolds
  <2>3. CASE outcome = "saved"
    <3>1. segments' = AfterAck(flight, done, {s}) /\ InOrder(flight, s)
      BY <2>3 DEF acknowledgeFails
    <3>2. \A t \in done \cup {s} : InOrder(flight, t)
      BY <1>2, <3>1
    <3> QED
      BY <1>1, <1>2, <1>4, <2>1, <3>1, <3>2, AckHolds
  <2>4. CASE outcome = "unremoved"
    <3>1. segments' = AfterAck(flight, done \cup {s}, {}) /\ InOrder(flight, s)
      BY <2>4 DEF acknowledgeFails
    <3>2. PICK D \in SUBSET DOMAIN segments : D = done \cup {s}
      BY <2>1
    <3>3. segments' = AfterAck(flight, D, {}) /\ \A t \in D \cup {} : InOrder(flight, t)
      BY <1>2, <3>1, <3>2
    <3> QED
      BY <1>1, <1>2, <1>4, <3>3, AckHolds
  <2> QED
    BY <2>2, <2>3, <2>4
<1>6. /\ Requeued \in Seq(Events)
      /\ Range(Requeued) = Range(flight) \cup Range(events)
      /\ Backed(Requeued, {})
  BY <1>1, RequeuedQueue
<1>7. flight' \in Seq(Events) /\ Range(flight') = {}
  BY <1>2, EmptySeq DEF Range
<1>8. faults' \in 0 .. MaxFaults
  <2>1. faults' = faults \/ Fault
    BY DEF acknowledgeFails
  <2>2. faults \in 0 .. MaxFaults
    BY <1>1 DEF TypeInv, TypeOK
  <2> QED
    BY <2>1, <2>2, BoundsAssumption DEF Fault
<1>9. TypeInv'
  BY <1>1, <1>2, <1>5, <1>6, <1>7, <1>8 DEF TypeInv, TypeOK, peerVars, BatchType, SegmentType
<1>10. LogInv'
  BY <1>1, <1>2, SameLogs
<1>11. RequestInv'
  <2>1. \A b \in batches : ~b.live
    BY <1>1, <1>2 DEF RequestInv
  <2> QED
    BY <1>1, <1>2, <2>1 DEF RequestInv, Logged, Run
<1>12. QueueInv'
  BY <1>1, <1>2, <1>6 DEF QueueInv, Logged, Run, Marker
<1>13. OrderInv'
  <2>1. PICK w \in Seq(Events) : w = Requeued
    BY <1>6
  <2>2. Backed(w, {})'
    BY <1>3, <1>6, <2>1, BackedGrows
  <2>3. Backed(events, Range(flight))'
    BY <1>2, <1>7, <2>1, <2>2 DEF Backed
  <2>4. Backed(flight, {})'
    BY <1>2 DEF Backed
  <2>5. \A c \in batches' : Backed(c.events, {})'
    BY <1>1, <1>2 DEF OrderInv, Backed, Logged, Run
  <2> QED
    BY <1>5, <2>3, <2>4, <2>5 DEF OrderInv
<1>14. PostInv'
  BY <1>1, <1>2 DEF PostInv, peerVars
<1> QED
  BY <1>5, <1>9, <1>10, <1>11, <1>12, <1>13, <1>14 DEF IInv

(* What is replayed is backed, and it is all that is not logged.           *)
LEMMA TailsBacked ==
  ASSUME NEW R \in Seq(SegmentType),
         \A n \in 1 .. Len(R) : \A i \in 1 .. Len(R[n].events) :
           i <= R[n].saved => Logged(R[n].events[i]),
         \A n \in 1 .. Len(R) :
           Backed(R[n].events, UNION {Range(R[t].events) : t \in 1 .. n - 1})
  PROVE  /\ Tails(R) \in Seq(Events)
         /\ Backed(Tails(R), {})
         /\ \A n \in 1 .. Len(R) : \A e \in Range(R[n].events) :
              Logged(e) \/ e \in Range(Tails(R))
<1> DEFINE T == Tails(R)
<1>1. TailsOf(R, T, Len(R))
  BY TailsInOrder
<1> HIDE DEF T
<1>2. /\ T \in Seq(Events) /\ Len(T) \in Nat /\ DOMAIN T = 1 .. Len(T) /\ Len(R) \in Nat
      /\ \A n \in 1 .. Len(R) : /\ R[n].events \in Seq(Events) /\ R[n].saved \in Nat
                                /\ Len(R[n].events) \in Nat
                                /\ DOMAIN R[n].events = 1 .. Len(R[n].events)
  <2>1. \A n \in 1 .. Len(R) : R[n] \in SegmentType
    BY ElementOfSeq
  <2>2. \A n \in 1 .. Len(R) : R[n].events \in Seq(Events) /\ R[n].saved \in Nat
    BY <2>1 DEF SegmentType
  <2> QED
    BY <1>1, <2>2, LenProperties DEF TailsOf
<1>3. ASSUME NEW n \in 1 .. Len(R), NEW e \in Range(R[n].events)
      PROVE  Logged(e) \/ e \in Range(T)
  <2>1. PICK i \in 1 .. Len(R[n].events) : R[n].events[i] = e
    BY <1>2 DEF Range
  <2>2. CASE i <= R[n].saved
    BY <2>1, <2>2
  <2>3. CASE ~(i <= R[n].saved)
    <3>1. i \in Unsaved(R, n)
      BY <1>2, <2>3 DEF Unsaved
    <3>2. \E k \in 1 .. Len(T) : T[k] = e
      BY <1>1, <2>1, <3>1 DEF TailsOf
    <3> QED
      BY <1>2, <3>2 DEF Range
  <2> QED
    BY <2>2, <2>3
<1>4. Backed(T, {})
  <2> SUFFICES ASSUME NEW k \in 1 .. Len(T), T[k][2] > 1
               PROVE  Logged(Prev(T[k])) \/ \E l \in 1 .. k - 1 : T[l] = Prev(T[k])
    BY <1>2 DEF Backed
  <2>1. PICK n \in 1 .. Len(R) : \E i \in Unsaved(R, n) :
          /\ T[k] = R[n].events[i]
          /\ \A u \in 1 .. Len(R) : \A j \in Unsaved(R, u) :
               u < n \/ (u = n /\ j < i) => \E l \in 1 .. k - 1 : T[l] = R[u].events[j]
    BY <1>1 DEF TailsOf
  <2>2. PICK i \in Unsaved(R, n) :
          /\ T[k] = R[n].events[i]
          /\ \A u \in 1 .. Len(R) : \A j \in Unsaved(R, u) :
               u < n \/ (u = n /\ j < i) => \E l \in 1 .. k - 1 : T[l] = R[u].events[j]
    BY <2>1
  <2>3. i \in DOMAIN R[n].events /\ i \in Nat /\ n \in Nat
    BY <1>2 DEF Unsaved
  <2>4. CASE \E j \in 1 .. i - 1 : R[n].events[j] = Prev(T[k])
    <3>1. PICK j \in 1 .. i - 1 : R[n].events[j] = Prev(T[k])
      BY <2>4
    <3>2. j \in 1 .. Len(R[n].events) /\ j < i
      BY <1>2, <2>3
    <3>3. CASE j <= R[n].saved
      BY <3>1, <3>2, <3>3
    <3>4. CASE ~(j <= R[n].saved)
      <4>1. j \in Unsaved(R, n)
        BY <1>2, <3>2, <3>4 DEF Unsaved
      <4> QED
        BY <2>2, <3>1, <3>2, <4>1
    <3> QED
      BY <3>3, <3>4
  <2>5. CASE Prev(T[k]) \in UNION {Range(R[t].events) : t \in 1 .. n - 1}
    <3>1. PICK t \in 1 .. n - 1 : Prev(T[k]) \in Range(R[t].events)
      BY <2>5
    <3>2. t \in 1 .. Len(R) /\ t < n
      BY <1>2, <2>3
    <3>3. PICK j \in 1 .. Len(R[t].events) : R[t].events[j] = Prev(T[k])
      BY <1>2, <3>1, <3>2 DEF Range
    <3>4. CASE j <= R[t].saved
      BY <3>2, <3>3, <3>4
    <3>5. CASE ~(j <= R[t].saved)
      <4>1. j \in Unsaved(R, t)
        BY <1>2, <3>2, <3>5, SMTT(30) DEF Unsaved
      <4> QED
        BY <2>2, <3>2, <3>3, <4>1
    <3> QED
      BY <3>4, <3>5
  <2>6. R[n].events[i][2] > 1 /\ Prev(R[n].events[i]) = Prev(T[k])
    BY <2>2
  <2>7. \/ Logged(Prev(T[k]))
        \/ Prev(T[k]) \in UNION {Range(R[t].events) : t \in 1 .. n - 1}
        \/ \E j \in 1 .. i - 1 : R[n].events[j] = Prev(T[k])
    <3>1. Backed(R[n].events, UNION {Range(R[t].events) : t \in 1 .. n - 1})
      OBVIOUS
    <3> QED
      BY <2>3, <2>6, <3>1 DEF Backed
  <2> QED
    BY <2>4, <2>5, <2>7
<1> QED
  BY <1>2, <1>3, <1>4 DEF T

(* The Agent replays what the disk has beyond the saved acknowledgments.   *)
LEMMA agentRestartsPreserves ==
  ASSUME IInv, agentRestarts
  PROVE  IInv'
<1> DEFINE P == {s \in DOMAIN segments : segments[s].saved < Len(segments[s].events)}
           given(b) == [b EXCEPT !.live = FALSE]
<1>1. /\ TypeInv /\ SpoolInv /\ RequestInv /\ QueueInv /\ LogInv /\ OrderInv /\ PostInv
  BY DEF IInv
<1>2. /\ flight' = <<>> /\ answer' = "none" /\ terminations' = <<>>
      /\ spoolError' = FALSE /\ closed' = FALSE
      /\ exits' = {}
      /\ latePosts' = {}
      /\ UNCHANGED <<sent, seen, log, repeatable, accepted>>
  BY DEF agentRestarts
<1>2a. /\ segments' = [s \in DOMAIN Replay |->
           [Replay[s] EXCEPT !.ack = Replay[s].saved, !.tracked = TRUE]]
       /\ events' = Tails(Replay)
  BY DEF agentRestarts
<1>2b. /\ batches' = {given(b) : b \in batches}
       /\ alive' = [p \in Peers |-> FALSE]
       /\ post' = [p \in Peers |-> NoPost]
  BY DEF agentRestarts
<1>3. Grows
  BY <1>2, SameLog
<1>4. /\ segments \in Seq(SegmentType) /\ Len(segments) \in Nat
      /\ DOMAIN segments = 1 .. Len(segments)
      /\ \A s \in 1 .. Len(segments) :
           /\ segments[s] \in SegmentType
           /\ segments[s].saved \in Nat /\ Len(segments[s].events) \in Nat
           /\ DOMAIN segments[s].events = 1 .. Len(segments[s].events)
  BY <1>1, QueueTypes DEF TypeInv, TypeOK, SegmentType
<1>5. P \in SUBSET (1 .. Len(segments))
  BY <1>4
<1>6. \A s \in 1 .. Len(segments) : s \in P \/ \A e \in Range(segments[s].events) : Logged(e)
  <2> SUFFICES ASSUME NEW s \in 1 .. Len(segments), s \notin P,
                      NEW e \in Range(segments[s].events)
               PROVE  Logged(e)
    OBVIOUS
  <2>1. PICK i \in 1 .. Len(segments[s].events) : segments[s].events[i] = e
    BY <1>4 DEF Range
  <2>2. i <= segments[s].saved
    BY <1>4
  <2> QED
    BY <1>1, <1>4, <2>1, <2>2 DEF SpoolInv
<1>7. PICK R : R = Replay
  OBVIOUS
<1> HIDE DEF P, given
<1>8. R = Kept(segments, P)
  BY <1>7 DEF Replay, P
<1>9. /\ R \in Seq(SegmentType) /\ Len(R) \in Nat /\ DOMAIN R = 1 .. Len(R)
      /\ \A n \in 1 .. Len(R) : R[n] \in SegmentType
  BY <1>4, <1>5, <1>8, KeptInOrder, LenProperties, ElementOfSeq
<1>10. PICK f \in [1 .. Len(R) -> P] :
         /\ \A n \in 1 .. Len(R) : R[n] = segments[f[n]]
         /\ \A m, n \in 1 .. Len(R) : m < n => f[m] < f[n]
         /\ \A i \in P : \E n \in 1 .. Len(R) : f[n] = i
  BY <1>4, <1>5, <1>8, KeptInOrder, SMTT(30)
<1>11. segments' = [s \in 1 .. Len(R) |-> [R[s] EXCEPT !.ack = R[s].saved, !.tracked = TRUE]]
  BY <1>2a, <1>7, <1>9
<1>12. \A n \in 1 .. Len(R) :
         /\ segments'[n] \in SegmentType /\ segments'[n].events = R[n].events
         /\ segments'[n].ack = R[n].saved /\ segments'[n].saved = R[n].saved
  BY <1>9, <1>11 DEF SegmentType
<1>13. segments' \in Seq(SegmentType) /\ Len(segments') = Len(R) /\ DOMAIN segments' = 1 .. Len(R)
  <2>1. segments' \in [1 .. Len(R) -> SegmentType]
    BY <1>11, <1>12
  <2>2. segments' \in Seq(SegmentType)
    BY <1>9, <2>1, SeqDef
  <2> QED
    BY <1>9, <2>1, <2>2, LenProperties
<1>14. \A n \in 1 .. Len(segments') : segments'[n].events = segments[f[n]].events
  BY <1>10, <1>12, <1>13
<1>15. \A n \in 1 .. Len(segments') : \A i \in DOMAIN segments'[n].events :
         i <= segments'[n].ack \/ i <= segments'[n].saved => Logged(segments'[n].events[i])
  <2> SUFFICES ASSUME NEW n \in 1 .. Len(R), NEW i \in DOMAIN R[n].events, i <= R[n].saved
               PROVE  Logged(R[n].events[i])
    BY <1>12, <1>13
  <2>1. f[n] \in DOMAIN segments /\ R[n] = segments[f[n]]
    BY <1>4, <1>5, <1>10
  <2> QED
    BY <1>1, <2>1 DEF SpoolInv
<1>16. SpoolInv' /\ \A n \in DOMAIN segments' : Backed(segments[n].events, Before(n))'
  <2>1. f \in [1 .. Len(segments') -> P]
    BY <1>13
  <2>2. \A m, n \in 1 .. Len(segments') : m < n => f[m] < f[n]
    BY <1>10, <1>13
  <2>3. \A s \in P : \E n \in 1 .. Len(segments') : f[n] = s
    BY <1>10, <1>13
  <2>4. UNCHANGED <<log, accepted>> /\ segments' \in Seq(SegmentType)
    BY <1>2, <1>13
  <2> QED
    BY <1>1, <1>5, <1>6, <1>14, <1>15, <2>1, <2>2, <2>3, <2>4, SegmentsKept
<1>17. \A n \in 1 .. Len(R) : \A i \in 1 .. Len(R[n].events) :
         i <= R[n].saved => Logged(R[n].events[i])
  <2>1. \A n \in 1 .. Len(R) : DOMAIN R[n].events = 1 .. Len(R[n].events)
    BY <1>9, LenProperties DEF SegmentType
  <2> QED
    BY <1>12, <1>13, <1>15, <2>1
<1>18. \A n \in 1 .. Len(R) :
         Backed(R[n].events, UNION {Range(R[t].events) : t \in 1 .. n - 1})
  <2> SUFFICES ASSUME NEW n \in 1 .. Len(R)
               PROVE  Backed(R[n].events, UNION {Range(R[t].events) : t \in 1 .. n - 1})
    OBVIOUS
  <2>1. \A t \in 1 .. n - 1 : segments'[t].events = R[t].events
    BY <1>9, <1>12
  <2>2. Before(n)' = UNION {Range(R[t].events) : t \in 1 .. n - 1}
    BY <2>1 DEF Before
  <2>3. Backed(segments[n].events, Before(n))'
    BY <1>13, <1>16
  <2>4. segments'[n].events = R[n].events
    BY <1>12
  <2> HIDE DEF Before
  <2> QED
    BY <1>2, <2>2, <2>3, <2>4 DEF Backed, Logged, Run
<1>19. /\ events' = Tails(R)
       /\ events' \in Seq(Events)
       /\ Backed(Tails(R), {})
       /\ \A n \in 1 .. Len(R) : \A e \in Range(R[n].events) : Logged(e) \/ e \in Range(events')
  BY <1>2a, <1>7, <1>9, <1>17, <1>18, TailsBacked
<1>20. QueueInv'
  <2> SUFFICES ASSUME NEW e \in accepted' PROVE Logged(e)' \/ e \in Range(events')
    BY <1>2 DEF QueueInv
  <2>1. CASE Logged(e)'
    BY <2>1
  <2>2. CASE \E n \in DOMAIN segments' : e \in Range(segments'[n].events)
    <3>1. \E n \in 1 .. Len(R) : e \in Range(R[n].events)
      BY <1>12, <1>13, <2>2
    <3>2. e \in Events
      BY <1>1, <1>2 DEF TypeInv, TypeOK
    <3> QED
      BY <1>3, <1>19, <3>1, <3>2 DEF Grows
  <2> QED
    BY <1>16, <2>1, <2>2 DEF SpoolInv
<1>21. \A c \in batches' : /\ c \in BatchType /\ ~c.live
                           /\ \E b \in batches : c.events = b.events /\ c.todo = b.todo
  BY <1>1, <1>2b DEF TypeInv, BatchType, given
<1>22. RequestInv'
  <2>1. ASSUME NEW c \in batches', NEW e \in Range(c.events)
        PROVE  Run(e) \in c.todo \/ Logged(e)'
    BY <1>1, <1>3, <1>21, QueueTypes DEF RequestInv, Grows
  <2> QED
    BY <1>2, <1>21, <2>1 DEF RequestInv, Run
<1>23. flight' \in Seq(Events) /\ terminations' \in Seq(Events) /\ Range(flight') = {}
  BY <1>2, EmptySeq DEF Range
<1>24. OrderInv'
  <2>1. PICK w \in Seq(Events) : w = Tails(R)
    BY <1>19
  <2>2. Backed(w, {})'
    BY <1>3, <1>19, <2>1, BackedGrows
  <2>3. Backed(events, Range(flight))'
    BY <1>19, <1>23, <2>1, <2>2 DEF Backed
  <2>4. Backed(flight, {})'
    BY <1>2 DEF Backed
  <2>5. \A c \in batches' : Backed(c.events, {})'
    BY <1>1, <1>3, <1>21, BackedGrows DEF OrderInv, TypeInv, BatchType
  <2> QED
    BY <1>16, <2>3, <2>4, <2>5 DEF OrderInv
<1>25. LogInv'
  BY <1>1, <1>2, SameLogs
<1>26. TypeInv'
  <2>1. post' \in [Peers -> [phase : {"none", "sent", "ok", "refused"}, upto : 0 .. MaxEvents]]
    BY <1>2b, BoundsAssumption DEF NoPost
  <2>2. \A p \in Peers : post'[p].phase = "none"
    BY <1>2b DEF NoPost
  <2>3. faults' \in 0 .. MaxFaults
    <3>1. faults < MaxFaults /\ faults' = faults + 1
      BY DEF agentRestarts, Fault
    <3>2. faults \in 0 .. MaxFaults
      BY <1>1 DEF TypeInv, TypeOK
    <3> QED
      BY <3>1, <3>2, BoundsAssumption
  <2>4. alive' \in [Peers -> BOOLEAN]
    BY <1>2b
  <2>5. batches' \subseteq BatchType
    BY <1>21
  <2>6. \A i \in DOMAIN terminations' : terminations'[i][2] = 0
    BY <1>2
  <2>7. TypeOK'
    BY <1>1, <1>2, <1>13, <1>19, <1>23, <2>1, <2>3, <2>4, <2>5
       DEF TypeInv, TypeOK, BatchType, SegmentType
  <2> QED
    BY <1>2, <2>2, <2>5, <2>6, <2>7 DEF TypeInv, BatchType
<1>27. PostInv'
  BY <1>1, <1>2, <1>2b DEF PostInv, NoPost
<1> QED
  BY <1>16, <1>20, <1>22, <1>24, <1>25, <1>26, <1>27 DEF IInv

(* What an append writes: the unseen events of the run, each once, all of  *)
(* them, and each behind its predecessor.                                  *)
LEMMA FreshEvents ==
  ASSUME TypeInv, NEW batch \in Seq(Events), Backed(batch, {}), NEW r \in Runs,
         NEW F, F = Fresh(batch, r)
  PROVE  /\ F \in Seq(Events)
         /\ \A n \in 1 .. Len(F) : F[n] \in Events /\ Run(F[n]) = r /\ F[n] \notin seen
         /\ \A e \in Range(batch) : Run(e) = r => e \in seen \/ e \in Range(F)
         /\ \A m, n \in 1 .. Len(F) : F[m] = F[n] => m = n
         /\ \A n \in 1 .. Len(F) : F[n][2] > 1 =>
              \/ Prev(F[n]) \in seen \/ Logged(Prev(F[n]))
              \/ \E m \in 1 .. n - 1 : F[m] = Prev(F[n])
<1> DEFINE P == {i \in DOMAIN batch : /\ Run(batch[i]) = r /\ batch[i] \notin seen
                                      /\ \A j \in 1 .. i - 1 : batch[j] # batch[i]}
<1>1. Len(batch) \in Nat /\ DOMAIN batch = 1 .. Len(batch)
      /\ \A i \in 1 .. Len(batch) : batch[i] \in Events
  BY LenProperties, ElementOfSeq
<1>2. P \in SUBSET (1 .. Len(batch)) /\ F = Kept(batch, P)
  BY <1>1 DEF Fresh
<1>3. ASSUME NEW e \in Range(batch), Run(e) = r, e \notin seen
      PROVE  \E i \in P : batch[i] = e /\ \A j \in 1 .. Len(batch) : batch[j] = e => i <= j
  <2> DEFINE T == {i \in 1 .. Len(batch) : batch[i] = e}
  <2>1. T \subseteq Nat /\ T # {}
    BY <1>1 DEF Range
  <2> HIDE DEF T
  <2>2. PICK i \in T : \A j \in T : i <= j
    BY <2>1, LeastNat
  <2>3. i \in 1 .. Len(batch) /\ batch[i] = e /\ \A j \in 1 .. Len(batch) : batch[j] = e => i <= j
    BY <2>2 DEF T
  <2>4. \A j \in 1 .. i - 1 : batch[j] # batch[i]
    BY <1>1, <2>3
  <2> QED
    BY <1>1, <1>3, <2>3, <2>4
<1>4. \A i \in P : Run(batch[i]) = r /\ batch[i] \notin seen
                   /\ \A j \in P : batch[j] = batch[i] => i = j
  <2> SUFFICES ASSUME NEW i \in P, NEW j \in P, batch[j] = batch[i] PROVE i = j
    OBVIOUS
  <2>1. i \in Nat /\ j \in Nat
    BY <1>1
  <2>2. ~(j < i) /\ ~(i < j)
    BY <1>1
  <2> QED
    BY <2>1, <2>2
<1> HIDE DEF P
<1>5. F \in Seq(Events) /\ Len(F) \in Nat /\ DOMAIN F = 1 .. Len(F)
  BY <1>2, KeptInOrder, LenProperties
<1>6. PICK f \in [1 .. Len(F) -> P] :
        /\ \A n \in 1 .. Len(F) : F[n] = batch[f[n]]
        /\ \A m, n \in 1 .. Len(F) : m < n => f[m] < f[n]
        /\ \A i \in P : \E n \in 1 .. Len(F) : f[n] = i
  BY <1>2, KeptInOrder
<1>7. \A n \in 1 .. Len(F) : /\ F[n] \in Events /\ Run(F[n]) = r /\ F[n] \notin seen
                             /\ f[n] \in P /\ f[n] \in 1 .. Len(batch)
  <2> SUFFICES ASSUME NEW n \in 1 .. Len(F)
               PROVE  /\ F[n] \in Events /\ Run(F[n]) = r /\ F[n] \notin seen
                      /\ f[n] \in P /\ f[n] \in 1 .. Len(batch)
    OBVIOUS
  <2>1. f[n] \in P
    BY <1>6
  <2>2. f[n] \in 1 .. Len(batch)
    BY <1>2, <2>1
  <2>3. F[n] = batch[f[n]]
    BY <1>6
  <2>4. batch[f[n]] \in Events
    BY <1>1, <2>2
  <2>5. Run(batch[f[n]]) = r /\ batch[f[n]] \notin seen
    BY <1>4, <2>1
  <2> QED
    BY <2>1, <2>2, <2>3, <2>4, <2>5
<1>8. ASSUME NEW e \in Range(batch), Run(e) = r, e \notin seen
      PROVE  e \in Range(F)
  <2>1. PICK i \in P : batch[i] = e
    BY <1>3, <1>8
  <2>2. PICK n \in 1 .. Len(F) : f[n] = i
    BY <1>6
  <2> QED
    BY <1>5, <1>6, <2>1, <2>2 DEF Range
<1>9. ASSUME NEW m \in 1 .. Len(F), NEW n \in 1 .. Len(F), F[m] = F[n]
      PROVE  m = n
  <2>1. f[m] = f[n]
    BY <1>4, <1>6, <1>7, <1>9
  <2>2. f[m] \in Nat /\ f[n] \in Nat /\ m \in Nat /\ n \in Nat
    BY <1>1, <1>5, <1>7
  <2>3. ~(m < n) /\ ~(n < m)
    BY <1>6, <2>1, <2>2
  <2> QED
    BY <2>2, <2>3
<1>10. ASSUME NEW n \in 1 .. Len(F), F[n][2] > 1
       PROVE  \/ Prev(F[n]) \in seen \/ Logged(Prev(F[n]))
              \/ \E m \in 1 .. n - 1 : F[m] = Prev(F[n])
  <2>1. F[n] = batch[f[n]] /\ f[n] \in DOMAIN batch
    BY <1>1, <1>6, <1>7
  <2>2. Logged(Prev(F[n])) \/ \E j \in 1 .. f[n] - 1 : batch[j] = Prev(F[n])
    BY <1>10, <2>1 DEF Backed
  <2>3. ASSUME NEW j \in 1 .. f[n] - 1, batch[j] = Prev(F[n]), Prev(F[n]) \notin seen
        PROVE  \E m \in 1 .. n - 1 : F[m] = Prev(F[n])
    <3>1. j \in 1 .. Len(batch) /\ j < f[n] /\ f[n] \in Nat /\ j \in Nat
      BY <1>1, <1>7
    <3>2. Prev(F[n]) \in Range(batch)
      BY <1>1, <2>3, <3>1 DEF Range
    <3>3. Run(Prev(F[n])) = r
      BY <1>7 DEF Prev, Run
    <3>4. PICK i \in P : batch[i] = Prev(F[n]) /\ i <= j
      BY <1>3, <2>3, <3>1, <3>2, <3>3
    <3>5. PICK m \in 1 .. Len(F) : f[m] = i
      BY <1>6
    <3>6. i \in Nat /\ i < f[n]
      BY <1>1, <1>2, <3>1, <3>4
    <3>7. m < n
      <4>1. m \in Nat /\ n \in Nat
        BY <1>5
      <4>2. ~(n < m) /\ m # n
        BY <1>6, <3>1, <3>5, <3>6
      <4> QED
        BY <4>1, <4>2
    <3>8. m \in 1 .. n - 1
      BY <1>5, <3>7
    <3> QED
      BY <1>6, <3>4, <3>5, <3>8
  <2> QED
    BY <2>2, <2>3
<1> QED
  BY <1>5, <1>7, <1>8, <1>9, <1>10

(* An append keeps the log of every run in source order, and free of       *)
(* repetitions as long as all that is logged is in memory.                 *)
LEMMA LogAppended ==
  ASSUME TypeInv, LogInv, NEW batch \in Seq(Events), Backed(batch, {}), NEW r \in Runs,
         log' = [log EXCEPT ![r] = @ \o Fresh(batch, r)]
  PROVE  /\ log' \in [Runs -> Seq(Events)]
         /\ Grows
         /\ \A e \in Range(batch) : Run(e) = r => Logged(e)'
         /\ \A e \in Range(Fresh(batch, r)) : e \in Events /\ Logged(e)'
         /\ \A q \in Runs : Range(log'[q]) \subseteq Range(log[q]) \cup Range(Fresh(batch, r))
         /\ \A q \in Runs : \A i \in DOMAIN log'[q] : Run(log'[q][i]) = q
         /\ LogsAreInSourceOrder'
         /\ ~repeatable =>
              \A q \in Runs : \A i, j \in DOMAIN log'[q] : log'[q][i] = log'[q][j] => i = j
<1> DEFINE old == log[r]
<1>1. PICK F : F = Fresh(batch, r)
  OBVIOUS
<1>2. /\ F \in Seq(Events)
      /\ \A n \in 1 .. Len(F) : F[n] \in Events /\ Run(F[n]) = r /\ F[n] \notin seen
      /\ \A e \in Range(batch) : Run(e) = r => e \in seen \/ e \in Range(F)
      /\ \A m, n \in 1 .. Len(F) : F[m] = F[n] => m = n
      /\ \A n \in 1 .. Len(F) : F[n][2] > 1 =>
           \/ Prev(F[n]) \in seen \/ Logged(Prev(F[n]))
           \/ \E m \in 1 .. n - 1 : F[m] = Prev(F[n])
  BY <1>1, FreshEvents
<1>3. /\ old \in Seq(Events) /\ Len(old) \in Nat /\ DOMAIN old = 1 .. Len(old)
      /\ Len(F) \in Nat /\ DOMAIN F = 1 .. Len(F)
      /\ log \in [Runs -> Seq(Events)]
  BY <1>2, LenProperties DEF TypeInv, TypeOK
<1>4. /\ log'[r] = old \o F
      /\ \A q \in Runs : q # r => log'[q] = log[q]
  BY <1>1, <1>3
<1>5. /\ log'[r] \in Seq(Events)
      /\ DOMAIN log'[r] = 1 .. Len(old) + Len(F)
      /\ \A i \in 1 .. Len(old) : log'[r][i] = old[i]
      /\ \A n \in 1 .. Len(F) : /\ Len(old) + n \in 1 .. Len(old) + Len(F)
                                /\ log'[r][Len(old) + n] = F[n]
      /\ Range(log'[r]) = Range(old) \cup Range(F)
  <2>1. PICK w : w = old \o F
    OBVIOUS
  <2>2. /\ w \in Seq(Events) /\ Len(w) = Len(old) + Len(F)
        /\ \A i \in 1 .. Len(old) + Len(F) : w[i] = IF i <= Len(old) THEN old[i] ELSE F[i - Len(old)]
        /\ Range(w) = Range(old) \cup Range(F)
    BY <1>2, <1>3, <2>1, ConcatProperties, RangeConcatenation
  <2>3. DOMAIN w = 1 .. Len(old) + Len(F)
    BY <2>2, LenProperties
  <2>4. \A i \in 1 .. Len(old) : w[i] = old[i]
    BY <1>3, <2>2
  <2>5. ASSUME NEW n \in 1 .. Len(F)
        PROVE  Len(old) + n \in 1 .. Len(old) + Len(F) /\ w[Len(old) + n] = F[n]
    <3> DEFINE k == Len(old) + n
    <3>1. k \in 1 .. Len(old) + Len(F) /\ ~(k <= Len(old)) /\ k - Len(old) = n
      BY <1>3
    <3> HIDE DEF k
    <3>2. w[k] = F[n]
      BY <2>2, <3>1
    <3> QED
      BY <3>1, <3>2 DEF k
  <2> QED
    BY <1>4, <2>1, <2>2, <2>3, <2>4, <2>5
<1>6. \A i \in 1 .. Len(old) + Len(F) :
        i \in 1 .. Len(old) \/ \E n \in 1 .. Len(F) : i = Len(old) + n
  <2> SUFFICES ASSUME NEW i \in 1 .. Len(old) + Len(F), i \notin 1 .. Len(old)
               PROVE  \E n \in 1 .. Len(F) : i = Len(old) + n
    OBVIOUS
  <2>1. i - Len(old) \in 1 .. Len(F) /\ i = Len(old) + (i - Len(old))
    BY <1>3
  <2> QED
    BY <2>1
<1> HIDE DEF old
<1>7. log' \in [Runs -> Seq(Events)]
  <2>1. \A q \in Runs : log'[q] \in Seq(Events)
    BY <1>3, <1>4, <1>5
  <2>2. log' = [q \in Runs |-> log'[q]]
    BY <1>3
  <2> QED
    BY <2>1, <2>2
<1>8. \A q \in Runs : Range(log[q]) \subseteq Range(log'[q])
  BY <1>4, <1>5 DEF old
<1>9. Grows
  <2> SUFFICES ASSUME NEW e \in Events, Logged(e) PROVE Logged(e)'
    BY DEF Grows
  <2>1. Run(e) \in Runs
    BY RunAssumption DEF Run, Events
  <2> QED
    BY <1>8, <2>1 DEF Logged, Run
<1>10. \A e \in Range(F) : e \in Events /\ Run(e) = r /\ Logged(e)'
  <2> SUFFICES ASSUME NEW e \in Range(F) PROVE e \in Events /\ Run(e) = r /\ Logged(e)'
    OBVIOUS
  <2>1. PICK n \in 1 .. Len(F) : F[n] = e
    BY <1>3 DEF Range
  <2>2. e \in Events /\ Run(e) = r
    BY <1>2, <2>1
  <2>3. e \in Range(log'[Run(e)])
    BY <1>5, <2>2
  <2> QED
    BY <2>2, <2>3 DEF Logged, Run
<1>11. \A e \in Range(batch) : Run(e) = r => Logged(e)'
  <2> SUFFICES ASSUME NEW e \in Range(batch), Run(e) = r PROVE Logged(e)'
    OBVIOUS
  <2>1. e \in Events
    BY RangeOfSequence
  <2> QED
    BY <1>2, <1>9, <1>10, <2>1 DEF LogInv, Grows
<1>12. \A q \in Runs : Range(log'[q]) \subseteq Range(log[q]) \cup Range(F)
  BY <1>4, <1>5 DEF old
<1>13. ASSUME NEW q \in Runs, NEW i \in DOMAIN log'[q]
       PROVE  Run(log'[q][i]) = q
  <2>1. CASE q # r
    BY <1>4, <2>1 DEF LogInv
  <2>2. CASE q = r /\ i \in 1 .. Len(old)
    BY <1>3, <1>5, <2>2 DEF LogInv, old
  <2>3. CASE q = r /\ \E n \in 1 .. Len(F) : i = Len(old) + n
    BY <1>2, <1>5, <2>3
  <2> QED
    BY <1>5, <1>6, <2>1, <2>2, <2>3
<1>14. ASSUME NEW q \in Runs, NEW i \in DOMAIN log'[q], log'[q][i][2] > 1
       PROVE  \E j \in 1 .. i - 1 : log'[q][j] = Prev(log'[q][i])
  <2>1. CASE q # r
    <3>1. log'[q] = log[q]
      BY <1>4, <2>1
    <3>2. i \in DOMAIN log[q] /\ log[q][i][2] > 1
      BY <1>14, <3>1
    <3>3. \E j \in 1 .. i - 1 : log[q][j] = Prev(log[q][i])
      BY <3>2 DEF LogInv, LogsAreInSourceOrder, Prev
    <3> QED
      BY <3>1, <3>3
  <2>2. CASE q = r /\ i \in 1 .. Len(old)
    <3>1. log'[r][i] = old[i]
      BY <1>5, <2>2
    <3>2. PICK j \in 1 .. i - 1 : old[j] = Prev(old[i])
      BY <1>3, <1>14, <2>2, <3>1 DEF LogInv, LogsAreInSourceOrder, Prev, old
    <3>3. j \in 1 .. Len(old)
      BY <1>3, <2>2
    <3> QED
      BY <1>5, <2>2, <3>1, <3>2, <3>3
  <2>3. CASE q = r /\ \E n \in 1 .. Len(F) : i = Len(old) + n
    <3>1. PICK n \in 1 .. Len(F) : i = Len(old) + n
      BY <2>3
    <3>2. log'[q][i] = F[n] /\ n \in Nat /\ n >= 1
      BY <1>3, <1>5, <2>3, <3>1
    <3>3. CASE \E m \in 1 .. n - 1 : F[m] = Prev(F[n])
      <4>1. PICK m \in 1 .. n - 1 : F[m] = Prev(F[n])
        BY <3>3
      <4>2. m \in 1 .. Len(F) /\ m < n /\ m \in Nat
        BY <1>3, <3>2
      <4>3. log'[r][Len(old) + m] = F[m]
        BY <1>5, <4>2
      <4>4. Len(old) + m \in 1 .. i - 1
        BY <1>3, <3>1, <3>2, <4>2
      <4> QED
        BY <2>3, <3>2, <4>1, <4>3, <4>4
    <3>4. CASE Logged(Prev(F[n]))
      <4>1. Run(Prev(F[n])) = r
        BY <1>2 DEF Prev, Run
      <4>2. Prev(F[n]) \in Range(old)
        BY <3>4, <4>1 DEF Logged, old
      <4>3. PICK j \in 1 .. Len(old) : old[j] = Prev(F[n])
        BY <1>3, <4>2 DEF Range
      <4>4. j \in 1 .. i - 1
        BY <1>3, <3>1, <3>2
      <4> QED
        BY <1>5, <2>3, <3>2, <4>3, <4>4
    <3>5. Prev(F[n]) \in seen => Logged(Prev(F[n]))
      BY DEF LogInv
    <3> QED
      BY <1>2, <1>14, <3>2, <3>3, <3>4, <3>5
  <2> QED
    BY <1>5, <1>6, <2>1, <2>2, <2>3
<1>15. LogsAreInSourceOrder'
  BY <1>14 DEF LogsAreInSourceOrder, Prev
<1>16. ASSUME ~repeatable, NEW q \in Runs, NEW i \in DOMAIN log'[q], NEW j \in DOMAIN log'[q],
              log'[q][i] = log'[q][j]
       PROVE  i = j
  <2>0. EventsAreLoggedOnce /\ Range(log[q]) \subseteq seen
    BY <1>16 DEF LogInv
  <2>1. CASE q # r
    BY <1>4, <1>16, <2>0, <2>1 DEF EventsAreLoggedOnce
  <2>2. CASE q = r
    <3>1. \A k \in 1 .. Len(old) : old[k] \in seen
      BY <1>3, <2>0, <2>2 DEF Range, old
    <3>2. CASE i \in 1 .. Len(old) /\ j \in 1 .. Len(old)
      <4>1. old[i] = old[j]
        BY <1>5, <1>16, <2>2, <3>2
      <4> QED
        BY <1>3, <1>16, <2>0, <2>2, <3>2, <4>1 DEF EventsAreLoggedOnce, old
    <3>2a. ASSUME NEW k \in 1 .. Len(old), NEW n \in 1 .. Len(F),
                  log'[r][k] = log'[r][Len(old) + n]
           PROVE  FALSE
      <4>1. log'[r][k] = old[k] /\ log'[r][Len(old) + n] = F[n]
        BY <1>5
      <4>2. F[n] \in seen
        BY <3>1, <3>2a, <4>1
      <4> QED
        BY <1>2, <4>2
    <3>3. CASE i \in 1 .. Len(old) /\ \E n \in 1 .. Len(F) : j = Len(old) + n
      BY <1>16, <2>2, <3>2a, <3>3
    <3>4. CASE j \in 1 .. Len(old) /\ \E n \in 1 .. Len(F) : i = Len(old) + n
      BY <1>16, <2>2, <3>2a, <3>4
    <3>5. CASE (\E n \in 1 .. Len(F) : i = Len(old) + n) /\ \E n \in 1 .. Len(F) : j = Len(old) + n
      <4>1. PICK m \in 1 .. Len(F), n \in 1 .. Len(F) : i = Len(old) + m /\ j = Len(old) + n
        BY <3>5
      <4>2. F[m] = F[n]
        BY <1>5, <1>16, <2>2, <4>1
      <4> QED
        BY <1>2, <4>1, <4>2
    <3> QED
      BY <1>5, <1>6, <2>2, <3>2, <3>3, <3>4, <3>5
  <2> QED
    BY <2>1, <2>2
<1> QED
  BY <1>1, <1>7, <1>9, <1>10, <1>11, <1>12, <1>13, <1>15, <1>16

(* A step of the Controller: it touches the requests, their answer, the    *)
(* identities and the logs, and handles no batch it was not sent.          *)
LEMMA ControllerFrame ==
  ASSUME IInv, Grows, TypeInv', RequestInv', LogInv',
         UNCHANGED <<peerVars, events, flight, terminations, spoolError, closed, segments,
                     accepted, exits>>,
         \A c \in batches' : \E b \in batches : c.events = b.events
  PROVE  IInv'
<1>1. TypeInv /\ SpoolInv /\ RequestInv /\ QueueInv /\ LogInv /\ OrderInv /\ PostInv
  BY DEF IInv
<1>2. SpoolInv' /\ QueueInv'
  BY <1>1, SameSpool, SameQueue
<1>3. OrderInv'
  <2>1. flight \in Seq(Events) /\ events \in Seq(Events)
    BY <1>1 DEF TypeInv, TypeOK
  <2>2. Backed(flight, {})' /\ Backed(events, Range(flight))'
    BY <1>1, <2>1, BackedGrows DEF OrderInv
  <2>3. ASSUME NEW c \in batches' PROVE Backed(c.events, {})'
    <3>1. PICK b \in batches : c.events = b.events
      OBVIOUS
    <3>2. b.events \in Seq(Events) /\ Backed(b.events, {})
      BY <1>1 DEF OrderInv, TypeInv, BatchType
    <3>3. Backed(b.events, {})'
      BY <3>2, BackedGrows
    <3> QED
      BY <3>1, <3>3 DEF Backed
  <2>4. ASSUME NEW s \in DOMAIN segments' PROVE Backed(segments[s].events, Before(s))'
    <3>1. segments[s].events \in Seq(Events)
      BY <1>1, QueueTypes DEF SegmentType
    <3>2. Before(s)' = Before(s) /\ segments'[s].events = segments[s].events
      BY DEF Before
    <3>3. Backed(segments[s].events, Before(s))
      BY <1>1 DEF OrderInv
    <3> HIDE DEF Before
    <3> QED
      BY <3>1, <3>2, <3>3, BackedGrows
  <2> QED
    BY <2>2, <2>3, <2>4 DEF OrderInv
<1>4. PostInv'
  BY <1>1 DEF PostInv, peerVars
<1> QED
  BY <1>2, <1>3, <1>4 DEF IInv

(* One run of a batch is appended; the last one answers the request.       *)
LEMMA appendRunEventsPreserves ==
  ASSUME IInv, NEW b \in batches, NEW r \in b.todo, appendRunEvents(b, r)
  PROVE  IInv'
<1> DEFINE rest == [b EXCEPT !.todo = @ \ {r}]
<1>1. /\ TypeInv /\ SpoolInv /\ RequestInv /\ QueueInv /\ LogInv /\ OrderInv /\ PostInv
  BY DEF IInv
<1>2. /\ log' = [log EXCEPT ![r] = @ \o Fresh(b.events, r)]
      /\ seen' = seen \cup Range(Fresh(b.events, r))
      /\ batches' = (batches \ {b}) \cup (IF rest.todo = {} THEN {} ELSE {rest})
      /\ UNCHANGED <<peerVars, events, flight, terminations, spoolError, closed, segments,
                     faults, accepted, repeatable, exits>>
  BY DEF appendRunEvents
<1>3. answer' = IF rest.todo = {} /\ b.live /\ answer = "sent" THEN "ok" ELSE answer
  BY DEF appendRunEvents, Answered
<1>4. b \in BatchType /\ b.events \in Seq(Events) /\ r \in Runs
  BY <1>1 DEF TypeInv, BatchType
<1>5. Backed(b.events, {})
  BY <1>1 DEF OrderInv
<1>6. /\ log' \in [Runs -> Seq(Events)]
      /\ Grows
      /\ \A e \in Range(b.events) : Run(e) = r => Logged(e)'
      /\ \A e \in Range(Fresh(b.events, r)) : e \in Events /\ Logged(e)'
      /\ \A q \in Runs : Range(log'[q]) \subseteq Range(log[q]) \cup Range(Fresh(b.events, r))
      /\ \A q \in Runs : \A i \in DOMAIN log'[q] : Run(log'[q][i]) = q
      /\ LogsAreInSourceOrder'
      /\ ~repeatable =>
           \A q \in Runs : \A i, j \in DOMAIN log'[q] : log'[q][i] = log'[q][j] => i = j
  BY <1>1, <1>2, <1>4, <1>5, LogAppended
<1>7. /\ rest \in BatchType /\ rest.events = b.events /\ rest.live = b.live
      /\ rest.todo = b.todo \ {r}
  BY <1>4 DEF BatchType
<1>8. batches' \subseteq batches \cup {rest} /\ b \notin batches' \cup {rest}
  <2>1. rest # b
    BY <1>7
  <2> QED
    BY <1>2, <2>1
<1> HIDE DEF rest
<1>9. /\ \A c \in batches' : (c \in batches /\ c # b) \/ c = rest
      /\ rest \in batches' => rest.todo # {} \/ rest \in batches
  BY <1>2, <1>8
<1>10. TypeInv'
  <2>1. batches' \subseteq BatchType
    BY <1>1, <1>7, <1>9 DEF TypeInv
  <2>2. seen' \subseteq Events
    BY <1>1, <1>2, <1>6 DEF TypeInv, TypeOK
  <2>3. answer' \in {"none", "sent", "ok", "failed"} /\ (answer' = "none" => answer = "none")
    BY <1>1, <1>3 DEF TypeInv, TypeOK
  <2> QED
    BY <1>1, <1>2, <1>6, <2>1, <2>2, <2>3 DEF TypeInv, TypeOK, peerVars, BatchType
<1>11. LogInv'
  <2>1. \A e \in seen' : Logged(e)'
    BY <1>1, <1>2, <1>6 DEF LogInv, Grows, TypeInv, TypeOK
  <2>2. EventsAreLoggedOnce'
    BY <1>2, <1>6 DEF EventsAreLoggedOnce
  <2>3. ASSUME ~repeatable', NEW q \in Runs PROVE Range(log'[q]) \subseteq seen'
    BY <1>1, <1>2, <1>6, <2>3 DEF LogInv
  <2>4. \A q \in Runs : \A i \in DOMAIN log'[q] : Run(log'[q][i]) = q
    BY <1>6
  <2> QED
    BY <1>6, <2>1, <2>2, <2>3, <2>4 DEF LogInv, Run
<1>12. \A e \in Range(b.events) : Run(e) \in rest.todo \/ Logged(e)'
  BY <1>1, <1>6, <1>7, QueueTypes DEF RequestInv, Grows
<1>13. RequestInv'
  <2>1. ASSUME NEW c \in batches', NEW e \in Range(c.events)
        PROVE  Run(e) \in c.todo \/ Logged(e)'
    <3>1. CASE c = rest
      BY <1>7, <1>12, <2>1, <3>1
    <3>2. CASE c \in batches
      BY <1>1, <1>6, <3>2, QueueTypes DEF RequestInv, Grows
    <3> QED
      BY <1>9, <3>1, <3>2
  <2>2. b.live => answer = "sent" /\ b.events = flight
    BY <1>1 DEF RequestInv
  <2>3. \A c \in batches : c.live => (answer = "sent" /\ c.events = flight)
    BY <1>1 DEF RequestInv
  <2>4. \A c \in batches : b.live /\ c.live => b = c
    BY <1>1 DEF RequestInv
  <2>5. ASSUME NEW c \in batches', c.live PROVE answer' = "sent" /\ c.events = flight'
    <3>1. CASE c = rest /\ rest.todo # {}
      BY <1>2, <1>3, <1>7, <2>2, <2>5, <3>1
    <3>2. CASE c \in batches /\ c # b
      <4>1. ~b.live /\ answer = "sent" /\ c.events = flight
        BY <2>3, <2>4, <2>5, <3>2
      <4> QED
        BY <1>2, <1>3, <4>1
    <3> QED
      BY <1>8, <1>9, <3>1, <3>2
  <2>6. ASSUME NEW c \in batches', NEW d \in batches', c.live, d.live
        PROVE  c = d
    <3>1. CASE c = rest
      <4>1. b.live
        BY <1>7, <2>6, <3>1
      <4> QED
        BY <1>9, <2>4, <2>6, <3>1, <4>1
    <3>2. CASE d = rest
      <4>1. b.live
        BY <1>7, <2>6, <3>2
      <4> QED
        BY <1>9, <2>4, <2>6, <3>2, <4>1
    <3>3. CASE c \in batches /\ d \in batches
      BY <1>1, <2>6, <3>3 DEF RequestInv
    <3> QED
      BY <1>9, <3>1, <3>2, <3>3
  <2>7. ASSUME answer' = "ok", NEW e \in Range(flight') PROVE Logged(e)'
    <3>0. e \in Range(flight) /\ e \in Events
      BY <1>1, <1>2, <2>7, QueueTypes
    <3>1. CASE answer = "ok"
      BY <1>1, <1>6, <3>0, <3>1 DEF RequestInv, Grows
    <3>2. CASE rest.todo = {} /\ b.live
      BY <1>12, <2>2, <3>0, <3>2
    <3> QED
      BY <1>3, <2>7, <3>1, <3>2
  <2> QED
    BY <2>1, <2>5, <2>6, <2>7 DEF RequestInv, Run
<1>14. \A c \in batches' : \E d \in batches : c.events = d.events
  BY <1>7, <1>9
<1> QED
  BY <1>2, <1>6, <1>10, <1>11, <1>13, <1>14, ControllerFrame

(* The append fails, with or without a trace in the log.                   *)
LEMMA appendFailsPreserves ==
  ASSUME IInv, NEW b \in batches, NEW r \in b.todo, NEW written \in BOOLEAN,
         appendFails(b, r, written)
  PROVE  IInv'
<1>1. /\ TypeInv /\ SpoolInv /\ RequestInv /\ QueueInv /\ LogInv /\ OrderInv /\ PostInv
  BY DEF IInv
<1>2. /\ log' = IF written THEN [log EXCEPT ![r] = @ \o Fresh(b.events, r)] ELSE log
      /\ batches' = batches \ {b}
      /\ UNCHANGED <<peerVars, events, flight, terminations, spoolError, closed, segments, seen,
                     accepted, exits>>
  BY DEF appendFails
<1>2a. repeatable' = (repeatable \/ written)
  BY DEF appendFails
<1>3. answer' = IF b.live /\ answer = "sent" THEN "failed" ELSE answer
  BY DEF appendFails, Answered
<1>3a. faults' \in 0 .. MaxFaults
  BY <1>1, BoundsAssumption DEF appendFails, Fault, TypeInv, TypeOK
<1>4. b.events \in Seq(Events) /\ r \in Runs /\ Backed(b.events, {})
  BY <1>1 DEF TypeInv, BatchType, OrderInv
<1>5. /\ log' \in [Runs -> Seq(Events)]
      /\ Grows
      /\ LogInv'
  <2>1. CASE written
    <3>1. log' = [log EXCEPT ![r] = @ \o Fresh(b.events, r)] /\ repeatable'
      BY <1>2, <1>2a, <2>1
    <3>2. /\ log' \in [Runs -> Seq(Events)]
          /\ Grows
          /\ \A q \in Runs : \A i \in DOMAIN log'[q] : Run(log'[q][i]) = q
          /\ LogsAreInSourceOrder'
      BY <1>1, <1>4, <3>1, LogAppended
    <3>3. \A e \in seen' : Logged(e)'
      BY <1>1, <1>2, <3>2 DEF LogInv, Grows, TypeInv, TypeOK
    <3>4. EventsAreLoggedOnce'
      BY <3>1 DEF EventsAreLoggedOnce
    <3> QED
      BY <3>1, <3>2, <3>3, <3>4 DEF LogInv, Run
  <2>2. CASE ~written
    <3>1. log' = log
      BY <1>2, <2>2
    <3>2. repeatable' <=> repeatable
      BY <1>2a, <2>2
    <3>3. log \in [Runs -> Seq(Events)]
      BY <1>1 DEF TypeInv, TypeOK
    <3>4. LogInv'
      <4>1. \A e \in seen' : Logged(e)'
        BY <1>1, <1>2, <3>1 DEF LogInv, Logged, Run
      <4>2. LogsAreInSourceOrder' /\ \A q \in Runs : \A i \in DOMAIN log'[q] : Run(log'[q][i]) = q
        BY <1>1, <3>1 DEF LogInv, LogsAreInSourceOrder
      <4>3. EventsAreLoggedOnce'
        BY <1>1, <3>1, <3>2 DEF LogInv, EventsAreLoggedOnce
      <4>4. ~repeatable' => \A q \in Runs : Range(log'[q]) \subseteq seen'
        BY <1>1, <1>2, <3>1, <3>2 DEF LogInv
      <4> QED
        BY <4>1, <4>2, <4>3, <4>4 DEF LogInv, Run
    <3> QED
      BY <3>1, <3>3, <3>4, SameLog
  <2> QED
    BY <2>1, <2>2
<1>6. TypeInv'
  <2>1. answer' \in {"none", "sent", "ok", "failed"} /\ (answer' = "none" => answer = "none")
    BY <1>1, <1>3 DEF TypeInv, TypeOK
  <2>2. repeatable' \in BOOLEAN
    BY <1>2a
  <2> QED
    BY <1>1, <1>2, <1>3a, <1>5, <2>1, <2>2 DEF TypeInv, TypeOK, peerVars, BatchType
<1>7. RequestInv'
  <2>1. ASSUME NEW c \in batches', NEW e \in Range(c.events)
        PROVE  Run(e) \in c.todo \/ Logged(e)'
    BY <1>1, <1>2, <1>5, QueueTypes DEF RequestInv, Grows
  <2>2. ASSUME NEW c \in batches', c.live PROVE answer' = "sent" /\ c.events = flight'
    <3>1. c \in batches /\ c # b
      BY <1>2
    <3>2. answer = "sent" /\ c.events = flight /\ ~b.live
      BY <1>1, <2>2, <3>1 DEF RequestInv
    <3> QED
      BY <1>2, <1>3, <3>2
  <2>3. \A c, d \in batches' : c.live /\ d.live => c = d
    BY <1>1, <1>2 DEF RequestInv
  <2>4. ASSUME answer' = "ok", NEW e \in Range(flight') PROVE Logged(e)'
    BY <1>1, <1>2, <1>3, <1>5, <2>4, QueueTypes DEF RequestInv, Grows
  <2> QED
    BY <2>1, <2>2, <2>3, <2>4 DEF RequestInv, Run
<1>8. \A c \in batches' : \E d \in batches : c.events = d.events
  BY <1>2
<1> QED
  BY <1>2, <1>5, <1>6, <1>7, <1>8, ControllerFrame

(* The Controller starts again: its requests and its memory are gone.      *)
LEMMA controllerRestartsPreserves ==
  ASSUME IInv, controllerRestarts
  PROVE  IInv'
<1>1. /\ TypeInv /\ SpoolInv /\ RequestInv /\ QueueInv /\ LogInv /\ OrderInv /\ PostInv
  BY DEF IInv
<1>2. /\ batches' = {} /\ seen' = {} /\ repeatable' = TRUE
      /\ answer' = IF answer = "sent" THEN "failed" ELSE answer
      /\ UNCHANGED <<peerVars, events, flight, terminations, spoolError, closed, segments, log,
                     accepted, exits>>
      /\ faults' \in 0 .. MaxFaults
  BY <1>1, BoundsAssumption DEF controllerRestarts, Fault, TypeInv, TypeOK
<1>3. Grows
  BY <1>2, SameLog
<1>4. TypeInv'
  <2>1. answer' \in {"none", "sent", "ok", "failed"} /\ (answer' = "none" => answer = "none")
    BY <1>1, <1>2 DEF TypeInv, TypeOK
  <2> QED
    BY <1>1, <1>2, <2>1 DEF TypeInv, TypeOK, peerVars, BatchType
<1>5. LogInv'
  BY <1>1, <1>2 DEF LogInv, Logged, Run, LogsAreInSourceOrder, EventsAreLoggedOnce
<1>6. RequestInv'
  BY <1>1, <1>2 DEF RequestInv, Logged, Run
<1>7. \A c \in batches' : \E b \in batches : c.events = b.events
  BY <1>2
<1> QED
  BY <1>2, <1>3, <1>4, <1>5, <1>6, <1>7, ControllerFrame

-----------------------------------------------------------------------------
(* The theorems.                                                           *)

(* The invariant above is one of the whole system: Peers, Agent and        *)
(* Controller, whichever of them fails or restarts, in any order.          *)
THEOREM Inductive == Spec => []IInv
<1>1. IInv /\ [Next]_vars => IInv'
  <2> SUFFICES ASSUME IInv, [Next]_vars PROVE IInv'
    OBVIOUS
  <2>1. ASSUME NEW p \in Peers, PeerStep(p) PROVE IInv'
    <3>1. CASE \E upto \in 1 .. MaxEvents : flush(p, upto)
      BY <3>1, flushPreserves
    <3>2. CASE postAnswered(p)
      BY <3>2, postAnsweredPreserves
    <3>3. CASE postTimesOut(p)
      BY <3>3, postTimesOutPreserves
    <3>4. CASE \E outcome \in Outcomes : handleTelemetry(p, outcome)
      BY <3>4, handleTelemetryPreserves
    <3>5. CASE \E outcome \in Outcomes \ {"full"} : queueTermination(p, outcome)
      BY <3>5, queueTerminationPreserves
    <3> QED
      BY <2>1, <3>1, <3>2, <3>3, <3>4, <3>5 DEF PeerStep
  <2>2. CASE AgentStep
    BY <2>2, flushEventsPreserves, flushFailedPreserves, acknowledgePreserves DEF AgentStep
  <2>3. CASE ControllerStep
    BY <2>3, appendRunEventsPreserves DEF ControllerStep
  <2>4. CASE AgentFault
    <3>1. CASE \E l \in latePosts, outcome \in Outcomes : handleLate(l, outcome)
      BY <3>1, handleLatePreserves
    <3>2. CASE \E s \in Acknowledged(flight), outcome \in {"unsaved", "saved", "unremoved"} :
                 \E done \in SUBSET (Acknowledged(flight) \ {s}) : acknowledgeFails(done, s, outcome)
      BY <3>2, acknowledgeFailsPreserves
    <3> QED
      BY <2>4, <3>1, <3>2, flushTimesOutPreserves, closeTelemetryPreserves, agentRestartsPreserves
         DEF AgentFault
  <2>5. CASE ControllerFault
    BY <2>5, appendFailsPreserves, controllerRestartsPreserves DEF ControllerFault
  <2>6. CASE UNCHANGED vars
    <3>1. TypeInv /\ SpoolInv /\ RequestInv /\ QueueInv /\ LogInv /\ OrderInv /\ PostInv
      BY DEF IInv
    <3>2. UNCHANGED <<peerVars, agentVars, logVars, faults, exits, accepted>>
      BY <2>6 DEF vars
    <3>3. TypeInv'
      BY <3>1, <3>2 DEF TypeInv, TypeOK, peerVars, agentVars, logVars, BatchType
    <3>4. PostInv'
      BY <3>1, <3>2 DEF PostInv, peerVars
    <3> QED
      BY <3>2, <3>3, <3>4, PeerFrame
  <2> QED
    BY <2>1, <2>2, <2>3, <2>4, <2>5, <2>6 DEF Next
<1> QED
  BY <1>1, InitHolds, PTL DEF Spec

(* Every variable keeps to its values: of the posts, the queues, the spool *)
(* segments and the requests, after any loss, failure or restart.          *)
THEOREM TypeCorrect == Spec => []TypeOK
<1>1. IInv => TypeOK
  BY DEF IInv, TypeInv
<1> QED
  BY <1>1, Inductive, PTL

(* What the Agent has acknowledged (enqueueEvents), and the markers it has *)
(* spooled (queueTermination), is on a disk at every moment: in a log, or  *)
(* in a part of a spool segment that is not yet saved as acknowledged.     *)
(* This holds for any number of Agent and Controller restarts, any failed  *)
(* writes, and for every limit of the queue and of a request.              *)
THEOREM Durability == Spec => []AcceptedEventsAreDurable
<1>1. IInv => AcceptedEventsAreDurable
  <2> SUFFICES ASSUME IInv, NEW e \in accepted, ~Logged(e)
               PROVE  \E s \in DOMAIN segments : \E i \in DOMAIN segments[s].events :
                        i > segments[s].saved /\ segments[s].events[i] = e
    BY DEF AcceptedEventsAreDurable
  <2>1. TypeInv /\ SpoolInv
    BY DEF IInv
  <2>2. PICK s \in DOMAIN segments : e \in Range(segments[s].events)
    BY <2>1 DEF SpoolInv
  <2>3. PICK i \in DOMAIN segments[s].events : segments[s].events[i] = e
    BY <2>2 DEF Range
  <2>4. segments[s] \in SegmentType /\ DOMAIN segments[s].events = 1 .. Len(segments[s].events)
    BY <2>1, <2>2, QueueTypes
  <2>5. ~(i <= segments[s].saved)
    BY <2>1, <2>2, <2>3 DEF SpoolInv
  <2>6. i \in Nat /\ segments[s].saved \in Nat
    BY <2>4 DEF SegmentType
  <2>7. i > segments[s].saved
    BY <2>5, <2>6
  <2> QED
    BY <2>3, <2>7
<1> QED
  BY <1>1, Inductive, PTL

(* drainRunEvents tells the truth: when it finds nothing of a run queued,  *)
(* in flight or waiting, the run's log has every event the Agent           *)
(* acknowledged and the exit marker of every Peer the Agent removed.       *)
THEOREM CompleteDrains == Spec => []DrainedRunsAreLogged
<1>1. IInv => DrainedRunsAreLogged
  BY DEF IInv, QueueInv, DrainedRunsAreLogged, Drained
<1> QED
  BY <1>1, Inductive, PTL

(* However batches are repeated, requeued, replayed from the spool or cut, *)
(* appendRunEvents writes the events of a Peer in source order and without *)
(* gaps, and each once unless the Controller lost its memory or a failed   *)
(* write had reached the disk.                                             *)
THEOREM OrderedLogs == Spec => []LogsAreInOrderOnce
<1>1. IInv => LogsAreInOrderOnce
  BY DEF IInv, LogInv, LogsAreInOrderOnce
<1> QED
  BY <1>1, Inductive, PTL
=============================================================================
