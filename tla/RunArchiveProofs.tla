-------------------------- MODULE RunArchiveProofs --------------------------
(***************************************************************************)
(* Proofs about RunArchive, for any number of readers, events, versions    *)
(* and crashes.  Five inductive invariants, each over the ones before it:  *)
(*                                                                         *)
(*   BaseInv    types, and what the step of the worker says;               *)
(*   QueueInv   what is on the disk alone is queued or about to be copied; *)
(*   CopyInv    disk and store together hold the log, in both indexes;     *)
(*   FileInv    and the last version of the artifact;                      *)
(*   ReaderInv  what a capture took stays where it will be read.           *)
(*                                                                         *)
(* First come facts about sequences: sets of numbers and of sequences are  *)
(* taken by induction, Keep picks the members of a set, and Tiles says     *)
(* that pieces of a log follow one another without a gap.                  *)
(***************************************************************************)
EXTENDS RunArchive, SequenceTheorems, WellFoundedInduction, TLAPS

-----------------------------------------------------------------------------
(***************************************************************************)
(* Induction over sets of numbers and of sequences: the forms of these     *)
(* principles that take a set instead of an operator.                      *)
(***************************************************************************)

(* A set of natural numbers has a least element.                           *)
LEMMA LeastNumber ==
  ASSUME NEW S \in SUBSET Nat, S # {}
  PROVE  \E n \in S : \A m \in S : n <= m
<1> DEFINE R == {ss \in Nat \X Nat : ss[1] < ss[2]}
<1>1. IsWellFoundedOn(R, Nat)
  BY NatLessThanWellFounded DEF OpToRel
<1>2. PICK n \in S : \A m \in S : <<m, n>> \notin R
  BY <1>1, WFMin
<1>3. \A m \in S : ~(m < n)
  <2> SUFFICES ASSUME NEW m \in S, m < n PROVE FALSE
    OBVIOUS
  <2>1. <<m, n>> \in Nat \X Nat /\ <<m, n>>[1] < <<m, n>>[2]
    OBVIOUS
  <2> QED
    BY <1>2, <2>1
<1> QED
  BY <1>3

(* A set of numbers with zero and the successor of each member is Nat.     *)
LEMMA NumberInduction ==
  ASSUME NEW P \in SUBSET Nat, 0 \in P, \A n \in P : n + 1 \in P
  PROVE  P = Nat
<1> SUFFICES ASSUME Nat \ P # {} PROVE FALSE
  OBVIOUS
<1>1. PICK n \in Nat \ P : \A m \in Nat \ P : n <= m
  BY LeastNumber
<1>2. n # 0 /\ n - 1 \in Nat /\ n - 1 \notin Nat \ P
  BY <1>1
<1> QED
  BY <1>2

(* A set of sequences over T closed under Append has them all.             *)
LEMMA SequenceInduction ==
  ASSUME NEW T, NEW P \in SUBSET Seq(T), <<>> \in P,
         \A s \in P : \A x \in T : Append(s, x) \in P
  PROVE  P = Seq(T)
<1> DEFINE Q == {n \in Nat : \A s \in Seq(T) : Len(s) = n => s \in P}
<1>1. 0 \in Q
  BY EmptySeq
<1>2. ASSUME NEW n \in Q PROVE n + 1 \in Q
  <2> SUFFICES ASSUME NEW s \in Seq(T), Len(s) = n + 1 PROVE s \in P
    OBVIOUS
  <2>1. s # <<>>
    OBVIOUS
  <2>2. PICK f \in Seq(T), x \in T : s = Append(f, x)
    BY <2>1, SequenceEmptyOrAppend
  <2>3. Len(f) = n
    BY <2>2, AppendProperties
  <2> QED
    BY <2>2, <2>3
<1> HIDE DEF Q
<1>3. Q = Nat
  BY <1>1, <1>2, NumberInduction DEF Q
<1>4. \A s \in Seq(T) : Len(s) \in Q /\ Len(s) = Len(s) => s \in P
  BY DEF Q
<1> QED
  BY <1>3, <1>4

-----------------------------------------------------------------------------
(* The elements of a sequence.                                             *)
LEMMA ToSetAppend ==
  ASSUME NEW T, NEW s \in Seq(T), NEW x \in T
  PROVE  ToSet(Append(s, x)) = ToSet(s) \cup {x}
<1>1. /\ Append(s, x) \in Seq(T) /\ DOMAIN Append(s, x) = 1 .. Len(s) + 1
      /\ Append(s, x)[Len(s) + 1] = x /\ DOMAIN s = 1 .. Len(s)
      /\ \A i \in 1 .. Len(s) : Append(s, x)[i] = s[i]
  BY AppendProperties, LenProperties
<1>2. Len(s) \in Nat
  OBVIOUS
<1>3. 1 .. Len(s) + 1 = (1 .. Len(s)) \cup {Len(s) + 1}
  BY <1>2
<1> QED
  BY <1>1, <1>3 DEF ToSet

(* The elements of a concatenation.                                        *)
LEMMA ToSetConcat ==
  ASSUME NEW T, NEW s \in Seq(T), NEW t \in Seq(T)
  PROVE  ToSet(s \o t) = ToSet(s) \cup ToSet(t)
<1>1. ToSet(s) = Range(s) /\ ToSet(t) = Range(t) /\ ToSet(s \o t) = Range(s \o t)
  BY DEF ToSet, Range
<1> QED
  BY <1>1, RangeConcatenation

(* A sequence without elements is empty.                                   *)
LEMMA EmptyToSet ==
  ASSUME NEW T, NEW s \in Seq(T), ToSet(s) = {}
  PROVE  s = <<>>
<1>1. Len(s) \in Nat /\ DOMAIN s = 1 .. Len(s)
  BY LenProperties
<1>2. CASE Len(s) = 0
  BY <1>2
<1>3. CASE Len(s) > 0
  <2>1. 1 \in DOMAIN s
    BY <1>1, <1>3
  <2>2. s[1] \in ToSet(s)
    BY <2>1 DEF ToSet
  <2> QED
    BY <2>2
<1> QED
  BY <1>1, <1>2, <1>3

(* The elements of a sequence over T are in T.                             *)
LEMMA ToSetInSet ==
  ASSUME NEW T, NEW s \in Seq(T)
  PROVE  ToSet(s) \subseteq T
  BY ElementOfSeq DEF ToSet
-----------------------------------------------------------------------------
(***************************************************************************)
(* Keep: what it makes of a sequence.                                      *)
(***************************************************************************)
KeepSteps(f, s, S, m) ==
  /\ f[0] = <<>>
  /\ \A n \in 1 .. m : f[n] = IF s[n] \in S THEN Append(f[n - 1], s[n]) ELSE f[n - 1]

(* The recursive function of Keep exists.                                  *)
LEMMA KeepFunction ==
  ASSUME NEW T, NEW s \in Seq(T), NEW S
  PROVE  \E f \in [0 .. Len(s) -> Seq(T)] :
           KeepSteps(f, s, S, Len(s)) /\ Keep(s, S) = f[Len(s)]
<1> DEFINE P == {m \in Nat : m <= Len(s) =>
                   \E f \in [0 .. m -> Seq(T)] : KeepSteps(f, s, S, m)}
<1>1. 0 \in P
  <2>1. [n \in 0 .. 0 |-> <<>>] \in [0 .. 0 -> Seq(T)]
    BY EmptySeq
  <2>2. KeepSteps([n \in 0 .. 0 |-> <<>>], s, S, 0)
    BY DEF KeepSteps
  <2> QED
    BY <2>1, <2>2
<1>2. ASSUME NEW m \in P PROVE m + 1 \in P
  <2> SUFFICES ASSUME m + 1 <= Len(s)
               PROVE  \E f \in [0 .. m + 1 -> Seq(T)] : KeepSteps(f, s, S, m + 1)
    OBVIOUS
  <2>1. PICK g \in [0 .. m -> Seq(T)] : KeepSteps(g, s, S, m)
    OBVIOUS
  <2> DEFINE next == IF s[m + 1] \in S THEN Append(g[m], s[m + 1]) ELSE g[m]
             f == [n \in 0 .. m + 1 |-> IF n = m + 1 THEN next ELSE g[n]]
  <2>2. next \in Seq(T)
    <3>1. g[m] \in Seq(T) /\ s[m + 1] \in T
      BY ElementOfSeq
    <3> QED
      BY <3>1, AppendProperties
  <2>3. f \in [0 .. m + 1 -> Seq(T)]
    BY <2>2
  <2>4. KeepSteps(f, s, S, m + 1)
    <3>1. f[0] = <<>>
      BY <2>1 DEF KeepSteps
    <3>2. ASSUME NEW n \in 1 .. m + 1
          PROVE  f[n] = IF s[n] \in S THEN Append(f[n - 1], s[n]) ELSE f[n - 1]
      <4>1. CASE n = m + 1
        BY <4>1
      <4>2. CASE n # m + 1
        <5>1. n \in 1 .. m /\ f[n] = g[n] /\ f[n - 1] = g[n - 1]
          BY <4>2
        <5> QED
          BY <2>1, <5>1 DEF KeepSteps
      <4> QED
        BY <4>1, <4>2
    <3> QED
      BY <3>1, <3>2 DEF KeepSteps
  <2> QED
    BY <2>3, <2>4
<1>n. Len(s) \in Nat /\ Len(s) <= Len(s) /\ P \in SUBSET Nat
  OBVIOUS
<1> HIDE DEF P
<1>3. P = Nat
  BY <1>n, <1>1, <1>2, NumberInduction
<1>4. PICK f \in [0 .. Len(s) -> Seq(T)] : KeepSteps(f, s, S, Len(s))
  BY <1>n, <1>3 DEF P
<1> DEFINE Eq(g) == g = [n \in 0 .. Len(s) |->
                           IF n = 0 THEN <<>>
                           ELSE IF s[n] \in S THEN Append(g[n - 1], s[n])
                           ELSE g[n - 1]]
<1>5. Eq(f)
  <2>1. ASSUME NEW n \in 0 .. Len(s)
        PROVE  f[n] = IF n = 0 THEN <<>>
                      ELSE IF s[n] \in S THEN Append(f[n - 1], s[n])
                      ELSE f[n - 1]
    <3>1. CASE n = 0
      BY <1>4, <3>1 DEF KeepSteps
    <3>2. CASE n # 0
      <4>1. n \in 1 .. Len(s)
        BY <3>2
      <4> QED
        BY <1>4, <3>2, <4>1 DEF KeepSteps
    <3> QED
      BY <3>1, <3>2
  <2> QED
    BY <2>1
<1> DEFINE k == CHOOSE g : Eq(g)
<1>6. Eq(k)
  BY <1>5
<1>7. Keep(s, S) = k[Len(s)]
  BY DEF Keep
<1> HIDE DEF k
<1>8. KeepSteps(k, s, S, Len(s))
  <2>1. k[0] = <<>>
    BY <1>n, <1>6
  <2>2. ASSUME NEW n \in 1 .. Len(s)
        PROVE  k[n] = IF s[n] \in S THEN Append(k[n - 1], s[n]) ELSE k[n - 1]
    <3>1. n \in 0 .. Len(s) /\ n # 0
      BY <1>n
    <3> QED
      BY <1>6, <3>1, Zenon
  <2> QED
    BY <2>1, <2>2 DEF KeepSteps
<1>9. k \in [0 .. Len(s) -> Seq(T)]
  <2> DEFINE Q == {m \in Nat : m <= Len(s) => k[m] = f[m]}
  <2>1. 0 \in Q /\ Q \in SUBSET Nat
    BY <1>4, <1>8 DEF KeepSteps
  <2>2. ASSUME NEW m \in Q PROVE m + 1 \in Q
    <3>1. m + 1 <= Len(s) => m + 1 \in 1 .. Len(s) /\ k[m] = f[m] /\ (m + 1) - 1 = m
      BY <1>n
    <3>2. m + 1 <= Len(s) => k[m + 1] = f[m + 1]
      BY <1>4, <1>8, <3>1 DEF KeepSteps
    <3> QED
      BY <3>2
  <2> HIDE DEF Q
  <2>3. Q = Nat
    BY <2>1, <2>2, NumberInduction
  <2>4. \A m \in 0 .. Len(s) : k[m] = f[m]
    BY <2>3 DEF Q
  <2>5. DOMAIN k = 0 .. Len(s)
    BY <1>6
  <2> QED
    BY <1>6, <2>4, <2>5
<1> QED
  BY <1>7, <1>8, <1>9

(* What is kept of a sequence is a sequence over the same set.             *)
LEMMA KeepType ==
  ASSUME NEW T, NEW s \in Seq(T), NEW S
  PROVE  Keep(s, S) \in Seq(T)
<1>1. PICK f \in [0 .. Len(s) -> Seq(T)] : Keep(s, S) = f[Len(s)]
  BY KeepFunction
<1> QED
  BY <1>1

(* Nothing is kept of the empty sequence.                                  *)
LEMMA KeepEmpty ==
  ASSUME NEW S PROVE Keep(<<>>, S) = <<>>
<1>1. <<>> \in Seq({}) /\ Len(<<>>) = 0
  OBVIOUS
<1>2. PICK f \in [0 .. Len(<<>>) -> Seq({})] :
        KeepSteps(f, <<>>, S, Len(<<>>)) /\ Keep(<<>>, S) = f[Len(<<>>)]
  BY <1>1, KeepFunction
<1> QED
  BY <1>1, <1>2 DEF KeepSteps

(* Keep of a sequence with one element more.                               *)
LEMMA KeepAppend ==
  ASSUME NEW T, NEW s \in Seq(T), NEW x \in T, NEW S
  PROVE  /\ Keep(s, S) \in Seq(T)
         /\ Keep(Append(s, x), S) = IF x \in S THEN Append(Keep(s, S), x) ELSE Keep(s, S)
<1> DEFINE t == Append(s, x)
           N == Len(s)
<1>1. /\ t \in Seq(T) /\ Len(t) = N + 1 /\ t[N + 1] = x /\ N \in Nat
      /\ \A n \in 1 .. N : t[n] = s[n]
  BY AppendProperties
<1>2. PICK f \in [0 .. N -> Seq(T)] : KeepSteps(f, s, S, N) /\ Keep(s, S) = f[N]
  BY KeepFunction
<1> HIDE DEF t, N
<1>3. PICK g \in [0 .. N + 1 -> Seq(T)] : KeepSteps(g, t, S, N + 1) /\ Keep(t, S) = g[N + 1]
  <2>1. PICK g \in [0 .. Len(t) -> Seq(T)] :
          KeepSteps(g, t, S, Len(t)) /\ Keep(t, S) = g[Len(t)]
    BY <1>1, KeepFunction
  <2> QED
    BY <1>1, <2>1
<1> DEFINE Q == {m \in Nat : m <= N => g[m] = f[m]}
<1>4. 0 \in Q /\ Q \in SUBSET Nat
  BY <1>2, <1>3 DEF KeepSteps
<1>5. ASSUME NEW m \in Q PROVE m + 1 \in Q
  <2> SUFFICES ASSUME m + 1 <= N PROVE g[m + 1] = f[m + 1]
    OBVIOUS
  <2>1. m + 1 \in 1 .. N /\ m + 1 \in 1 .. N + 1 /\ g[m] = f[m] /\ t[m + 1] = s[m + 1]
    BY <1>1
  <2> QED
    BY <1>2, <1>3, <2>1 DEF KeepSteps
<1> HIDE DEF Q
<1>6. Q = Nat
  BY <1>4, <1>5, NumberInduction
<1>n. N \in Nat /\ N <= N /\ N + 1 \in 1 .. N + 1 /\ (N + 1) - 1 = N
  BY <1>1
<1>7. g[N] = f[N]
  BY <1>n, <1>6 DEF Q
<1>8. g[N + 1] = IF x \in S THEN Append(g[N], x) ELSE g[N]
  BY <1>1, <1>n, <1>3 DEF KeepSteps
<1> QED
  BY <1>1, <1>2, <1>3, <1>7, <1>8 DEF t

(* Keep distributes over concatenation.                                    *)
LEMMA KeepConcat ==
  ASSUME NEW T, NEW s \in Seq(T), NEW t \in Seq(T), NEW S
  PROVE  Keep(s \o t, S) = Keep(s, S) \o Keep(t, S)
<1> DEFINE P == {u \in Seq(T) : Keep(s \o u, S) = Keep(s, S) \o Keep(u, S)}
<1>1. <<>> \in P
  <2>1. Keep(s, S) \in Seq(T)
    BY KeepType
  <2>2. s \o <<>> = s /\ Keep(s, S) \o <<>> = Keep(s, S)
    BY <2>1, ConcatEmptySeq
  <2>3. <<>> \in Seq(T) /\ Keep(<<>>, S) = <<>>
    BY KeepEmpty
  <2> QED
    BY <2>2, <2>3
<1>2. ASSUME NEW u \in Seq(T), NEW x \in T, Keep(s \o u, S) = Keep(s, S) \o Keep(u, S)
      PROVE  /\ Append(u, x) \in Seq(T)
             /\ Keep(s \o Append(u, x), S) = Keep(s, S) \o Keep(Append(u, x), S)
  <2> DEFINE a == Keep(s, S)
             b == Keep(u, S)
  <2>1. a \in Seq(T) /\ b \in Seq(T)
    BY KeepType
  <2>2. Append(u, x) \in Seq(T) /\ s \o u \in Seq(T)
    BY AppendProperties, ConcatProperties
  <2>3. s \o Append(u, x) = Append(s \o u, x)
    OBVIOUS
  <2>4. Keep(Append(s \o u, x), S) = IF x \in S THEN Append(a \o b, x) ELSE a \o b
    <3>1. Keep(s \o u, S) = a \o b
      BY <1>2
    <3>2. Keep(Append(s \o u, x), S)
            = IF x \in S THEN Append(Keep(s \o u, S), x) ELSE Keep(s \o u, S)
      <4>1. ASSUME NEW w \in Seq(T)
            PROVE  Keep(Append(w, x), S) = IF x \in S THEN Append(Keep(w, S), x) ELSE Keep(w, S)
        BY KeepAppend, SMTT(30)
      <4> QED
        BY <2>2, <4>1, Zenon
    <3> QED
      BY <3>1, <3>2
  <2>5. Keep(Append(u, x), S) = IF x \in S THEN Append(b, x) ELSE b
    BY KeepAppend
  <2> HIDE DEF a, b
  <2>6. a \o Append(b, x) = Append(a \o b, x)
    BY <2>1
  <2> QED
    BY <1>2, <2>2, <2>3, <2>4, <2>5, <2>6 DEF a, b
<1>3. \A u \in P : \A x \in T : Append(u, x) \in P
  BY <1>2
<1> HIDE DEF P
<1>4. P = Seq(T)
  BY <1>1, <1>3, SequenceInduction DEF P
<1> QED
  BY <1>4 DEF P

(* The elements that are kept.                                             *)
LEMMA KeepRange ==
  ASSUME NEW T, NEW s \in Seq(T), NEW S
  PROVE  Keep(s, S) \in Seq(T) /\ ToSet(Keep(s, S)) = ToSet(s) \cap S
<1> DEFINE P == {u \in Seq(T) : ToSet(Keep(u, S)) = ToSet(u) \cap S}
<1>1. <<>> \in P
  BY KeepEmpty DEF ToSet
<1>2. ASSUME NEW u \in P, NEW x \in T PROVE Append(u, x) \in P
  <2>1. \A w \in Seq(T) : ToSet(Append(w, x)) = ToSet(w) \cup {x}
    BY ToSetAppend
  <2>2. Append(u, x) \in Seq(T) /\ Keep(u, S) \in Seq(T)
    BY AppendProperties, KeepAppend
  <2>3. Keep(Append(u, x), S) = IF x \in S THEN Append(Keep(u, S), x) ELSE Keep(u, S)
    BY KeepAppend
  <2> QED
    BY <2>1, <2>2, <2>3
<1> HIDE DEF P
<1>3. P = Seq(T)
  BY <1>1, <1>2, SequenceInduction DEF P
<1> QED
  BY <1>3, KeepType DEF P

(* A sequence whose elements are all in S is kept as it is.                *)
LEMMA KeepAll ==
  ASSUME NEW T, NEW s \in Seq(T), NEW S, ToSet(s) \subseteq S
  PROVE  Keep(s, S) = s
<1> DEFINE P == {u \in Seq(T) : ToSet(u) \subseteq S => Keep(u, S) = u}
<1>1. <<>> \in P
  BY KeepEmpty
<1>2. ASSUME NEW u \in P, NEW x \in T PROVE Append(u, x) \in P
  <2>1. ToSet(Append(u, x)) = ToSet(u) \cup {x}
    BY ToSetAppend
  <2>2. Append(u, x) \in Seq(T)
    BY AppendProperties
  <2>3. Keep(Append(u, x), S) = IF x \in S THEN Append(Keep(u, S), x) ELSE Keep(u, S)
    BY KeepAppend
  <2> QED
    BY <2>1, <2>2, <2>3
<1> HIDE DEF P
<1>3. P = Seq(T)
  BY <1>1, <1>2, SequenceInduction DEF P
<1> QED
  BY <1>3 DEF P

(* Nothing is kept of a sequence that has no element in S.                 *)
LEMMA KeepNone ==
  ASSUME NEW T, NEW s \in Seq(T), NEW S, ToSet(s) \cap S = {}
  PROVE  Keep(s, S) = <<>>
<1>1. Keep(s, S) \in Seq(T) /\ ToSet(Keep(s, S)) = {}
  BY KeepRange
<1> QED
  BY <1>1, EmptyToSet

-----------------------------------------------------------------------------
(***************************************************************************)
(* Logs.  Events a + 1, ..., b as one piece of a log, and pieces that      *)
(* follow one another without a gap.                                       *)
(***************************************************************************)
Chunk(a, b) == [i \in 1 .. b - a |-> a + i]

Cuts(c, q, a, b) ==
  /\ c[0] = a /\ c[Len(q)] = b
  /\ \A i \in 1 .. Len(q) : c[i - 1] < c[i] /\ q[i] = Chunk(c[i - 1], c[i])

Tiles(q, a, b) == \E c \in [0 .. Len(q) -> Nat] : Cuts(c, q, a, b)

(* A piece has b - a events, the first of which is a + 1.                  *)
LEMMA ChunkType ==
  ASSUME NEW a \in Nat, NEW b \in Nat, a <= b
  PROVE  /\ Chunk(a, b) \in Seq(Nat) /\ Len(Chunk(a, b)) = b - a
         /\ \A i \in 1 .. b - a : Chunk(a, b)[i] = a + i
         /\ a < b => Chunk(a, b) # <<>> /\ Head(Chunk(a, b)) = a + 1
         /\ a = b => Chunk(a, b) = <<>>
<1>1. b - a \in Nat
  OBVIOUS
<1>2. Chunk(a, b) \in [1 .. b - a -> Nat]
  BY DEF Chunk
<1>3. Chunk(a, b) \in Seq(Nat)
  BY <1>1, <1>2
<1>4. Len(Chunk(a, b)) = b - a
  BY <1>1, <1>2, <1>3
<1>5. \A i \in 1 .. b - a : Chunk(a, b)[i] = a + i
  BY DEF Chunk
<1>6. a < b => Chunk(a, b) # <<>> /\ Head(Chunk(a, b)) = a + 1
  <2> SUFFICES ASSUME a < b PROVE Chunk(a, b) # <<>> /\ Head(Chunk(a, b)) = a + 1
    OBVIOUS
  <2>1. 1 \in 1 .. b - a /\ Len(Chunk(a, b)) # 0
    BY <1>4
  <2>2. Chunk(a, b) # <<>>
    BY <1>3, <2>1, EmptySeq
  <2> QED
    BY <1>3, <1>5, <2>1, <2>2
<1>7. a = b => Chunk(a, b) = <<>>
  BY <1>3, <1>4
<1> QED
  BY <1>3, <1>4, <1>5, <1>6, <1>7

(* Two pieces that follow one another are one piece.                       *)
LEMMA ChunkConcat ==
  ASSUME NEW a \in Nat, NEW b \in Nat, NEW c \in Nat, a <= b, b <= c
  PROVE  Chunk(a, b) \o Chunk(b, c) = Chunk(a, c)
<1> DEFINE s == Chunk(a, b)
           t == Chunk(b, c)
           u == Chunk(a, c)
<1>1. /\ s \in Seq(Nat) /\ t \in Seq(Nat) /\ u \in Seq(Nat)
      /\ Len(s) = b - a /\ Len(t) = c - b /\ Len(u) = c - a
      /\ \A i \in 1 .. b - a : s[i] = a + i
      /\ \A i \in 1 .. c - b : t[i] = b + i
      /\ \A i \in 1 .. c - a : u[i] = a + i
  <2>1. a <= c
    OBVIOUS
  <2> QED
    BY <2>1, ChunkType
<1> HIDE DEF s, t, u
<1>2. s \o t \in Seq(Nat) /\ Len(s \o t) = c - a
  <2>1. s \o t \in Seq(Nat) /\ Len(s \o t) = Len(s) + Len(t)
    BY <1>1, ConcatProperties
  <2>2. (b - a) + (c - b) = c - a
    OBVIOUS
  <2> QED
    BY <1>1, <2>1, <2>2, Zenon
<1>3. ASSUME NEW i \in 1 .. c - a PROVE (s \o t)[i] = u[i]
  <2>1. CASE i <= b - a
    <3>1. (s \o t)[i] = s[i]
      BY <1>1, <2>1
    <3> QED
      BY <1>1, <2>1, <3>1
  <2>2. CASE i > b - a
    <3>1. i - (b - a) \in 1 .. c - b /\ i \in 1 .. (b - a) + (c - b)
      BY <2>2
    <3>2. \A j \in 1 .. Len(s) + Len(t) :
            (s \o t)[j] = IF j <= Len(s) THEN s[j] ELSE t[j - Len(s)]
      BY <1>1, ConcatProperties
    <3>3. (s \o t)[i] = t[i - (b - a)]
      <4>1. \A j \in 1 .. (b - a) + (c - b) :
              (s \o t)[j] = IF j <= b - a THEN s[j] ELSE t[j - (b - a)]
        BY <1>1, <3>2
      <4>2. i \in 1 .. (b - a) + (c - b) /\ ~(i <= b - a)
        BY <2>2, <3>1
      <4> QED
        BY <4>1, <4>2, Zenon
    <3>4. t[i - (b - a)] = b + (i - (b - a))
      BY <1>1, <3>1
    <3>5. b + (i - (b - a)) = a + i /\ u[i] = a + i
      BY <1>1
    <3> QED
      BY <3>3, <3>4, <3>5, Zenon
  <2>3. i <= b - a \/ i > b - a
    OBVIOUS
  <2> QED
    BY <2>1, <2>2, <2>3, Zenon
<1> QED
  BY <1>1, <1>2, <1>3, SeqEqual DEF s, t, u

(* A piece grows by the next event.                                        *)
LEMMA ChunkAppend ==
  ASSUME NEW a \in Nat, NEW b \in Nat, a <= b
  PROVE  Append(Chunk(a, b), b + 1) = Chunk(a, b + 1)
<1>1. Chunk(b, b + 1) = <<b + 1>>
  <2>1. (b + 1) - b = 1 /\ b + 1 \in Nat /\ b <= b + 1 /\ 1 \in 1 .. 1
    OBVIOUS
  <2>2. /\ Chunk(b, b + 1) \in Seq(Nat) /\ Len(Chunk(b, b + 1)) = (b + 1) - b
        /\ \A i \in 1 .. (b + 1) - b : Chunk(b, b + 1)[i] = b + i
    BY <2>1, ChunkType
  <2>3. Len(Chunk(b, b + 1)) = 1 /\ Chunk(b, b + 1)[1] = b + 1
    BY <2>1, <2>2
  <2> QED
    BY <2>2, <2>3
<1>2. Chunk(a, b) \in Seq(Nat)
  BY ChunkType
<1>3. Append(Chunk(a, b), b + 1) = Chunk(a, b) \o <<b + 1>>
  BY <1>2, AppendIsConcat
<1>4. b + 1 \in Nat /\ b <= b + 1
  OBVIOUS
<1>5. Chunk(a, b) \o Chunk(b, b + 1) = Chunk(a, b + 1)
  BY <1>4, ChunkConcat
<1> QED
  BY <1>1, <1>3, <1>5

(* No pieces at all go from a to a.                                        *)
LEMMA EmptyTiles ==
  ASSUME NEW a \in Nat PROVE Tiles(<<>>, a, a)
<1>1. [i \in 0 .. 0 |-> a] \in [0 .. Len(<<>>) -> Nat]
  OBVIOUS
<1>2. Cuts([i \in 0 .. 0 |-> a], <<>>, a, a)
  BY DEF Cuts
<1> QED
  BY <1>1, <1>2 DEF Tiles

(* Pieces run between two numbers, in order, and none of them is empty.    *)
LEMMA TilesNumbers ==
  ASSUME NEW T, NEW q \in Seq(T), NEW a, NEW b, Tiles(q, a, b)
  PROVE  /\ a \in Nat /\ b \in Nat /\ a <= b
         /\ a = b <=> q = <<>>
         /\ \A s \in ToSet(q) : \E x, y \in Nat :
              /\ a <= x /\ x < y /\ y <= b /\ s = Chunk(x, y)
<1> DEFINE N == Len(q)
<1>1. N \in Nat /\ DOMAIN q = 1 .. N
  BY LenProperties
<1>2. PICK c \in [0 .. N -> Nat] : Cuts(c, q, a, b)
  BY DEF Tiles
<1>3. c[0] = a /\ c[N] = b /\ \A i \in 1 .. N : c[i - 1] < c[i] /\ q[i] = Chunk(c[i - 1], c[i])
  BY <1>2 DEF Cuts
<1> HIDE DEF N
<1> DEFINE P == {n \in Nat : n <= N => \A m \in 0 .. n : c[m] <= c[n] /\ (m < n => c[m] < c[n])}
<1>4. 0 \in P /\ P \in SUBSET Nat
  BY <1>1
<1>5. ASSUME NEW n \in P PROVE n + 1 \in P
  <2> SUFFICES ASSUME n + 1 <= N, NEW m \in 0 .. n + 1
               PROVE  c[m] <= c[n + 1] /\ (m < n + 1 => c[m] < c[n + 1])
    OBVIOUS
  <2>1. n + 1 \in 1 .. N /\ n \in 0 .. N /\ n + 1 \in 0 .. N /\ (n + 1) - 1 = n /\ m \in 0 .. N
    BY <1>1
  <2>2. c[n] < c[n + 1] /\ c[n] \in Nat /\ c[n + 1] \in Nat /\ c[m] \in Nat
    BY <1>3, <2>1
  <2>3. m \in 0 .. n => c[m] <= c[n]
    BY <2>1
  <2> QED
    BY <2>2, <2>3
<1> HIDE DEF P
<1>6. P = Nat
  BY <1>4, <1>5, NumberInduction
<1>7. \A n \in 0 .. N : \A m \in 0 .. n : c[m] <= c[n] /\ (m < n => c[m] < c[n])
  <2> SUFFICES ASSUME NEW n \in 0 .. N
               PROVE  \A m \in 0 .. n : c[m] <= c[n] /\ (m < n => c[m] < c[n])
    OBVIOUS
  <2>1. n \in P /\ n <= N
    BY <1>1, <1>6
  <2> QED
    BY <2>1, Zenon DEF P
<1>8. a \in Nat /\ b \in Nat /\ a <= b /\ (N > 0 => a < b) /\ (N = 0 => a = b)
  BY <1>1, <1>3, <1>7
<1>9. N = 0 <=> q = <<>>
  BY <1>1, EmptySeq DEF N
<1>10. ASSUME NEW s \in ToSet(q)
       PROVE  \E x, y \in Nat : a <= x /\ x < y /\ y <= b /\ s = Chunk(x, y)
  <2>1. PICK i \in 1 .. N : s = q[i]
    BY <1>1 DEF ToSet
  <2>2. i - 1 \in 0 .. N /\ i \in 0 .. N /\ 0 \in 0 .. i - 1 /\ i \in 0 .. N /\ N \in 0 .. N
    BY <1>1
  <2>3. c[i - 1] \in Nat /\ c[i] \in Nat /\ a <= c[i - 1] /\ c[i] <= b
    BY <1>1, <1>3, <1>7, <2>2
  <2> QED
    BY <1>3, <2>1, <2>3
<1> QED
  BY <1>1, <1>8, <1>9, <1>10

(* Pieces up to b and pieces from b on follow one another.                 *)
LEMMA TilesConcat ==
  ASSUME NEW T, NEW p \in Seq(T), NEW q \in Seq(T), NEW a, NEW b, NEW d,
         Tiles(p, a, b), Tiles(q, b, d)
  PROVE  Tiles(p \o q, a, d)
<1> DEFINE N == Len(p)
           M == Len(q)
           r == p \o q
<1>1. /\ N \in Nat /\ M \in Nat /\ Len(r) = N + M
      /\ \A i \in 1 .. N : r[i] = p[i]
      /\ \A i \in 1 .. M : r[N + i] = q[i]
  BY ConcatProperties, LenProperties
<1>2. PICK c \in [0 .. N -> Nat] : Cuts(c, p, a, b)
  BY DEF Tiles
<1>3. PICK e \in [0 .. M -> Nat] : Cuts(e, q, b, d)
  BY DEF Tiles
<1>4. c[0] = a /\ c[N] = b /\ \A i \in 1 .. N : c[i - 1] < c[i] /\ p[i] = Chunk(c[i - 1], c[i])
  BY <1>2 DEF Cuts
<1>5. e[0] = b /\ e[M] = d /\ \A i \in 1 .. M : e[i - 1] < e[i] /\ q[i] = Chunk(e[i - 1], e[i])
  BY <1>3 DEF Cuts
<1> HIDE DEF N, M, r
<1> DEFINE f == [i \in 0 .. N + M |-> IF i <= N THEN c[i] ELSE e[i - N]]
<1>6. f \in [0 .. N + M -> Nat]
  BY <1>1
<1>7. f[0] = a /\ f[N + M] = d
  <2>1. CASE M = 0
    BY <1>1, <1>4, <1>5, <2>1
  <2>2. CASE M # 0
    BY <1>1, <1>4, <1>5, <2>2
  <2> QED
    BY <2>1, <2>2
<1>8. ASSUME NEW i \in 1 .. N + M PROVE f[i - 1] < f[i] /\ r[i] = Chunk(f[i - 1], f[i])
  <2>0. i \in 0 .. N + M /\ i - 1 \in 0 .. N + M
    BY <1>1
  <2>1. CASE i <= N
    <3>1. i \in 1 .. N /\ i - 1 <= N
      BY <1>1, <2>1
    <3>2. f[i] = c[i] /\ f[i - 1] = c[i - 1]
      BY <2>0, <3>1
    <3> QED
      BY <1>1, <1>4, <3>1, <3>2
  <2>2. CASE i > N
    <3>1. i - N \in 1 .. M /\ N + (i - N) = i
      BY <1>1, <2>2
    <3>2. f[i] = e[i - N]
      BY <1>1, <2>0, <2>2
    <3>3. f[i - 1] = e[(i - N) - 1]
      <4>1. CASE i - 1 > N
        BY <1>1, <2>0, <4>1
      <4>2. CASE i - 1 = N
        BY <1>1, <1>4, <1>5, <2>0, <4>2
      <4> QED
        BY <1>1, <2>2, <4>1, <4>2
    <3>4. r[i] = q[i - N]
      BY <1>1, <3>1
    <3>5. e[(i - N) - 1] < e[i - N] /\ q[i - N] = Chunk(e[(i - N) - 1], e[i - N])
      BY <1>5, <3>1
    <3> HIDE DEF f
    <3> QED
      BY <3>2, <3>3, <3>4, <3>5, Zenon
  <2> QED
    BY <1>1, <2>1, <2>2
<1> HIDE DEF f
<1>9. Cuts(f, r, a, d)
  BY <1>1, <1>7, <1>8 DEF Cuts
<1> QED
  BY <1>1, <1>6, <1>9 DEF Tiles, r

(* One piece that is not empty.                                            *)
LEMMA OneTile ==
  ASSUME NEW a \in Nat, NEW b \in Nat, a < b
  PROVE  Tiles(<<Chunk(a, b)>>, a, b)
<1> DEFINE c == [i \in 0 .. 1 |-> IF i = 0 THEN a ELSE b]
           q == <<Chunk(a, b)>>
<1>1. Len(q) = 1 /\ q[1] = Chunk(a, b)
  OBVIOUS
<1>2. c \in [0 .. 1 -> Nat] /\ c[0] = a /\ c[1] = b
  OBVIOUS
<1> HIDE DEF c, q
<1>3. \A i \in 1 .. 1 : c[i - 1] < c[i] /\ q[i] = Chunk(c[i - 1], c[i])
  BY <1>1, <1>2
<1>4. Cuts(c, q, a, b)
  BY <1>1, <1>2, <1>3 DEF Cuts
<1>5. Tiles(q, a, b)
  BY <1>1, <1>2, <1>4 DEF Tiles
<1> QED
  BY <1>5 DEF q

(* Pieces that follow one another may be cut anywhere between two.         *)
LEMMA TilesSplit ==
  ASSUME NEW T, NEW p \in Seq(T), NEW q \in Seq(T), NEW a, NEW d, Tiles(p \o q, a, d)
  PROVE  \E b \in Nat : Tiles(p, a, b) /\ Tiles(q, b, d)
<1> DEFINE N == Len(p)
           M == Len(q)
           r == p \o q
<1>1. /\ N \in Nat /\ M \in Nat /\ Len(r) = N + M
      /\ \A i \in 1 .. N : r[i] = p[i]
      /\ \A i \in 1 .. M : r[N + i] = q[i]
  BY ConcatProperties, LenProperties
<1>2. PICK c \in [0 .. N + M -> Nat] : Cuts(c, r, a, d)
  BY <1>1 DEF Tiles
<1>3. /\ c[0] = a /\ c[N + M] = d
      /\ \A i \in 1 .. N + M : c[i - 1] < c[i] /\ r[i] = Chunk(c[i - 1], c[i])
  BY <1>1, <1>2 DEF Cuts
<1> HIDE DEF N, M, r
<1> DEFINE e == [i \in 0 .. N |-> c[i]]
           f == [i \in 0 .. M |-> c[N + i]]
<1>4. e \in [0 .. N -> Nat] /\ f \in [0 .. M -> Nat] /\ c[N] \in Nat
  BY <1>1
<1>5. Cuts(e, p, a, c[N])
  <2>1. e[0] = a /\ e[N] = c[N]
    BY <1>1, <1>3
  <2>2. \A i \in 1 .. N : e[i - 1] < e[i] /\ p[i] = Chunk(e[i - 1], e[i])
    BY <1>1, <1>3
  <2> QED
    BY <2>1, <2>2 DEF Cuts, N
<1>6. Cuts(f, q, c[N], d)
  <2>1. f[0] = c[N] /\ f[M] = d
    BY <1>1, <1>3
  <2>2. ASSUME NEW i \in 1 .. M PROVE f[i - 1] < f[i] /\ q[i] = Chunk(f[i - 1], f[i])
    <3>1. N + i \in 1 .. N + M /\ (N + i) - 1 = N + (i - 1)
      BY <1>1
    <3>2. f[i] = c[N + i] /\ f[i - 1] = c[(N + i) - 1]
      BY <1>1, <3>1
    <3> QED
      BY <1>1, <1>3, <3>1, <3>2
  <2> QED
    BY <2>1, <2>2 DEF Cuts, M
<1> QED
  BY <1>4, <1>5, <1>6 DEF Tiles, N, M

(* A sequence that is not empty is its head and its tail.                  *)
LEMMA HeadThenTail ==
  ASSUME NEW T, NEW q \in Seq(T), q # <<>>
  PROVE  /\ Head(q) \in T /\ Tail(q) \in Seq(T)
         /\ q = <<Head(q)>> \o Tail(q)
         /\ ToSet(q) = {Head(q)} \cup ToSet(Tail(q))
<1>1. /\ Head(q) \in T /\ Tail(q) \in Seq(T) /\ Len(Tail(q)) = Len(q) - 1
      /\ \A i \in 1 .. Len(Tail(q)) : Tail(q)[i] = q[i + 1]
  BY HeadTailProperties
<1>2. Head(q) = q[1] /\ Len(q) \in Nat \ {0} /\ <<Head(q)>> \in Seq(T) /\ Len(<<Head(q)>>) = 1
  BY <1>1, EmptySeq
<1> DEFINE r == <<Head(q)>> \o Tail(q)
<1>3. r \in Seq(T) /\ Len(r) = Len(q)
  BY <1>1, <1>2, ConcatProperties
<1>4. ASSUME NEW i \in 1 .. Len(q) PROVE r[i] = q[i]
  <2>1. \A j \in 1 .. Len(<<Head(q)>>) + Len(Tail(q)) :
          r[j] = IF j <= Len(<<Head(q)>>) THEN <<Head(q)>>[j] ELSE Tail(q)[j - Len(<<Head(q)>>)]
    BY <1>1, <1>2, ConcatProperties
  <2>2. r[i] = IF i <= 1 THEN Head(q) ELSE Tail(q)[i - 1]
    BY <1>1, <1>2, <2>1
  <2>3. CASE i = 1
    BY <1>2, <2>2, <2>3
  <2>4. CASE i # 1
    <3>1. i - 1 \in 1 .. Len(Tail(q)) /\ (i - 1) + 1 = i
      BY <1>1, <1>2, <2>4
    <3>2. Tail(q)[i - 1] = q[i]
      BY <1>1, <3>1
    <3>3. ~(i <= 1)
      BY <1>2, <2>4
    <3> QED
      BY <2>2, <3>2, <3>3, Zenon
  <2> QED
    BY <2>3, <2>4
<1>5. q = r
  BY <1>2, <1>3, <1>4, SeqEqual
<1>6. ToSet(<<Head(q)>>) = {Head(q)}
  <2>1. DOMAIN <<Head(q)>> = {1}
    BY <1>2
  <2> QED
    BY <2>1 DEF ToSet
<1>7. ToSet(r) = ToSet(<<Head(q)>>) \cup ToSet(Tail(q))
  <2>1. \A x, y \in Seq(T) : ToSet(x \o y) = ToSet(x) \cup ToSet(y)
    BY ToSetConcat
  <2> QED
    BY <1>1, <1>2, <2>1, Zenon
<1> QED
  BY <1>1, <1>5, <1>6, <1>7

(* The first of some pieces, and the pieces after it.                      *)
LEMMA TilesHead ==
  ASSUME NEW T, NEW q \in Seq(T), NEW a, NEW b, Tiles(q, a, b), q # <<>>
  PROVE  \E x \in Nat :
           a \in Nat /\ a < x /\ x <= b /\ Head(q) = Chunk(a, x) /\ Tiles(Tail(q), x, b)
<1>1. /\ Head(q) \in T /\ Tail(q) \in Seq(T) /\ q = <<Head(q)>> \o Tail(q)
      /\ <<Head(q)>> \in Seq(T)
  BY HeadThenTail
<1>2. PICK x \in Nat : Tiles(<<Head(q)>>, a, x) /\ Tiles(Tail(q), x, b)
  BY <1>1, TilesSplit
<1>3. a \in Nat /\ a <= x /\ (a = x <=> <<Head(q)>> = <<>>) /\ x <= b
  BY <1>1, <1>2, TilesNumbers
<1>4. PICK c \in [0 .. Len(<<Head(q)>>) -> Nat] : Cuts(c, <<Head(q)>>, a, x)
  BY <1>2 DEF Tiles
<1>5. Len(<<Head(q)>>) = 1 /\ 1 \in 1 .. 1 /\ <<Head(q)>>[1] = Head(q) /\ 1 - 1 = 0
  OBVIOUS
<1>6. c[0] = a /\ c[1] = x /\ c[0] < c[1] /\ Head(q) = Chunk(c[0], c[1])
  BY <1>4, <1>5 DEF Cuts
<1> QED
  BY <1>2, <1>3, <1>6

(* One more piece is put at the end.                                       *)
LEMMA TilesAppend ==
  ASSUME NEW T, NEW q \in Seq(T), NEW a, NEW b, NEW x \in Nat, Tiles(q, a, b), b < x,
         Chunk(b, x) \in T
  PROVE  Tiles(Append(q, Chunk(b, x)), a, x)
<1>1. b \in Nat
  BY TilesNumbers
<1>2. Tiles(<<Chunk(b, x)>>, b, x)
  BY <1>1, OneTile
<1>3. Append(q, Chunk(b, x)) = q \o <<Chunk(b, x)>> /\ <<Chunk(b, x)>> \in Seq(T)
  BY AppendIsConcat
<1> QED
  BY <1>2, <1>3, TilesConcat

(* Two ways to cut a sequence, and what is between the cuts.               *)
SameJoin(x, y, z, w)   == x \o y = z \o w
Between(x, y, z, w, v) == z = x \o v /\ y = v \o w

(* The longer of two first halves begins with the shorter one.             *)
LEMMA TwoCuts ==
  ASSUME NEW T, NEW x \in Seq(T), NEW y \in Seq(T), NEW z \in Seq(T), NEW w \in Seq(T),
         SameJoin(x, y, z, w), Len(x) <= Len(z)
  PROVE  \E v \in Seq(T) : Between(x, y, z, w, v)
<1> DEFINE v == SubSeq(z, Len(x) + 1, Len(z))
           u == SubSeq(z, 1, Len(x))
<1>1. Len(x) \in Nat /\ Len(y) \in Nat /\ Len(z) \in Nat /\ Len(w) \in Nat
  BY LenProperties
<1>2. /\ v \in Seq(T) /\ Len(v) = Len(z) - Len(x)
      /\ \A i \in 1 .. Len(z) - Len(x) : v[i] = z[Len(x) + i]
  <2>1. /\ v \in Seq(T)
        /\ Len(v) = IF Len(x) + 1 <= Len(z) THEN Len(z) - (Len(x) + 1) + 1 ELSE 0
        /\ \A i \in 1 .. Len(z) - (Len(x) + 1) + 1 : v[i] = z[(Len(x) + 1) + i - 1]
    <3>1. Len(x) + 1 \in 1 .. Len(z) + 1 /\ Len(z) \in Len(x) .. Len(z)
      BY <1>1
    <3> QED
      BY <1>1, <3>1, SubSeqProperties
  <2>2. Len(v) = Len(z) - Len(x)
    BY <1>1, <2>1
  <2>3. ASSUME NEW i \in 1 .. Len(z) - Len(x) PROVE v[i] = z[Len(x) + i]
    <3>1. i \in 1 .. Len(z) - (Len(x) + 1) + 1 /\ (Len(x) + 1) + i - 1 = Len(x) + i
      BY <1>1
    <3> QED
      BY <2>1, <3>1
  <2> QED
    BY <2>1, <2>2, <2>3
<1> HIDE DEF v
<1> DEFINE s == x \o y
<1>3. /\ s \in Seq(T) /\ Len(s) = Len(x) + Len(y)
      /\ \A i \in 1 .. Len(x) + Len(y) : s[i] = IF i <= Len(x) THEN x[i] ELSE y[i - Len(x)]
  BY ConcatProperties
<1>4. /\ Len(s) = Len(z) + Len(w)
      /\ \A i \in 1 .. Len(z) + Len(w) : s[i] = IF i <= Len(z) THEN z[i] ELSE w[i - Len(z)]
  BY ConcatProperties DEF SameJoin
<1> HIDE DEF s
<1>5. z = x \o v
  <2>1. x \o v \in Seq(T) /\ Len(x \o v) = Len(z)
    BY <1>1, <1>2, ConcatProperties
  <2>2. ASSUME NEW i \in 1 .. Len(z) PROVE (x \o v)[i] = z[i]
    <3>1. (x \o v)[i] = IF i <= Len(x) THEN x[i] ELSE v[i - Len(x)]
      <4>1. i \in 1 .. Len(x) + Len(v)
        BY <1>1, <1>2
      <4> QED
        BY <1>2, <4>1, ConcatProperties
    <3>2. i \in 1 .. Len(x) + Len(y) /\ i \in 1 .. Len(z) + Len(w)
      BY <1>1, <1>3, <1>4
    <3>3. CASE i <= Len(x)
      BY <1>3, <1>4, <3>1, <3>2, <3>3
    <3>4. CASE ~(i <= Len(x))
      <4>1. i - Len(x) \in 1 .. Len(z) - Len(x) /\ Len(x) + (i - Len(x)) = i
        BY <1>1, <3>4
      <4>2. v[i - Len(x)] = z[i]
        BY <1>2, <4>1
      <4> QED
        BY <3>1, <3>4, <4>2, Zenon
    <3> QED
      BY <3>3, <3>4
  <2> QED
    BY <2>1, <2>2, SeqEqual
<1>6. y = v \o w
  <2>1. v \o w \in Seq(T) /\ Len(v \o w) = Len(y)
    BY <1>1, <1>2, <1>3, <1>4, ConcatProperties
  <2>2. ASSUME NEW i \in 1 .. Len(y) PROVE (v \o w)[i] = y[i]
    <3> DEFINE j == Len(x) + i
    <3>1. /\ j \in 1 .. Len(x) + Len(y) /\ j \in 1 .. Len(z) + Len(w)
          /\ ~(j <= Len(x)) /\ j - Len(x) = i
      BY <1>1, <1>3, <1>4
    <3>2. s[j] = y[i]
      BY <1>3, <3>1
    <3>3. (v \o w)[i] = IF i <= Len(v) THEN v[i] ELSE w[i - Len(v)]
      <4>1. i \in 1 .. Len(v) + Len(w)
        BY <1>1, <1>2, <1>3, <1>4
      <4> QED
        BY <1>2, <4>1, ConcatProperties
    <3>4. CASE i <= Len(v)
      <4>1. i \in 1 .. Len(z) - Len(x) /\ j <= Len(z)
        BY <1>1, <1>2, <3>4
      <4>2. v[i] = z[j] /\ s[j] = z[j]
        BY <1>2, <1>4, <3>1, <4>1
      <4> QED
        BY <3>2, <3>3, <3>4, <4>2, Zenon
    <3>5. CASE ~(i <= Len(v))
      <4>1. ~(j <= Len(z)) /\ j - Len(z) = i - Len(v)
        BY <1>1, <1>2, <3>5
      <4>2. s[j] = w[i - Len(v)]
        BY <1>4, <3>1, <4>1
      <4> QED
        BY <3>2, <3>3, <3>5, <4>2, Zenon
    <3> QED
      BY <3>4, <3>5
  <2> QED
    BY <2>1, <2>2, SeqEqual
<1> QED
  BY <1>2, <1>5, <1>6 DEF Between

-----------------------------------------------------------------------------
(***************************************************************************)
(* FlattenSeq, of SequencesExt: the recursive function exists, so what it  *)
(* returns is a sequence, and pieces that tile a log give that log.        *)
(***************************************************************************)
FlattenSteps(f, q, m) ==
  /\ f[1] = q[1]
  /\ \A n \in 1 .. m : n > 1 => f[n] = f[n - 1] \o q[n]

(* The recursive function behind FlattenSeq.                               *)
LEMMA FlattenFunction ==
  ASSUME NEW T, NEW q \in Seq(Seq(T)), q # <<>>
  PROVE  \E f \in [1 .. Len(q) -> Seq(T)] :
           FlattenSteps(f, q, Len(q)) /\ FlattenSeq(q) = f[Len(q)]
<1>1. /\ Len(q) \in Nat /\ Len(q) > 0 /\ \A n \in 1 .. Len(q) : q[n] \in Seq(T)
  BY EmptySeq, ElementOfSeq
<1> DEFINE N == Len(q)
           P == {m \in Nat : m + 1 <= N =>
                   \E f \in [1 .. m + 1 -> Seq(T)] : FlattenSteps(f, q, m + 1)}
<1>2. 0 \in P /\ P \in SUBSET Nat
  <2>1. [n \in 1 .. 1 |-> q[1]] \in [1 .. 1 -> Seq(T)]
    BY <1>1
  <2>2. FlattenSteps([n \in 1 .. 1 |-> q[1]], q, 1)
    BY DEF FlattenSteps
  <2>3. 0 + 1 = 1
    OBVIOUS
  <2> QED
    BY <2>1, <2>2, <2>3
<1>3. ASSUME NEW m \in P PROVE m + 1 \in P
  <2> SUFFICES ASSUME (m + 1) + 1 <= N
               PROVE  \E f \in [1 .. (m + 1) + 1 -> Seq(T)] : FlattenSteps(f, q, (m + 1) + 1)
    OBVIOUS
  <2>1. PICK g \in [1 .. m + 1 -> Seq(T)] : FlattenSteps(g, q, m + 1)
    BY <1>1
  <2> DEFINE k == m + 1
             f == [n \in 1 .. k + 1 |-> IF n = k + 1 THEN g[k] \o q[k + 1] ELSE g[n]]
  <2>2. k \in Nat /\ k >= 1 /\ k + 1 \in 1 .. N
    BY <1>1
  <2> HIDE DEF k, N
  <2>3. f \in [1 .. k + 1 -> Seq(T)]
    <3>1. g[k] \in Seq(T) /\ q[k + 1] \in Seq(T)
      BY <1>1, <2>1, <2>2 DEF k, N
    <3>2. g[k] \o q[k + 1] \in Seq(T)
      BY <3>1, ConcatProperties
    <3>3. \A n \in 1 .. k + 1 : n # k + 1 => g[n] \in Seq(T)
      BY <2>1, <2>2 DEF k
    <3> QED
      BY <3>2, <3>3
  <2>4. FlattenSteps(f, q, k + 1)
    <3>1. f[1] = q[1]
      BY <2>1, <2>2 DEF FlattenSteps, k
    <3>2. ASSUME NEW n \in 1 .. k + 1, n > 1
          PROVE  f[n] = f[n - 1] \o q[n]
      <4>1. CASE n = k + 1
        <5>1. k \in 1 .. k + 1 /\ k + 1 \in 1 .. k + 1 /\ k # k + 1 /\ n - 1 = k
          BY <2>2, <4>1
        <5>2. f[k + 1] = g[k] \o q[k + 1]
          BY <5>1
        <5>3. f[k] = g[k]
          BY <5>1
        <5> HIDE DEF f
        <5> QED
          BY <4>1, <5>1, <5>2, <5>3
      <4>2. CASE n # k + 1
        <5>1. n \in 1 .. k /\ f[n] = g[n] /\ f[n - 1] = g[n - 1]
          BY <2>2, <3>2, <4>2
        <5>2. g[n] = g[n - 1] \o q[n]
          BY <2>1, <3>2, <5>1 DEF FlattenSteps, k
        <5> QED
          BY <5>1, <5>2
      <4> QED
        BY <4>1, <4>2
    <3> QED
      BY <3>1, <3>2 DEF FlattenSteps
  <2> QED
    BY <2>3, <2>4 DEF k
<1> HIDE DEF P
<1>4. P = Nat
  BY <1>2, <1>3, NumberInduction
<1>5. PICK f \in [1 .. N -> Seq(T)] : FlattenSteps(f, q, N)
  <2>1. N - 1 \in Nat /\ (N - 1) + 1 = N /\ N <= N
    BY <1>1
  <2> QED
    BY <1>4, <2>1 DEF P
<1> DEFINE Eq(g) == g = [i \in 1 .. Len(q) |-> IF i = 1 THEN q[i] ELSE g[i - 1] \o q[i]]
<1>6. Eq(f)
  <2>1. ASSUME NEW i \in 1 .. N PROVE f[i] = IF i = 1 THEN q[i] ELSE f[i - 1] \o q[i]
    <3>1. i = 1 \/ i > 1
      BY <1>1
    <3> QED
      BY <1>5, <3>1 DEF FlattenSteps
  <2> QED
    BY <2>1
<1> DEFINE k == CHOOSE g : Eq(g)
<1>7. Eq(k)
  BY <1>6
<1>8. FlattenSeq(q) = k[N]
  BY <1>1 DEF FlattenSeq
<1> HIDE DEF k
<1>9. \A i \in 1 .. N : k[i] = IF i = 1 THEN q[i] ELSE k[i - 1] \o q[i]
  BY <1>7
<1>10. FlattenSteps(k, q, N)
  <2>1. 1 \in 1 .. N
    BY <1>1
  <2>2. k[1] = q[1]
    BY <1>9, <2>1
  <2>3. ASSUME NEW n \in 1 .. N, n > 1 PROVE k[n] = k[n - 1] \o q[n]
    <3>1. n # 1
      BY <1>1, <2>3
    <3> QED
      BY <1>9, <3>1, Zenon
  <2> QED
    BY <2>2, <2>3 DEF FlattenSteps
<1>11. k \in [1 .. N -> Seq(T)]
  <2> DEFINE Q == {m \in Nat : m + 1 <= N => k[m + 1] = f[m + 1]}
  <2>1. 0 \in Q /\ Q \in SUBSET Nat
    BY <1>1, <1>5, <1>10 DEF FlattenSteps
  <2>2. ASSUME NEW m \in Q PROVE m + 1 \in Q
    <3> DEFINE n == (m + 1) + 1
    <3>1. n <= N => n \in 1 .. N /\ n > 1 /\ n - 1 = m + 1 /\ k[m + 1] = f[m + 1]
      BY <1>1
    <3> HIDE DEF n
    <3>2. n <= N => k[n] = f[n]
      BY <1>5, <1>10, <3>1 DEF FlattenSteps
    <3> QED
      BY <3>2 DEF n
  <2> HIDE DEF Q
  <2>3. Q = Nat
    BY <2>1, <2>2, NumberInduction
  <2>4. ASSUME NEW m \in 1 .. N PROVE k[m] = f[m]
    <3>1. m - 1 \in Nat /\ (m - 1) + 1 = m /\ m <= N
      BY <1>1
    <3>2. m - 1 \in Q
      BY <2>3, <3>1
    <3> QED
      BY <3>1, <3>2 DEF Q
  <2>5. k = [i \in 1 .. N |-> k[i]]
    BY <1>7
  <2> QED
    BY <2>4, <2>5
<1> QED
  BY <1>8, <1>10, <1>11

(* Flattened sequences are a sequence over the same set.                   *)
LEMMA FlattenType ==
  ASSUME NEW T, NEW q \in Seq(Seq(T))
  PROVE  FlattenSeq(q) \in Seq(T)
<1>1. CASE q = <<>>
  BY <1>1, EmptySeq DEF FlattenSeq
<1>2. CASE q # <<>>
  <2>1. PICK f \in [1 .. Len(q) -> Seq(T)] : FlattenSeq(q) = f[Len(q)]
    BY <1>2, FlattenFunction
  <2>2. Len(q) \in 1 .. Len(q)
    BY <1>2, EmptySeq
  <2> QED
    BY <2>1, <2>2
<1> QED
  BY <1>1, <1>2

(* Pieces that follow one another make one piece when flattened.           *)
LEMMA FlattenTiles ==
  ASSUME NEW T, NEW q \in Seq(Seq(T)), NEW a, NEW b, Tiles(q, a, b)
  PROVE  FlattenSeq(q) = Chunk(a, b)
<1>1. a \in Nat /\ b \in Nat /\ a <= b /\ (a = b <=> q = <<>>)
  BY TilesNumbers
<1>2. CASE q = <<>>
  <2>1. FlattenSeq(q) = <<>>
    BY <1>2 DEF FlattenSeq
  <2> QED
    BY <1>1, <1>2, <2>1, ChunkType
<1>3. CASE q # <<>>
  <2> DEFINE N == Len(q)
  <2>1. N \in Nat /\ N > 0
    BY <1>3, EmptySeq
  <2>2. PICK f \in [1 .. N -> Seq(T)] : FlattenSteps(f, q, N) /\ FlattenSeq(q) = f[N]
    BY <1>3, FlattenFunction
  <2>3. PICK c \in [0 .. N -> Nat] : Cuts(c, q, a, b)
    BY DEF Tiles
  <2>4. c[0] = a /\ c[N] = b /\ \A i \in 1 .. N : c[i - 1] < c[i] /\ q[i] = Chunk(c[i - 1], c[i])
    BY <2>3 DEF Cuts
  <2> HIDE DEF N
  <2> DEFINE P == {m \in Nat : m + 1 <= N => a <= c[m + 1] /\ f[m + 1] = Chunk(a, c[m + 1])}
  <2>5. 0 \in P /\ P \in SUBSET Nat
    <3>1. 0 + 1 = 1 /\ 1 \in 1 .. N /\ 1 - 1 = 0 /\ 1 \in 0 .. N
      BY <2>1
    <3>2. c[0] < c[1] /\ q[1] = Chunk(c[0], c[1]) /\ f[1] = q[1] /\ c[1] \in Nat
      BY <2>2, <2>4, <3>1 DEF FlattenSteps
    <3>3. a <= c[1] /\ f[1] = Chunk(a, c[1])
      BY <1>1, <2>4, <3>2
    <3> QED
      BY <3>1, <3>3
  <2>6. ASSUME NEW m \in P PROVE m + 1 \in P
    <3> DEFINE k == m + 1
    <3> SUFFICES ASSUME k + 1 <= N
                 PROVE  a <= c[k + 1] /\ f[k + 1] = Chunk(a, c[k + 1])
      OBVIOUS
    <3>1. /\ k \in 1 .. N /\ k + 1 \in 1 .. N /\ (k + 1) - 1 = k /\ k + 1 > 1
          /\ k \in 0 .. N /\ k + 1 \in 0 .. N
      BY <2>1
    <3>2. a <= c[k] /\ f[k] = Chunk(a, c[k])
      BY <2>1
    <3> HIDE DEF k
    <3>3. c[k] < c[k + 1] /\ q[k + 1] = Chunk(c[k], c[k + 1]) /\ c[k] \in Nat /\ c[k + 1] \in Nat
      BY <2>4, <3>1
    <3>4. f[k + 1] = f[k] \o q[k + 1]
      BY <2>2, <3>1 DEF FlattenSteps
    <3>5. a <= c[k + 1] /\ c[k] <= c[k + 1]
      BY <1>1, <3>2, <3>3
    <3>6. Chunk(a, c[k]) \o Chunk(c[k], c[k + 1]) = Chunk(a, c[k + 1])
      BY <1>1, <3>2, <3>3, <3>5, ChunkConcat
    <3> QED
      BY <3>2, <3>3, <3>4, <3>5, <3>6
  <2> HIDE DEF P
  <2>7. P = Nat
    BY <2>5, <2>6, NumberInduction
  <2>8. N - 1 \in P /\ (N - 1) + 1 = N /\ N <= N
    BY <2>1, <2>7
  <2>9. f[N] = Chunk(a, c[N])
    BY <2>8 DEF P
  <2> QED
    BY <2>2, <2>4, <2>9
<1> QED
  BY <1>2, <1>3

-----------------------------------------------------------------------------
(***************************************************************************)
(* Types, and what the step of the worker says about the deletion.         *)
(***************************************************************************)
Events  == 1 .. MaxEvents
Segment == Seq(Events) \ {<<>>}

Importing == {"importFiles", "importIndex", "importDone"}
Copying   == {"open", "copy", "rename", "record"}
Steps     == {"idle", "import", "importRead", "importMark", "clean", "cleanRemote",
              "cleanDone", "run", "seal", "unlink", "dequeue"} \cup Importing \cup Copying

Versions   == [Names -> Nat]
PartType   == [object : Objects, segment : 0 .. MaxEvents, data : Segment]
IndexType  == [saved : BOOLEAN, logs : Seq(PartType), files : Versions]
RemoteType == [place : {"none", "incoming", "published"}, objects : [Objects -> Seq(Events)],
               artifacts : SUBSET Nat, experiment : Nat, index : IndexType]
WorkerType == [pc : Steps, logs : Seq(PartType), files : Versions, pinned : Versions,
               segments : Seq(Segment), todo : SUBSET Names, copied : SUBSET Evicted,
               copiedLogs : SUBSET Segment, fresh : BOOLEAN, experiment : Nat]
ReadPart   == [local : BOOLEAN, object : Objects, data : Segment]
ReaderType == [pc : {"idle", "captured", "pinned", "open"}, lease : BOOLEAN,
               parts : Seq(ReadPart), artifact : Nat, remote : BOOLEAN,
               log : Seq(Events), expected : Nat, latest : Nat, indexed : BOOLEAN]

TypeOK ==
  /\ dir \in BOOLEAN /\ importing \in BOOLEAN /\ deleted \in BOOLEAN /\ cleaned \in BOOLEAN
  /\ tail \in Seq(Events) /\ sealed \in Seq(Segment)
  /\ files \in Versions /\ index \in IndexType
  /\ remote \in RemoteType
  /\ active \in BOOLEAN /\ queued \in BOOLEAN /\ touched \in BOOLEAN
  /\ loaded \in BOOLEAN /\ scanned \in BOOLEAN
  /\ worker \in WorkerType
  /\ reader \in [Readers -> ReaderType]
  /\ written \in 0 .. MaxEvents /\ version \in Versions /\ crashes \in Nat

(* Where the worker is, the run it imports is in the store and has no index *)
(* on the disk, the one it seals exists, and one it cleans up is deleted.   *)
(* A run is not deleted while it is active or while the worker holds the    *)
(* lock.                                                                    *)
ControlInv ==
  /\ worker.pc \in {"importRead", "importMark"} \cup Importing =>
       remote.place = "published" /\ ~Indexed
  /\ worker.pc \in Importing => importing /\ dir /\ ~deleted
  /\ worker.pc = "unlink" => dir /\ ~deleted
  /\ worker.pc \in Copying \cup {"unlink"} /\ ~deleted => ~importing /\ files["experiment.json"] > 0
  /\ worker.pc \in {"cleanRemote", "cleanDone"} => deleted
  /\ worker.pc = "cleanDone" => remote = NoRemote
  /\ active => ~deleted /\ files["experiment.json"] > 0
  /\ cleaned => deleted /\ remote = NoRemote /\ worker.pc \notin {"open", "copy", "rename"}

BaseInv == TypeOK /\ ControlInv

USE DEF Names, Retained, Evicted, Objects

(* The empty values have their types.                                      *)
LEMMA NullTypes ==
  /\ None \in Versions /\ NoIndex \in IndexType /\ NoRemote \in RemoteType
  /\ IdleWorker \in WorkerType /\ IdleReader \in ReaderType
<1>1. None \in Versions
  BY DEF None, Versions
<1>2. NoIndex \in IndexType
  BY <1>1 DEF NoIndex, IndexType
<1>3. NoRemote \in RemoteType
  BY <1>2 DEF NoRemote, RemoteType
<1>4. IdleWorker \in WorkerType
  BY <1>1 DEF IdleWorker, WorkerType, Steps
<1>5. IdleReader \in ReaderType
  BY DEF IdleReader, ReaderType
<1> QED
  BY <1>1, <1>2, <1>3, <1>4, <1>5

(* The log of a legacy archive is a log of parts.                          *)
LEMMA LegacyType ==
  ASSUME NEW r \in RemoteType PROVE LegacyLogs(r) \in Seq(PartType)
<1>1. r.objects[0] \in Seq(Events)
  BY ArchiveBounds DEF RemoteType
<1>2. r.objects[0] # <<>> => Part(0, 0, r.objects[0]) \in PartType
  BY <1>1, ArchiveBounds DEF Part, PartType, Segment
<1> QED
  BY <1>2 DEF LegacyLogs

(* The base invariant at the start.                                        *)
LEMMA InitBase == Init => BaseInv
<1> SUFFICES ASSUME Init PROVE BaseInv
  OBVIOUS
<1>1. PICK origin \in Origins :
        LET here == origin = "local"
        IN /\ dir = here
           /\ files = IF here THEN [None EXCEPT !["experiment.json"] = 1] ELSE None
           /\ active = here /\ queued = here
           /\ written = IF here THEN 0 ELSE 1
           /\ version = [None EXCEPT !["experiment.json"] = 1]
           /\ remote = InitialRemote(origin)
  BY DEF Init
<1>2. /\ tail = <<>> /\ sealed = <<>> /\ index = NoIndex
      /\ importing = FALSE /\ deleted = FALSE /\ cleaned = FALSE
      /\ touched = FALSE /\ loaded = FALSE /\ scanned = FALSE
      /\ worker = IdleWorker /\ reader = [r \in Readers |-> IdleReader] /\ crashes = 0
  BY DEF Init
<1>3. remote \in RemoteType
  <2>1. << 1 >> \in Seq(Events) /\ << 1 >> # <<>>
    BY ArchiveBounds DEF Events
  <2>2. Part(0, 1, << 1 >>) \in PartType
    BY <2>1, ArchiveBounds DEF Part, PartType, Segment
  <2>3. [saved |-> TRUE, logs |-> <<Part(0, 1, << 1 >>)>>,
         files |-> [None EXCEPT !["experiment.json"] = 1]] \in IndexType
    BY <2>2, NullTypes DEF IndexType, Versions
  <2> QED
    BY <1>1, <2>1, <2>3, NullTypes DEF InitialRemote, RemoteType
<1>4. files \in Versions /\ version \in Versions
  BY <1>1, NullTypes DEF Versions
<1>5. written \in 0 .. MaxEvents
  BY <1>1, ArchiveBounds
<1>6. TypeOK
  <2>1. dir \in BOOLEAN /\ active \in BOOLEAN /\ queued \in BOOLEAN
    BY <1>1
  <2>2. tail \in Seq(Events) /\ sealed \in Seq(Segment)
    BY <1>2
  <2>3. worker \in WorkerType /\ index \in IndexType /\ reader \in [Readers -> ReaderType]
    BY <1>2, NullTypes
  <2> QED
    BY <1>2, <1>3, <1>4, <1>5, <2>1, <2>2, <2>3 DEF TypeOK
<1>7. ControlInv
  <2>1. worker.pc = "idle"
    BY <1>2 DEF IdleWorker
  <2>2. active => files["experiment.json"] > 0
    <3> SUFFICES ASSUME active PROVE files["experiment.json"] > 0
      OBVIOUS
    <3>1. files = [None EXCEPT !["experiment.json"] = 1]
      BY <1>1
    <3>2. files["experiment.json"] = 1
      BY <3>1, NullTypes DEF Versions
    <3> QED
      BY <3>2
  <2> QED
    BY <1>2, <2>1, <2>2 DEF ControlInv, Importing, Copying
<1> QED
  BY <1>6, <1>7 DEF BaseInv

(* The steps of the worker that only move it: its other variables stay.    *)
LEMMA GoType ==
  ASSUME NEW w \in WorkerType, NEW step \in Steps
  PROVE  /\ [w EXCEPT !.pc = step] \in WorkerType
         /\ [w EXCEPT !.pc = step].pc = step
         /\ \A f \in {"logs", "files", "pinned", "segments", "todo", "copied", "copiedLogs",
                      "fresh", "experiment"} : [w EXCEPT !.pc = step][f] = w[f]
  BY DEF WorkerType

(* Telemetry, persistExperiment and saveAnalysisJob keep the types and the *)
(* step of the worker.                                                     *)
LEMMA WritersBase ==
  BaseInv /\ (persistEvents \/ persistExperiment \/ saveAnalysisJob) => BaseInv'
<1> SUFFICES ASSUME BaseInv PROVE persistEvents \/ persistExperiment \/ saveAnalysisJob => BaseInv'
  OBVIOUS
<1> USE DEF BaseInv
<1>1. CASE persistEvents
  <2>1. tail' \in Seq(Events) /\ written' \in 0 .. MaxEvents
    <3>1. written + 1 \in Events /\ tail \in Seq(Events) /\ tail' = Append(tail, written + 1)
      BY <1>1, ArchiveBounds DEF persistEvents, TypeOK, Events
    <3>2. written' = written + 1
      BY <1>1 DEF persistEvents
    <3> QED
      BY <3>1, <3>2, AppendProperties DEF Events
  <2>2. TypeOK'
    BY <1>1, <2>1 DEF persistEvents, markRunArchiveDirty, TypeOK
  <2>3. ControlInv'
    BY <1>1 DEF persistEvents, ControlInv, Locked, Importing, Indexed
  <2> QED
    BY <2>2, <2>3
<1>2. ASSUME NEW f \in Names, saveFile(f), ~Locked, active' \in BOOLEAN, active' => active
      PROVE  BaseInv'
  <2>1. /\ version' \in Versions /\ files' \in Versions
        /\ files["experiment.json"] > 0 => files'["experiment.json"] > 0
    BY <1>2 DEF saveFile, TypeOK, Versions
  <2>2. TypeOK'
    BY <1>2, <2>1 DEF saveFile, markRunArchiveDirty, TypeOK
  <2>3. ControlInv'
    BY <1>2, <2>1 DEF saveFile, ControlInv, Locked, Importing, Copying, Indexed
  <2> QED
    BY <2>2, <2>3
<1>3. CASE persistExperiment
  BY <1>2, <1>3 DEF persistExperiment
<1>4. CASE saveAnalysisJob
  BY <1>2, <1>4 DEF saveAnalysisJob, TypeOK
<1> QED
  BY <1>1, <1>3, <1>4

(* So do the start of a cycle and the import of an archived run.           *)
LEMMA ImportBase == BaseInv /\ (StartCycle \/ Import) => BaseInv'
<1> SUFFICES ASSUME BaseInv PROVE StartCycle \/ Import => BaseInv'
  OBVIOUS
<1> USE DEF BaseInv
<1>1. ASSUME NEW step \in Steps, Go(step)
      PROVE  worker' \in WorkerType /\ worker'.pc = step
  BY <1>1, GoType DEF Go, TypeOK
<1>2. CASE StartCycle
  <2>1. worker' \in WorkerType /\ worker'.pc \in {"import", "clean"}
    BY <1>1, <1>2 DEF StartCycle, Steps
  <2>2. TypeOK'
    BY <1>2, <2>1 DEF StartCycle, markRunArchiveDirty, disk, TypeOK
  <2>3. ControlInv'
    BY <1>2, <2>1 DEF StartCycle, ControlInv, disk, Importing, Copying, Indexed
  <2> QED
    BY <2>2, <2>3
<1>3. CASE importArchivedRuns
  <2>1. \/ worker' \in WorkerType /\ worker'.pc = "clean" /\ scanned' = TRUE
        \/ /\ worker' \in WorkerType /\ worker'.pc = "importRead" /\ scanned' = scanned
           /\ remote.place = "published" /\ ~Indexed
    BY <1>1, <1>3 DEF importArchivedRuns, Discovered, Steps
  <2>2. TypeOK'
    BY <1>3, <2>1 DEF importArchivedRuns, disk, TypeOK
  <2>3. ControlInv'
    BY <1>3, <2>1 DEF importArchivedRuns, ControlInv, disk, Importing, Copying, Indexed
  <2> QED
    BY <2>2, <2>3
<1>4. CASE readArchivedRun
  <2>1. worker' \in WorkerType /\ worker'.pc \in {"importMark", "clean"} /\ scanned' \in BOOLEAN
    <3>1. CASE Discovered
      BY <1>1, <3>1 DEF Discovered, Steps
    <3>2. CASE /\ worker' = [worker EXCEPT
                    !.pc = "importMark",
                    !.logs = IF remote.index.saved THEN remote.index.logs
                             ELSE LegacyLogs(remote),
                    !.files = remote.index.files,
                    !.experiment = remote.experiment,
                    !.fresh = ~remote.index.saved]
               /\ UNCHANGED scanned
      <4>1. /\ remote \in RemoteType /\ remote.index \in IndexType
            /\ LegacyLogs(remote) \in Seq(PartType)
            /\ remote.index.logs \in Seq(PartType) /\ remote.index.files \in Versions
            /\ remote.index.saved \in BOOLEAN /\ remote.experiment \in Nat
        BY LegacyType DEF TypeOK, RemoteType, IndexType
      <4>2. worker \in WorkerType /\ scanned \in BOOLEAN
        BY DEF TypeOK
      <4> QED
        BY <3>2, <4>1, <4>2 DEF WorkerType, Steps
    <3> QED
      BY <1>4, <3>1, <3>2 DEF readArchivedRun
  <2>2. worker.pc = "importRead" /\ UNCHANGED <<disk, remote, active, queued, touched, loaded,
                                                 reader, written, version, crashes>>
    BY <1>4 DEF readArchivedRun
  <2>3. TypeOK'
    BY <2>1, <2>2 DEF disk, TypeOK
  <2>4. ControlInv'
    BY <2>1, <2>2 DEF ControlInv, disk, Importing, Copying, Indexed
  <2> QED
    BY <2>3, <2>4
<1>5. CASE markImport
  <2>1. /\ worker' \in WorkerType /\ scanned' \in BOOLEAN /\ dir' \in BOOLEAN
        /\ \/ worker'.pc = "clean" /\ UNCHANGED <<dir, importing>>
           \/ /\ worker'.pc = "importFiles" /\ dir' = TRUE /\ importing' = TRUE
              /\ ~deleted
    BY <1>1, <1>5 DEF markImport, Discovered, ImportRefused, Steps, Importing, TypeOK
  <2>2. TypeOK'
    BY <1>5, <2>1 DEF markImport, TypeOK
  <2>3. ControlInv'
    BY <1>5, <2>1 DEF markImport, ControlInv, Importing, Copying, Indexed
  <2> QED
    BY <2>2, <2>3
<1>6. CASE importFiles
  <2>1. files' \in Versions /\ worker' \in WorkerType /\ worker'.pc = "importIndex"
    <3>1. worker \in WorkerType /\ files \in Versions /\ worker.experiment \in Nat
      BY DEF TypeOK, WorkerType
    <3> DEFINE kept == IF files["experiment.json"] > 0 THEN files["experiment.json"]
                       ELSE worker.experiment
    <3>2. kept \in Nat
      BY <3>1 DEF Versions
    <3> HIDE DEF kept
    <3>3. files' = [files EXCEPT !["experiment.json"] = kept]
      BY <1>6 DEF importFiles, kept
    <3>4. worker' = [worker EXCEPT
              !.pc = "importIndex",
              !.files["experiment.json"] = IF kept = worker.experiment THEN kept ELSE @]
      BY <1>6 DEF importFiles, kept
    <3>5. files' \in Versions
      BY <3>1, <3>2, <3>3 DEF Versions
    <3>6. worker.files \in Versions
      BY <3>1 DEF WorkerType
    <3>7. [worker.files EXCEPT !["experiment.json"]
             = IF kept = worker.experiment THEN kept ELSE @] \in Versions
      BY <3>2, <3>6 DEF Versions
    <3>8. worker' \in WorkerType /\ worker'.pc = "importIndex"
      BY <3>1, <3>4, <3>7 DEF WorkerType, Steps, Importing
    <3> QED
      BY <3>5, <3>8
  <2>2. /\ worker.pc = "importFiles"
        /\ UNCHANGED <<dir, tail, sealed, index, importing, deleted, cleaned, remote, memory,
                       reader, written, version, crashes>>
    BY <1>6 DEF importFiles
  <2>3. TypeOK'
    BY <2>1, <2>2 DEF memory, TypeOK
  <2>4. active => files'["experiment.json"] > 0
    <3>1. active => files["experiment.json"] > 0
      BY DEF ControlInv
    <3> QED
      BY <1>6, <3>1 DEF importFiles, TypeOK, Versions
  <2>5. ControlInv'
    BY <2>1, <2>2, <2>4 DEF ControlInv, memory, Importing, Copying, Indexed
  <2> QED
    BY <2>3, <2>5
<1>7. CASE importIndex
  <2>1. worker' \in WorkerType /\ worker'.pc = "importDone"
    BY <1>1, <1>7 DEF importIndex, Steps, Importing
  <2>2. index' \in IndexType
    BY <1>7 DEF importIndex, TypeOK, WorkerType, IndexType
  <2>3. TypeOK'
    BY <1>7, <2>1, <2>2 DEF importIndex, memory, TypeOK
  <2>4. ControlInv'
    BY <1>7, <2>1 DEF importIndex, ControlInv, memory, Importing, Copying, Indexed
  <2> QED
    BY <2>3, <2>4
<1>8. CASE importDone
  <2>1. worker' \in WorkerType /\ worker'.pc = "clean" /\ scanned' = TRUE
    BY <1>1, <1>8 DEF importDone, Discovered, Steps
  <2>2. TypeOK'
    BY <1>8, <2>1 DEF importDone, markRunArchiveDirty, TypeOK
  <2>3. ControlInv'
    BY <1>8, <2>1 DEF importDone, ControlInv, Importing, Copying
  <2> QED
    BY <2>2, <2>3
<1> QED
  BY <1>2, <1>3, <1>4, <1>5, <1>6, <1>7, <1>8 DEF Import

(* What sealLogs makes of the tail is a segment.                           *)
LEMMA SealedType == TypeOK => Sealed \in Seq(Segment)
<1> SUFFICES ASSUME TypeOK PROVE Sealed \in Seq(Segment)
  OBVIOUS
<1>1. tail # <<>> => tail \in Segment
  BY DEF TypeOK, Segment
<1> QED
  BY <1>1, AppendProperties DEF Sealed, TypeOK

(* Merging two lists of parts gives a list of parts.                       *)
LEMMA MergedType ==
  ASSUME NEW logs \in Seq(PartType), NEW published \in Seq(PartType)
  PROVE  Merged(logs, published) \in Seq(PartType)
<1> DEFINE S == {p \in ToSet(published) : ~\E q \in ToSet(logs) : q.object = p.object}
<1>1. Keep(published, S) \in Seq(PartType)
  BY KeepType
<1> HIDE DEF S
<1>2. logs \o Keep(published, S) \in Seq(PartType)
  BY <1>1, ConcatProperties
<1> QED
  BY <1>2 DEF Merged, S

(* Removing the archive of a deleted run.                                  *)
LEMMA CleanBase == BaseInv /\ Clean => BaseInv'
<1> SUFFICES ASSUME BaseInv, Clean PROVE BaseInv'
  OBVIOUS
<1> USE DEF BaseInv
<1>1. ASSUME NEW step \in Steps, Go(step)
      PROVE  worker' \in WorkerType /\ worker'.pc = step
  BY <1>1, GoType DEF Go, TypeOK
<1>2. CASE cleanDeletedArchives
  <2>1. /\ worker' \in WorkerType
        /\ worker'.pc = IF deleted /\ ~cleaned THEN "cleanRemote" ELSE "run"
    BY <1>1, <1>2 DEF cleanDeletedArchives, Steps
  <2>2. TypeOK'
    BY <1>2, <2>1 DEF cleanDeletedArchives, disk, memory, TypeOK
  <2>3. ControlInv'
    BY <1>2, <2>1 DEF cleanDeletedArchives, ControlInv, disk, memory, Importing, Copying
  <2> QED
    BY <2>2, <2>3
<1>3. CASE removeArchive
  <2>1. worker' \in WorkerType /\ worker'.pc = "cleanDone"
    BY <1>1, <1>3 DEF removeArchive, Steps
  <2>2. TypeOK'
    BY <1>3, <2>1, NullTypes DEF removeArchive, disk, memory, TypeOK
  <2>3. ControlInv'
    BY <1>3, <2>1 DEF removeArchive, ControlInv, disk, memory, Importing, Copying
  <2> QED
    BY <2>2, <2>3
<1>4. CASE noteRemoval
  <2>1. worker' \in WorkerType /\ worker'.pc = "run"
    BY <1>1, <1>4 DEF noteRemoval, Steps
  <2>2. TypeOK'
    BY <1>4, <2>1 DEF noteRemoval, memory, TypeOK
  <2>3. ControlInv'
    BY <1>4, <2>1 DEF noteRemoval, ControlInv, memory, Importing, Copying
  <2> QED
    BY <2>2, <2>3
<1> QED
  BY <1>2, <1>3, <1>4 DEF Clean

(* A step that leaves the disk, the store and the memory's marks alone.    *)
LEMMA WorkerStep ==
  ASSUME BaseInv, worker' \in WorkerType,
         worker'.pc \in {"idle", "seal", "dequeue"},
         UNCHANGED <<dir, files, index, importing, deleted, cleaned, remote, active, loaded,
                     scanned, reader, written, version, crashes>>,
         tail' \in Seq(Events), sealed' \in Seq(Segment), queued' \in BOOLEAN,
         touched' \in BOOLEAN
  PROVE  BaseInv'
<1>1. TypeOK'
  BY DEF BaseInv, TypeOK
<1>2. ControlInv'
  BY DEF BaseInv, ControlInv, Importing, Copying
<1> QED
  BY <1>1, <1>2 DEF BaseInv

(* Steps of the worker that touch neither the disk nor the store, but for  *)
(* a tail sealed too early.                                                *)
LEMMA QuietBase ==
  BaseInv /\ (takePending \/ sealBusy \/ sealNotFound \/ allUnlinked \/ dequeue \/ workerFails)
    => BaseInv'
<1> SUFFICES ASSUME BaseInv
             PROVE takePending \/ sealBusy \/ sealNotFound \/ allUnlinked \/ dequeue \/ workerFails
                     => BaseInv'
  OBVIOUS
<1>1. ASSUME NEW step \in Steps, Go(step)
      PROVE  worker' \in WorkerType /\ worker'.pc = step
  BY <1>1, GoType DEF Go, TypeOK, BaseInv
<1>2. Rest => worker' \in WorkerType /\ worker'.pc = "idle"
  BY NullTypes DEF Rest, IdleWorker
<1>3. /\ tail \in Seq(Events) /\ sealed \in Seq(Segment) /\ Sealed \in Seq(Segment)
      /\ queued \in BOOLEAN /\ touched \in BOOLEAN /\ <<>> \in Seq(Events)
  BY SealedType DEF BaseInv, TypeOK
<1>4. ASSUME takePending PROVE BaseInv'
  <2>1. worker' \in WorkerType /\ worker'.pc \in {"idle", "seal"} /\ touched' \in BOOLEAN
    BY <1>1, <1>2, <1>3, <1>4 DEF takePending, Steps
  <2>2. UNCHANGED <<disk, remote, active, queued, loaded, scanned, reader, written, version,
                    crashes>>
    BY <1>4 DEF takePending
  <2> QED
    BY <1>3, <2>1, <2>2, WorkerStep DEF disk
<1>5. ASSUME sealBusy PROVE BaseInv'
  <2>1. worker' \in WorkerType /\ worker'.pc = "idle"
    BY <1>2, <1>5 DEF sealBusy
  <2>2. tail' \in Seq(Events) /\ sealed' \in Seq(Segment)
    BY <1>3, <1>5 DEF sealBusy
  <2>3. UNCHANGED <<dir, files, index, importing, deleted, cleaned, remote, memory, reader,
                 written, version, crashes>>
    BY <1>5 DEF sealBusy
  <2> QED
    BY <1>3, <2>1, <2>2, <2>3, WorkerStep DEF memory
<1>6. ASSUME sealNotFound \/ allUnlinked PROVE BaseInv'
  <2>1. worker' \in WorkerType /\ worker'.pc = "dequeue"
    BY <1>1, <1>6 DEF sealNotFound, allUnlinked, Steps
  <2>2. UNCHANGED <<disk, remote, memory, reader, written, version, crashes>>
    BY <1>6 DEF sealNotFound, allUnlinked
  <2> QED
    BY <1>3, <2>1, <2>2, WorkerStep DEF disk, memory
<1>7. ASSUME dequeue PROVE BaseInv'
  <2>1. worker' \in WorkerType /\ worker'.pc = "idle" /\ queued' \in BOOLEAN
    BY <1>2, <1>3, <1>7 DEF dequeue
  <2>2. UNCHANGED <<disk, remote, active, touched, loaded, scanned, reader, written, version,
                 crashes>>
    BY <1>7 DEF dequeue
  <2> QED
    BY <1>3, <2>1, <2>2, WorkerStep DEF disk
<1>8. ASSUME workerFails PROVE BaseInv'
  <2>1. worker' \in WorkerType /\ worker'.pc = "idle"
    BY <1>2, <1>8 DEF workerFails
  <2>2. UNCHANGED <<disk, remote, memory, reader, written, version, crashes>>
    BY <1>8 DEF workerFails
  <2> QED
    BY <1>3, <2>1, <2>2, WorkerStep DEF disk, memory
<1> QED
  BY <1>4, <1>5, <1>6, <1>7, <1>8

(* What sealLogs hands to the worker.                                      *)
LEMMA SealBase == BaseInv /\ sealLogs => BaseInv'
<1> SUFFICES ASSUME BaseInv, sealLogs PROVE BaseInv'
  OBVIOUS
<1> DEFINE old == {s \in ToSet(Sealed) : Known(index.logs, s)}
           new == Keep(Sealed, ToSet(Sealed) \ old)
           next == IF ChangedFiles = {} /\ CopiedFiles = {} /\ old = {} /\ new = <<>>
                   THEN "dequeue" ELSE "open"
<1>1. /\ worker' = [worker EXCEPT
                      !.pc = next, !.logs = index.logs, !.files = index.files,
                      !.pinned = files, !.segments = new, !.todo = ChangedFiles,
                      !.copied = CopiedFiles, !.copiedLogs = old]
      /\ tail' = <<>> /\ sealed' = Sealed
      /\ worker.pc = "seal" /\ ~active /\ dir /\ ~deleted /\ ~importing
      /\ files["experiment.json"] > 0
      /\ UNCHANGED <<dir, files, index, importing, deleted, cleaned, remote, memory, reader,
                     written, version, crashes>>
  BY DEF sealLogs
<1>2. /\ Sealed \in Seq(Segment) /\ new \in Seq(Segment) /\ old \in SUBSET Segment
  <2>1. Sealed \in Seq(Segment)
    BY SealedType DEF BaseInv
  <2> QED
    BY <2>1, KeepType, ToSetInSet
<1>3. next \in {"dequeue", "open"} /\ next \in Steps
  BY DEF Steps, Copying
<1> HIDE DEF old, new, next
<1>4. ChangedFiles \in SUBSET Names /\ CopiedFiles \in SUBSET Evicted
  BY DEF ChangedFiles, CopiedFiles
<1>5. worker' \in WorkerType /\ worker'.pc = next
  <2>1. worker \in WorkerType /\ index.logs \in Seq(PartType) /\ index.files \in Versions
        /\ files \in Versions
    BY DEF BaseInv, TypeOK, IndexType
  <2> QED
    BY <1>1, <1>2, <1>3, <1>4, <2>1 DEF WorkerType
<1>6. TypeOK'
  BY <1>1, <1>2, <1>5 DEF BaseInv, TypeOK, memory
<1>7. ControlInv'
  BY <1>1, <1>3, <1>5 DEF BaseInv, ControlInv, memory, Importing, Copying
<1> QED
  BY <1>6, <1>7 DEF BaseInv

(* Opening the archive, copying to it and publishing it.                   *)
LEMMA CopyBase ==
  BaseInv /\ (openRemote \/ copySegment \/ (\E f \in Names : copyFile(f)) \/ publishRemote
                \/ renameRemote)
    => BaseInv'
<1> SUFFICES ASSUME BaseInv
             PROVE openRemote \/ copySegment \/ (\E f \in Names : copyFile(f))
                     \/ publishRemote \/ renameRemote => BaseInv'
  OBVIOUS
<1>t. /\ worker \in WorkerType /\ remote \in RemoteType
      /\ remote.index \in IndexType /\ remote.index.logs \in Seq(PartType)
      /\ remote.index.files \in Versions /\ worker.files \in Versions
      /\ worker.logs \in Seq(PartType) /\ worker.pinned \in Versions
  BY DEF BaseInv, TypeOK, RemoteType, IndexType, WorkerType
<1>1. ASSUME worker.pc \in {"open", "copy", "rename"},
             worker' \in WorkerType, worker'.pc \in Copying,
             remote' \in RemoteType, UNCHANGED <<disk, memory, reader, written, version, crashes>>
      PROVE  BaseInv'
  <2>1. TypeOK'
    BY <1>1 DEF BaseInv, TypeOK, disk, memory
  <2>2. ControlInv'
    BY <1>1 DEF BaseInv, ControlInv, disk, memory, Importing, Copying
  <2> QED
    BY <2>1, <2>2 DEF BaseInv
<1>2. ASSUME NEW step \in Steps, Go(step)
      PROVE  worker' \in WorkerType /\ worker'.pc = step
  BY <1>2, <1>t, GoType DEF Go
<1>3. ASSUME openRemote PROVE BaseInv'
  <2>1. Merged(worker.logs, remote.index.logs) \in Seq(PartType)
    BY <1>t, MergedType
  <2>2. [f \in Names |-> IF worker.files[f] = 0 THEN remote.index.files[f] ELSE worker.files[f]]
          \in Versions
    BY <1>t DEF Versions
  <2>3. worker' \in WorkerType /\ worker'.pc = "copy"
    BY <1>3, <1>t, <2>1, <2>2 DEF openRemote, WorkerType, Steps, Copying
  <2>4. remote' \in RemoteType
    BY <1>3, <1>t DEF openRemote, RemoteType
  <2> QED
    BY <1>1, <1>3, <2>3, <2>4 DEF openRemote, Copying
<1>4. ASSUME copySegment PROVE BaseInv'
  <2> DEFINE s == Head(worker.segments)
             o == ObjectOf(worker.logs, s)
  <2>1. s \in Segment /\ Tail(worker.segments) \in Seq(Segment)
    BY <1>4, <1>t, HeadThenTail DEF copySegment, WorkerType
  <2>2. Head(s) \in Events /\ s \in Seq(Events)
    BY <2>1, HeadThenTail DEF Segment
  <2>3. o \in Objects /\ Head(s) \in 0 .. MaxEvents
    BY <2>2, ArchiveBounds DEF ObjectOf, Events
  <2>4. Part(o, Head(s), s) \in PartType
    BY <2>1, <2>3 DEF Part, PartType
  <2>5. \/ /\ UNCHANGED remote
           /\ worker' = [worker EXCEPT !.segments = Tail(@), !.copiedLogs = @ \cup {s}]
        \/ /\ remote' = [remote EXCEPT !.objects[o] = s]
           /\ worker' = [worker EXCEPT !.segments = Tail(@), !.copiedLogs = @ \cup {s},
                                       !.logs = Append(@, Part(o, Head(s), s))]
    BY <1>4 DEF copySegment
  <2>6. worker.copiedLogs \cup {s} \in SUBSET Segment
    BY <1>t, <2>1 DEF WorkerType
  <2>7. Append(worker.logs, Part(o, Head(s), s)) \in Seq(PartType)
    BY <1>t, <2>4, AppendProperties
  <2> HIDE DEF s, o
  <2>8. worker' \in WorkerType /\ worker'.pc = worker.pc
    BY <1>t, <2>1, <2>5, <2>6, <2>7 DEF WorkerType
  <2>9. remote' \in RemoteType
    <3>1. [remote.objects EXCEPT ![o] = s] \in [Objects -> Seq(Events)]
      BY <1>t, <2>2 DEF RemoteType
    <3> QED
      BY <1>t, <2>5, <3>1 DEF RemoteType
  <2> QED
    BY <1>1, <1>4, <2>8, <2>9 DEF copySegment, Copying
<1>5. ASSUME NEW f \in Names, copyFile(f) PROVE BaseInv'
  <2>1. worker.pinned[f] \in Nat
    BY <1>t DEF Versions
  <2>2. [worker.files EXCEPT ![f] = worker.pinned[f]] \in Versions
    BY <1>t, <2>1 DEF Versions
  <2>3. worker' \in WorkerType /\ worker'.pc = worker.pc
    BY <1>5, <1>t, <2>2 DEF copyFile, WorkerType
  <2>4. remote' \in RemoteType
    BY <1>5, <1>t, <2>1 DEF copyFile, RemoteType
  <2> QED
    BY <1>1, <1>5, <2>3, <2>4 DEF copyFile, Copying
<1>6. ASSUME publishRemote PROVE BaseInv'
  <2>1. Work \in IndexType
    BY <1>t DEF Work, IndexType
  <2>2. remote' \in RemoteType
    BY <1>6, <1>t, <2>1 DEF publishRemote, RemoteType
  <2>3. worker' \in WorkerType /\ worker'.pc \in {"rename", "record"}
    BY <1>2, <1>6 DEF publishRemote, Steps, Copying
  <2> QED
    BY <1>1, <1>6, <2>2, <2>3 DEF publishRemote, Copying
<1>7. ASSUME renameRemote PROVE BaseInv'
  <2>1. worker' \in WorkerType /\ worker'.pc = "record"
    BY <1>2, <1>7 DEF renameRemote, Steps, Copying
  <2>2. remote' \in RemoteType
    BY <1>7, <1>t DEF renameRemote, RemoteType
  <2> QED
    BY <1>1, <1>7, <2>1, <2>2 DEF renameRemote, Copying
<1> QED
  BY <1>3, <1>4, <1>5, <1>6, <1>7

(* Recording the index and unlinking what was copied.                      *)
LEMMA UnlinkBase == BaseInv /\ (recordIndex \/ unlinkCopied) => BaseInv'
<1> SUFFICES ASSUME BaseInv PROVE recordIndex \/ unlinkCopied => BaseInv'
  OBVIOUS
<1>t. worker \in WorkerType /\ files \in Versions /\ sealed \in Seq(Segment)
  BY DEF BaseInv, TypeOK
<1>1. ASSUME recordIndex PROVE BaseInv'
  <2>1. /\ worker' \in WorkerType
        /\ \/ worker'.pc = "dequeue" /\ UNCHANGED index
           \/ worker'.pc = "unlink" /\ ~deleted /\ dir /\ index' = Work
    <3>1. CASE deleted \/ ~dir
      <4>1. Go("dequeue") /\ UNCHANGED index
        BY <1>1, <3>1 DEF recordIndex
      <4> QED
        BY <1>t, <4>1, GoType DEF Go, Steps
    <3>2. CASE ~(deleted \/ ~dir)
      <4>1. Go("unlink") /\ index' = Work
        BY <1>1, <3>2 DEF recordIndex
      <4> QED
        BY <1>t, <3>2, <4>1, GoType DEF Go, Steps
    <3> QED
      BY <3>1, <3>2
  <2>2. Work \in IndexType
    BY <1>t DEF Work, IndexType, WorkerType
  <2>3. /\ worker.pc = "record"
        /\ UNCHANGED <<dir, tail, sealed, files, importing, deleted, cleaned, remote, memory,
                       reader, written, version, crashes>>
    BY <1>1 DEF recordIndex
  <2>4. TypeOK'
    BY <2>1, <2>2, <2>3 DEF BaseInv, TypeOK, memory
  <2>5. ControlInv'
    BY <2>1, <2>3 DEF BaseInv, ControlInv, memory, Importing, Copying
  <2> QED
    BY <2>4, <2>5 DEF BaseInv
<1>2. ASSUME unlinkCopied PROVE BaseInv'
  <2>1. /\ worker.pc = "unlink"
        /\ UNCHANGED <<dir, tail, index, importing, deleted, cleaned, remote, memory, reader,
                       written, version, crashes>>
    BY <1>2 DEF unlinkCopied
  <2>2. CASE \E f \in worker.copied :
               /\ worker' = [worker EXCEPT !.copied = @ \ {f}]
               /\ files' = IF Unchanged(f) THEN [files EXCEPT ![f] = 0] ELSE files
               /\ UNCHANGED sealed
    <3>1. PICK f \in worker.copied :
               /\ worker' = [worker EXCEPT !.copied = @ \ {f}]
               /\ files' = IF Unchanged(f) THEN [files EXCEPT ![f] = 0] ELSE files
               /\ UNCHANGED sealed
      BY <2>2
    <3>2. worker' \in WorkerType /\ worker'.pc = "unlink"
      BY <1>t, <2>1, <3>1 DEF WorkerType
    <3>3. files' \in Versions
      BY <1>t, <3>1 DEF Versions
    <3>4. files'["experiment.json"] = files["experiment.json"]
      <4>1. f # "experiment.json"
        BY <1>t, <3>1 DEF WorkerType
      <4> QED
        BY <1>t, <3>1, <4>1 DEF Versions
    <3>5. TypeOK'
      BY <2>1, <3>1, <3>2, <3>3 DEF BaseInv, TypeOK, memory
    <3>6. ControlInv'
      BY <2>1, <3>2, <3>4 DEF BaseInv, ControlInv, memory, Importing, Copying
    <3> QED
      BY <3>5, <3>6 DEF BaseInv
  <2>3. CASE \E s \in worker.copiedLogs :
               /\ worker' = [worker EXCEPT !.copiedLogs = @ \ {s}]
               /\ sealed' = Keep(sealed, ToSet(sealed) \ {s})
               /\ UNCHANGED files
    <3>1. PICK s \in worker.copiedLogs :
               /\ worker' = [worker EXCEPT !.copiedLogs = @ \ {s}]
               /\ sealed' = Keep(sealed, ToSet(sealed) \ {s})
               /\ UNCHANGED files
      BY <2>3
    <3>2. worker' \in WorkerType /\ worker'.pc = "unlink"
      BY <1>t, <2>1, <3>1 DEF WorkerType
    <3>3. sealed' \in Seq(Segment)
      BY <1>t, <3>1, KeepType
    <3>4. TypeOK'
      BY <2>1, <3>1, <3>2, <3>3 DEF BaseInv, TypeOK, memory
    <3>5. ControlInv'
      BY <2>1, <3>1, <3>2 DEF BaseInv, ControlInv, memory, Importing, Copying
    <3> QED
      BY <3>4, <3>5 DEF BaseInv
  <2> QED
    BY <1>2, <2>2, <2>3 DEF unlinkCopied
<1> QED
  BY <1>1, <1>2

(* What is captured has the types of a capture.                            *)
LEMMA CaptureType ==
  ASSUME TypeOK PROVE captureRunSource \in Seq(ReadPart)
<1> DEFINE U == Keep(sealed, {s \in ToSet(sealed) : ~Known(index.logs, s)})
           L == index.logs
           a == [i \in DOMAIN L |-> Source(L[i])]
           b == [i \in DOMAIN U |-> LocalPart(U[i])]
           c == IF tail = <<>> THEN <<>> ELSE <<LocalPart(tail)>>
<1>1. L \in Seq(PartType) /\ sealed \in Seq(Segment) /\ tail \in Seq(Events)
  BY DEF TypeOK, IndexType
<1>2. U \in Seq(Segment)
  BY <1>1, KeepType
<1>3. \A s \in Segment : LocalPart(s) \in ReadPart
  BY ArchiveBounds DEF LocalPart, ReadPart
<1> HIDE DEF U, L
<1>4. a \in Seq(ReadPart)
  <2>1. \A p \in PartType : Source(p) \in ReadPart
    BY <1>3 DEF Source, PartType, ReadPart
  <2>2. \A i \in DOMAIN L : L[i] \in PartType
    BY <1>1, ElementOfSeq, LenProperties
  <2> QED
    BY <1>1, <2>1, <2>2
<1>5. b \in Seq(ReadPart)
  <2>1. \A i \in DOMAIN U : U[i] \in Segment
    BY <1>2, ElementOfSeq, LenProperties
  <2> QED
    BY <1>2, <1>3, <2>1
<1>6. c \in Seq(ReadPart)
  BY <1>1, <1>3 DEF Segment
<1> HIDE DEF a, b, c
<1>7. b \o c \in Seq(ReadPart)
  BY <1>5, <1>6, ConcatProperties
<1>8. a \o (b \o c) \in Seq(ReadPart) /\ a \o (b \o c) = (a \o b) \o c
  BY <1>4, <1>5, <1>6, <1>7, ConcatProperties, ConcatAssociative
<1>9. captureRunSource = a \o b \o c
  BY DEF captureRunSource, a, b, c, U, L
<1> QED
  BY <1>8, <1>9

(* What is read of the local parts is a log.                               *)
LEMMA ContentType ==
  ASSUME NEW parts \in Seq(ReadPart) PROVE Content(parts) \in Seq(Events)
<1> DEFINE q == [i \in DOMAIN parts |-> parts[i].data]
<1>1. \A i \in DOMAIN parts : parts[i].data \in Seq(Events)
  <2>1. \A i \in DOMAIN parts : parts[i] \in ReadPart
    BY ElementOfSeq, LenProperties
  <2> QED
    BY <2>1 DEF ReadPart, Segment
<1>2. q \in Seq(Seq(Events))
  BY <1>1
<1> HIDE DEF q
<1>3. FlattenSeq(q) \in Seq(Events)
  BY <1>2, FlattenType
<1> QED
  BY <1>3 DEF Content, q

(* Captures keep the types and leave everything else alone.                *)
LEMMA ReadBase == BaseInv /\ (\E r \in Readers : Read(r)) => BaseInv'
<1> SUFFICES ASSUME BaseInv, NEW r \in Readers, Read(r) PROVE BaseInv'
  OBVIOUS
<1>t. /\ reader \in [Readers -> ReaderType] /\ remote \in RemoteType /\ reader[r] \in ReaderType
      /\ files \in Versions /\ version \in Versions /\ index.files \in Versions
      /\ written \in Nat /\ importing \in BOOLEAN
  BY ArchiveBounds DEF BaseInv, TypeOK, IndexType
<1>1. ASSUME UNCHANGED <<disk, remote, memory, worker, written, version, crashes>>,
             reader' \in [Readers -> ReaderType]
      PROVE  BaseInv'
  <2>1. TypeOK'
    BY <1>1 DEF BaseInv, TypeOK, disk, memory
  <2>2. ControlInv'
    BY <1>1 DEF BaseInv, ControlInv, disk, memory, Indexed
  <2> QED
    BY <2>1, <2>2 DEF BaseInv
<1>2. ASSUME NEW download \in BOOLEAN, captureResultFiles(r, download) PROVE BaseInv'
  <2> DEFINE parts    == captureRunSource
             artifact == IF files["analysis-result.json"] > 0 THEN files["analysis-result.json"]
                         ELSE index.files["analysis-result.json"]
             distant  == \/ \E i \in DOMAIN parts : ~parts[i].local
                         \/ artifact > 0 /\ files["analysis-result.json"] = 0
             new == [pc |-> IF distant THEN "captured" ELSE "open", lease |-> download,
                     parts |-> parts, artifact |-> artifact,
                     remote |-> files["analysis-result.json"] = 0,
                     log |-> IF distant THEN <<>> ELSE Content(parts),
                     expected |-> written, latest |-> version["analysis-result.json"],
                     indexed |-> ~importing]
  <2>1. parts \in Seq(ReadPart) /\ Content(parts) \in Seq(Events)
    BY CaptureType, ContentType DEF BaseInv
  <2>2. artifact \in Nat /\ version["analysis-result.json"] \in Nat
    BY <1>t DEF Versions
  <2>3. reader' = [reader EXCEPT ![r] = new]
    BY <1>2 DEF captureResultFiles
  <2> HIDE DEF parts, artifact, distant
  <2>4. new \in ReaderType
    BY <1>t, <2>1, <2>2 DEF ReaderType
  <2> HIDE DEF new
  <2>5. reader' \in [Readers -> ReaderType]
    BY <1>t, <2>3, <2>4
  <2> QED
    BY <1>1, <1>2, <2>5 DEF captureResultFiles
<1>3. ASSUME pinArchive(r) PROVE BaseInv'
  <2>1. [reader[r] EXCEPT !.pc = "pinned"] \in ReaderType
    BY <1>t DEF ReaderType
  <2>2. reader' = [reader EXCEPT ![r] = IF deleted THEN IdleReader
                                        ELSE [reader[r] EXCEPT !.pc = "pinned"]]
    BY <1>3 DEF pinArchive
  <2>3. reader' \in [Readers -> ReaderType]
    BY <1>t, <2>1, <2>2, NullTypes
  <2> QED
    BY <1>1, <1>3, <2>3 DEF pinArchive
<1>4. ASSUME resolveArchivedFiles(r) PROVE BaseInv'
  <2> DEFINE parts == reader[r].parts
             q == [i \in DOMAIN parts |-> Stored(parts[i])]
  <2>1. parts \in Seq(ReadPart)
    BY <1>t DEF ReaderType
  <2>2. q \in Seq(Seq(Events))
    <3>1. \A p \in ReadPart : Stored(p) \in Seq(Events)
      BY <1>t DEF Stored, ReadPart, RemoteType, Segment
    <3>2. \A i \in DOMAIN parts : parts[i] \in ReadPart
      BY <2>1, ElementOfSeq, LenProperties
    <3> QED
      BY <2>1, <3>1, <3>2
  <2>3. reader' = [reader EXCEPT ![r].pc = "open", ![r].log = FlattenSeq(q)]
    BY <1>4 DEF resolveArchivedFiles
  <2> HIDE DEF q
  <2>4. FlattenSeq(q) \in Seq(Events)
    BY <2>2, FlattenType
  <2>5. reader' = [reader EXCEPT ![r] = [reader[r] EXCEPT !.pc = "open", !.log = FlattenSeq(q)]]
    BY <1>t, <2>3
  <2>6. [reader[r] EXCEPT !.pc = "open", !.log = FlattenSeq(q)] \in ReaderType
    BY <1>t, <2>4 DEF ReaderType
  <2>7. reader' \in [Readers -> ReaderType]
    BY <1>t, <2>5, <2>6
  <2> QED
    BY <1>1, <1>4, <2>7 DEF resolveArchivedFiles
<1>5. ASSUME closeSnapshot(r) PROVE BaseInv'
  <2>1. reader' \in [Readers -> ReaderType]
    BY <1>5, <1>t, NullTypes DEF closeSnapshot
  <2> QED
    BY <1>1, <1>5, <2>1 DEF closeSnapshot
<1> QED
  BY <1>2, <1>3, <1>4, <1>5 DEF Read

(* Deletion and restarts.                                                  *)
LEMMA EndBase == BaseInv /\ (deleteSavedResult \/ controllerRestarts) => BaseInv'
<1> SUFFICES ASSUME BaseInv PROVE deleteSavedResult \/ controllerRestarts => BaseInv'
  OBVIOUS
<1>1. ASSUME deleteSavedResult PROVE BaseInv'
  <2>1. /\ ~Locked /\ ~active /\ deleted' = TRUE
        /\ \/ UNCHANGED <<dir, tail, sealed, files, index, importing>>
           \/ /\ dir' = FALSE
              /\ tail' = <<>> /\ sealed' = <<>> /\ files' = None
              /\ index' = NoIndex /\ importing' = FALSE
        /\ UNCHANGED <<cleaned, remote, memory, worker, reader, written, version, crashes>>
    BY <1>1 DEF deleteSavedResult, resultDeletionBusy
  <2>2. /\ dir' \in BOOLEAN /\ tail' \in Seq(Events) /\ sealed' \in Seq(Segment)
        /\ files' \in Versions /\ index' \in IndexType /\ importing' \in BOOLEAN
    <3>1. CASE UNCHANGED <<dir, tail, sealed, files, index, importing>>
      BY <3>1 DEF BaseInv, TypeOK
    <3>2. CASE /\ dir' = FALSE
               /\ tail' = <<>> /\ sealed' = <<>> /\ files' = None
               /\ index' = NoIndex /\ importing' = FALSE
      <4>1. dir' \in BOOLEAN /\ importing' \in BOOLEAN
        BY <3>2
      <4>2. tail' \in Seq(Events) /\ sealed' \in Seq(Segment)
        BY <3>2
      <4>3. files' \in Versions /\ index' \in IndexType
        BY <3>2, NullTypes
      <4> QED
        BY <4>1, <4>2, <4>3
    <3> QED
      BY <2>1, <3>1, <3>2
  <2>3. TypeOK'
    BY <2>1, <2>2 DEF BaseInv, TypeOK, memory
  <2>4. ~Indexed => ~Indexed'
    BY <2>1 DEF Indexed, NoIndex
  <2>5. ControlInv'
    BY <2>1, <2>4 DEF BaseInv, ControlInv, memory, Locked, Importing, Copying
  <2> QED
    BY <2>3, <2>5 DEF BaseInv
<1>2. ASSUME controllerRestarts PROVE BaseInv'
  <2>1. /\ crashes' = crashes + 1 /\ active' = FALSE /\ queued' = FALSE /\ touched' = FALSE
        /\ loaded' = FALSE /\ scanned' = FALSE
        /\ worker' = IdleWorker /\ reader' = [r \in Readers |-> IdleReader]
        /\ UNCHANGED <<disk, remote, written, version>>
    BY <1>2 DEF controllerRestarts
  <2>2. worker' \in WorkerType /\ worker'.pc = "idle" /\ reader' \in [Readers -> ReaderType]
    <3>1. IdleWorker.pc = "idle"
      BY DEF IdleWorker
    <3> QED
      BY <2>1, <3>1, NullTypes
  <2>c. crashes' \in Nat
    BY <2>1 DEF BaseInv, TypeOK
  <2>d. /\ active' \in BOOLEAN /\ queued' \in BOOLEAN /\ touched' \in BOOLEAN
        /\ loaded' \in BOOLEAN /\ scanned' \in BOOLEAN
    BY <2>1
  <2>u. UNCHANGED <<dir, tail, sealed, files, index, importing, deleted, cleaned, remote,
                    written, version>>
    BY <2>1 DEF disk
  <2>3. TypeOK'
    BY <2>2, <2>c, <2>d, <2>u DEF BaseInv, TypeOK
  <2>4. ControlInv'
    BY <2>1, <2>2 DEF BaseInv, ControlInv, disk, Importing, Copying
  <2> QED
    BY <2>3, <2>4 DEF BaseInv
<1> QED
  BY <1>1, <1>2

(* The base invariant is kept by every step.                               *)
LEMMA StepBase == BaseInv /\ [Next]_vars => BaseInv'
<1> SUFFICES ASSUME BaseInv, [Next]_vars PROVE BaseInv'
  OBVIOUS
<1>1. CASE UNCHANGED vars
  <2>1. TypeOK'
    BY <1>1 DEF BaseInv, TypeOK, vars, disk, memory
  <2>2. ControlInv'
    BY <1>1 DEF BaseInv, ControlInv, Indexed, vars, disk, memory
  <2> QED
    BY <2>1, <2>2 DEF BaseInv
<1>2. CASE Next
  <2>1. \/ persistEvents \/ persistExperiment \/ saveAnalysisJob
        \/ StartCycle \/ Import \/ Clean \/ Archive \/ workerFails
        \/ \E r \in Readers : Read(r)
        \/ deleteSavedResult \/ controllerRestarts
    BY <1>2 DEF Next
  <2>2. CASE Archive
    BY <2>2, QuietBase, SealBase, CopyBase, UnlinkBase DEF Archive
  <2> QED
    BY <2>1, <2>2, WritersBase, ImportBase, CleanBase, QuietBase, ReadBase, EndBase
<1> QED
  BY <1>1, <1>2

(* The base invariant holds in every reachable state of the archive:       *)
(* types, and what the step of archiveMaintenance says about the run.      *)
THEOREM Base == Spec => []BaseInv
  BY InitBase, StepBase, PTL DEF Spec

(* Variables keep their types: in particular the worker copies and unlinks *)
(* files that may leave the disk, and a part is found under an object.     *)
THEOREM TypeCorrect == Spec => []TypeOK
<1>1. BaseInv => TypeOK
  BY DEF BaseInv
<1> QED
  BY <1>1, Base, PTL

(* A deleted run does not come back, and what was removed from the store   *)
(* stays removed: deleteSavedResult, markImport, archiveRun and            *)
(* cleanDeletedArchives, in whatever order they meet.                      *)
THEOREM DeletedForEver == Spec => DeletionIsFinal
<1>1. BaseInv /\ BaseInv' /\ [Next]_vars =>
        [/\ deleted /\ ~dir => ~dir'
         /\ cleaned' => deleted /\ remote' = NoRemote]_vars
  <2> SUFFICES ASSUME BaseInv, BaseInv', Next
               PROVE  /\ deleted /\ ~dir => ~dir'
                      /\ cleaned' => deleted /\ remote' = NoRemote
    OBVIOUS
  <2>1. deleted /\ ~dir => ~dir'
    <3> SUFFICES ASSUME deleted, ~dir, dir' PROVE FALSE
      OBVIOUS
    <3>1. dir' # dir
      OBVIOUS
    <3>2. persistEvents \/ markImport
      BY <3>1 DEF Next, disk, persistExperiment, saveAnalysisJob, saveFile, StartCycle, Import,
         importArchivedRuns, readArchivedRun, importFiles, importIndex, importDone, Clean,
         cleanDeletedArchives, removeArchive, noteRemoval, Archive, takePending, sealLogs,
         sealBusy, sealNotFound, openRemote, copySegment, copyFile, publishRemote, renameRemote,
         recordIndex, unlinkCopied, allUnlinked, dequeue, workerFails, Read, captureResultFiles,
         pinArchive, resolveArchivedFiles, closeSnapshot, deleteSavedResult, controllerRestarts
    <3>3. CASE persistEvents
      BY <3>3 DEF persistEvents
    <3>4. CASE markImport
      BY <3>4 DEF markImport, ImportRefused
    <3> QED
      BY <3>2, <3>3, <3>4
  <2>2. cleaned' => deleted /\ remote' = NoRemote
    <3> SUFFICES ASSUME cleaned' PROVE deleted /\ remote' = NoRemote
      OBVIOUS
    <3>1. remote' = NoRemote
      BY DEF BaseInv, ControlInv
    <3>2. CASE cleaned
      BY <3>1, <3>2 DEF BaseInv, ControlInv
    <3>3. CASE ~cleaned
      <4>1. cleaned' # cleaned
        BY <3>3
      <4>2. noteRemoval
        BY <4>1 DEF Next, disk, persistEvents, markImport, persistExperiment, saveAnalysisJob,
           saveFile, StartCycle, Import,
         importArchivedRuns, readArchivedRun, importFiles, importIndex, importDone, Clean,
         cleanDeletedArchives, removeArchive, Archive, takePending, sealLogs,
         sealBusy, sealNotFound, openRemote, copySegment, copyFile, publishRemote, renameRemote,
         recordIndex, unlinkCopied, allUnlinked, dequeue, workerFails, Read, captureResultFiles,
         pinArchive, resolveArchivedFiles, closeSnapshot, deleteSavedResult, controllerRestarts
      <4> QED
        BY <3>1, <4>2 DEF noteRemoval, BaseInv, ControlInv
    <3> QED
      BY <3>2, <3>3
  <2> QED
    BY <2>1, <2>2
<1>2. BaseInv /\ [Next]_vars => BaseInv'
  BY StepBase
<1> QED
  BY <1>1, Base, PTL DEF Spec, DeletionIsFinal

-----------------------------------------------------------------------------
(***************************************************************************)
(* The queue.  While the worker copies a run, what has not been touched    *)
(* since it began is copied, to be copied or known to be in the store, so  *)
(* when it takes the run off the queue nothing is left on the disk alone.  *)
(***************************************************************************)
Archiving == {"seal", "unlink", "dequeue"} \cup Copying

Covered ==
  /\ tail = <<>>
  /\ ToSet(sealed) \subseteq worker.copiedLogs \cup ToSet(worker.segments)
  /\ files = worker.pinned
  /\ \A f \in Names : files[f] > 0 =>
       \/ f \in worker.todo
       \/ worker.files[f] = files[f] /\ (f \in Evicted => f \in worker.copied)

Leaving ==
  /\ tail = <<>>
  /\ ToSet(sealed) \subseteq worker.copiedLogs
  /\ \A f \in Names : files[f] > 0 =>
       /\ index.files[f] = files[f]
       /\ f \in Evicted => f \in worker.copied /\ worker.pinned[f] = files[f]

QueueInv ==
  /\ UnsavedDataIsQueued
  /\ worker.pc \in Archiving => queued
  /\ worker.pc \in Copying /\ ~touched /\ ~deleted => Covered
  /\ worker.pc \in {"rename", "record"} => worker.todo = {} /\ worker.segments = <<>>
  /\ worker.pc = "unlink" /\ ~touched => Leaving
  /\ worker.pc = "dequeue" /\ ~touched /\ dir /\ ~deleted /\ ~importing => ~Unsaved

(* The queue is not loaded at the start.                                   *)
LEMMA InitQueue == Init => QueueInv
<1> SUFFICES ASSUME Init PROVE QueueInv
  OBVIOUS
<1>1. worker.pc = "idle" /\ loaded = FALSE
  BY DEF Init, IdleWorker
<1> QED
  BY <1>1 DEF QueueInv, Archiving, Copying, UnsavedDataIsQueued

(* A step after which the worker is not archiving.                         *)
LEMMA OutsideQueue ==
  ASSUME UnsavedDataIsQueued', worker'.pc \notin Archiving PROVE QueueInv'
  BY DEF QueueInv, Archiving, Copying

(* A step after a write, which the worker did not see.                     *)
LEMMA TouchedQueue ==
  ASSUME QueueInv, queued' = TRUE, touched' = TRUE, UNCHANGED worker PROVE QueueInv'
  BY DEF QueueInv, UnsavedDataIsQueued

(* A writer marks the run dirty in the section in which it writes.         *)
LEMMA WritersQueue ==
  QueueInv /\ (persistEvents \/ persistExperiment \/ saveAnalysisJob) => QueueInv'
<1>1. ASSUME QueueInv, persistEvents PROVE QueueInv'
  BY <1>1, TouchedQueue DEF persistEvents, markRunArchiveDirty
<1>2. ASSUME QueueInv, NEW f \in Names, saveFile(f) PROVE QueueInv'
  BY <1>2, TouchedQueue DEF saveFile, markRunArchiveDirty
<1> QED
  BY <1>1, <1>2 DEF persistExperiment, saveAnalysisJob

(* The worker outside archiveRun; importDone queues what it imported.      *)
LEMMA ImportQueue ==
  BaseInv /\ QueueInv /\ (StartCycle \/ Import \/ Clean \/ workerFails) => QueueInv'
<1> SUFFICES ASSUME BaseInv, QueueInv
             PROVE StartCycle \/ Import \/ Clean \/ workerFails => QueueInv'
  OBVIOUS
<1>t. worker \in WorkerType /\ \A step : [worker EXCEPT !.pc = step].pc = step
  BY DEF BaseInv, TypeOK, WorkerType
<1>s. ASSUME UNCHANGED <<loaded, dir, deleted, importing, tail, sealed, files, index, queued>>
      PROVE  UnsavedDataIsQueued'
  BY <1>s DEF QueueInv, UnsavedDataIsQueued, Unsaved
<1>1. CASE StartCycle
  <2>1. worker'.pc \notin Archiving
    BY <1>1, <1>t DEF StartCycle, Go, Archiving, Copying
  <2>2. UnsavedDataIsQueued'
    <3>1. CASE loaded
      BY <1>1, <1>s, <3>1 DEF StartCycle, disk
    <3>2. CASE ~loaded /\ dir
      BY <1>1, <3>2 DEF StartCycle, markRunArchiveDirty, UnsavedDataIsQueued
    <3>3. CASE ~dir
      BY <1>1, <3>3 DEF StartCycle, disk, UnsavedDataIsQueued
    <3> QED
      BY <3>1, <3>2, <3>3
  <2> QED
    BY <2>1, <2>2, OutsideQueue
<1>2. CASE importArchivedRuns
  <2>1. worker'.pc \notin Archiving
    BY <1>2, <1>t DEF importArchivedRuns, Discovered, Go, Archiving, Copying
  <2> QED
    BY <1>2, <1>s, <2>1, OutsideQueue DEF importArchivedRuns, disk
<1>3. CASE readArchivedRun
  <2>1. worker'.pc \in {"importMark", "clean"}
    BY <1>3, <1>t DEF readArchivedRun, Discovered, Go, WorkerType
  <2>2. worker'.pc \notin Archiving
    BY <2>1 DEF Archiving, Copying
  <2> QED
    BY <1>3, <1>s, <2>2, OutsideQueue DEF readArchivedRun, disk
<1>4. CASE markImport
  <2>1. worker'.pc \notin Archiving
    BY <1>4, <1>t DEF markImport, Discovered, Go, Archiving, Copying
  <2>2. UnsavedDataIsQueued'
    <3>1. CASE UNCHANGED <<dir, importing>>
      BY <1>4, <1>s, <3>1 DEF markImport
    <3>2. CASE importing' = TRUE
      BY <3>2 DEF UnsavedDataIsQueued
    <3> QED
      BY <1>4, <3>1, <3>2 DEF markImport
  <2> QED
    BY <2>1, <2>2, OutsideQueue
<1>5. CASE importFiles \/ importIndex
  <2>1. worker'.pc \notin Archiving
    BY <1>5, <1>t DEF importFiles, importIndex, Go, Archiving, Copying, WorkerType
  <2>2. importing' /\ UNCHANGED importing
    BY <1>5 DEF importFiles, importIndex, BaseInv, ControlInv, Importing
  <2> QED
    BY <2>1, <2>2, OutsideQueue DEF UnsavedDataIsQueued
<1>6. CASE importDone
  <2>1. worker'.pc \notin Archiving
    BY <1>6, <1>t DEF importDone, Discovered, Go, Archiving, Copying
  <2> QED
    BY <1>6, <2>1, OutsideQueue DEF importDone, markRunArchiveDirty, UnsavedDataIsQueued
<1>7. CASE Clean
  <2>1. worker'.pc \notin Archiving
    BY <1>7, <1>t DEF Clean, cleanDeletedArchives, removeArchive, noteRemoval, Go,
                 Archiving, Copying
  <2>2. UNCHANGED <<loaded, dir, deleted, importing, tail, sealed, files, index, queued>>
    BY <1>7 DEF Clean, cleanDeletedArchives, removeArchive, noteRemoval, disk, memory
  <2> QED
    BY <1>s, <2>1, <2>2, OutsideQueue
<1>8. CASE workerFails
  <2>1. worker'.pc \notin Archiving
    BY <1>8 DEF workerFails, Rest, IdleWorker, Archiving, Copying
  <2> QED
    BY <1>8, <1>s, <2>1, OutsideQueue DEF workerFails, disk, memory
<1> QED
  BY <1>1, <1>2, <1>3, <1>4, <1>5, <1>6, <1>7, <1>8 DEF Import

(* sealLogs takes everything there is on the disk, or finds nothing to do. *)
LEMMA SealQueue ==
  BaseInv /\ QueueInv /\ (takePending \/ sealLogs \/ sealBusy \/ sealNotFound) => QueueInv'
<1> SUFFICES ASSUME BaseInv, QueueInv
             PROVE takePending \/ sealLogs \/ sealBusy \/ sealNotFound => QueueInv'
  OBVIOUS
<1>t. worker \in WorkerType /\ \A step : [worker EXCEPT !.pc = step].pc = step
  BY DEF BaseInv, TypeOK, WorkerType
<1>q. worker.pc = "seal" => queued
  BY DEF QueueInv, Archiving
<1>1. CASE takePending
  <2>1. worker'.pc = "idle" \/ (worker'.pc = "seal" /\ queued)
    <3>1. CASE queued /\ archiveIdle
      <4>1. worker' = [worker EXCEPT !.pc = "seal"]
        BY <1>1, <3>1 DEF takePending, Go
      <4> QED
        BY <4>1, <3>1, <1>t
    <3>2. CASE ~(queued /\ archiveIdle)
      BY <1>1, <3>2 DEF takePending, Rest, IdleWorker
    <3> QED
      BY <3>1, <3>2
  <2>2. UNCHANGED <<loaded, dir, deleted, importing, tail, sealed, files, index, queued>>
    BY <1>1 DEF takePending, disk
  <2>3. UnsavedDataIsQueued'
    BY <2>2 DEF QueueInv, UnsavedDataIsQueued, Unsaved
  <2> QED
    BY <2>1, <2>2, <2>3 DEF QueueInv, Archiving, Copying
<1>2. CASE sealBusy
  <2>1. worker'.pc \notin Archiving
    BY <1>2 DEF sealBusy, Rest, IdleWorker, Archiving, Copying
  <2>2. queued' = queued /\ queued
    BY <1>2, <1>q DEF sealBusy, memory
  <2>3. UnsavedDataIsQueued'
    BY <2>2 DEF UnsavedDataIsQueued
  <2> QED
    BY <2>1, <2>3, OutsideQueue
<1>3. CASE sealNotFound
  <2>1. worker'.pc = "dequeue"
    BY <1>3, <1>t DEF sealNotFound, Go
  <2>2. queued' = queued /\ queued /\ (deleted' \/ ~dir')
    BY <1>3, <1>q DEF sealNotFound, memory, disk
  <2> QED
    BY <2>1, <2>2 DEF QueueInv, Copying, UnsavedDataIsQueued
<1>4. CASE sealLogs
  <2> DEFINE old == {s \in ToSet(Sealed) : Known(index.logs, s)}
             new == Keep(Sealed, ToSet(Sealed) \ old)
             next == IF ChangedFiles = {} /\ CopiedFiles = {} /\ old = {} /\ new = <<>>
                     THEN "dequeue" ELSE "open"
  <2>1. /\ worker' = [worker EXCEPT
                        !.pc = next, !.logs = index.logs, !.files = index.files,
                        !.pinned = files, !.segments = new, !.todo = ChangedFiles,
                        !.copied = CopiedFiles, !.copiedLogs = old]
        /\ tail' = <<>> /\ sealed' = Sealed
        /\ queued' = queued /\ queued
        /\ UNCHANGED <<files, index>>
    BY <1>4, <1>q DEF sealLogs, memory
  <2>2. Sealed \in Seq(Segment)
    BY SealedType DEF BaseInv
  <2>3. ToSet(Sealed) = old \cup ToSet(new)
    <3>1. ToSet(new) = ToSet(Sealed) \cap (ToSet(Sealed) \ old)
      BY <2>2, KeepRange
    <3> QED
      BY <3>1
  <2>4. next \in {"dequeue", "open"}
    OBVIOUS
  <2>5. \A f \in Names : files[f] > 0 =>
          \/ f \in ChangedFiles
          \/ index.files[f] = files[f] /\ (f \in Evicted => f \in CopiedFiles)
    BY DEF ChangedFiles, CopiedFiles
  <2>6. next = "dequeue" => Sealed = <<>> /\ ChangedFiles = {} /\ CopiedFiles = {}
    <3> SUFFICES ASSUME next = "dequeue" PROVE Sealed = <<>> /\ ChangedFiles = {} /\ CopiedFiles = {}
      OBVIOUS
    <3>1. ChangedFiles = {} /\ CopiedFiles = {} /\ old = {} /\ new = <<>>
      OBVIOUS
    <3>2. ToSet(Sealed) = {}
      BY <2>3, <3>1 DEF ToSet
    <3> QED
      BY <2>2, <3>1, <3>2, EmptyToSet
  <2> HIDE DEF old, new, next
  <2>7. /\ worker'.pc = next /\ worker'.files = index.files /\ worker'.pinned = files
        /\ worker'.segments = new /\ worker'.todo = ChangedFiles
        /\ worker'.copied = CopiedFiles /\ worker'.copiedLogs = old
    BY <1>t, <2>1 DEF WorkerType
  <2>8. Covered'
    BY <2>1, <2>3, <2>5, <2>7 DEF Covered
  <2>9. next = "dequeue" => ~Unsaved'
    BY <2>1, <2>5, <2>6 DEF Unsaved
  <2> QED
    BY <2>1, <2>4, <2>7, <2>8, <2>9 DEF QueueInv, UnsavedDataIsQueued, Copying
<1> QED
  BY <1>1, <1>2, <1>3, <1>4

(* While the worker copies, what it has not copied is left to do.          *)
LEMMA CopyQueue ==
  BaseInv /\ QueueInv /\ (openRemote \/ copySegment \/ (\E f \in Names : copyFile(f))
                            \/ publishRemote \/ renameRemote)
    => QueueInv'
<1> SUFFICES ASSUME BaseInv, QueueInv
             PROVE openRemote \/ copySegment \/ (\E f \in Names : copyFile(f))
                            \/ publishRemote \/ renameRemote => QueueInv'
  OBVIOUS
<1>t. worker \in WorkerType /\ \A step : [worker EXCEPT !.pc = step].pc = step
  BY DEF BaseInv, TypeOK, WorkerType
<1>1. ASSUME worker.pc \in {"open", "copy", "rename"}, worker'.pc \in Copying,
             UNCHANGED <<disk, memory>>,
             Covered => Covered',
             worker'.pc \in {"rename", "record"} => worker'.todo = {} /\ worker'.segments = <<>>
      PROVE  QueueInv'
  <2>1. UNCHANGED <<loaded, dir, deleted, importing, tail, sealed, files, index, queued, touched>>
    BY <1>1 DEF disk, memory
  <2>2. UnsavedDataIsQueued'
    BY <2>1 DEF QueueInv, UnsavedDataIsQueued, Unsaved
  <2>3. queued /\ (~touched /\ ~deleted => Covered)
    BY <1>1 DEF QueueInv, Archiving, Copying
  <2> QED
    BY <1>1, <2>1, <2>2, <2>3 DEF QueueInv, Copying
<1>2. ASSUME openRemote PROVE QueueInv'
  <2>1. /\ worker'.pc = "copy" /\ UNCHANGED <<disk, memory>> /\ worker.pc = "open"
        /\ worker'.files = [f \in Names |-> IF worker.files[f] = 0 THEN remote.index.files[f]
                                            ELSE worker.files[f]]
        /\ worker'.pinned = worker.pinned /\ worker'.segments = worker.segments
        /\ worker'.todo = worker.todo /\ worker'.copied = worker.copied
        /\ worker'.copiedLogs = worker.copiedLogs
    BY <1>2, <1>t DEF openRemote, WorkerType
  <2>2. Covered => Covered'
    <3> SUFFICES ASSUME Covered PROVE Covered'
      OBVIOUS
    <3>1. \A f \in Names : files[f] > 0 /\ worker.files[f] = files[f] =>
            worker'.files[f] = files[f]
      BY <2>1
    <3> QED
      BY <2>1, <3>1 DEF Covered, disk
  <2> QED
    BY <1>1, <2>1, <2>2 DEF Copying
<1>3. ASSUME copySegment PROVE QueueInv'
  <2> DEFINE s == Head(worker.segments)
  <2>1. /\ worker'.pc = "copy" /\ UNCHANGED <<disk, memory>> /\ worker.pc = "copy"
        /\ worker'.pinned = worker.pinned /\ worker'.segments = Tail(worker.segments)
        /\ worker'.todo = worker.todo /\ worker'.copied = worker.copied
        /\ worker'.files = worker.files
        /\ worker'.copiedLogs = worker.copiedLogs \cup {s}
        /\ worker.segments # <<>>
    BY <1>3, <1>t, ZenonT(30) DEF copySegment, WorkerType
  <2>2. ToSet(worker.segments) = {s} \cup ToSet(Tail(worker.segments))
    <3>1. worker.segments \in Seq(Segment)
      BY <1>t DEF WorkerType
    <3>2. \A q \in Seq(Segment) : q # <<>> => ToSet(q) = {Head(q)} \cup ToSet(Tail(q))
      BY HeadThenTail
    <3> QED
      BY <2>1, <3>1, <3>2, Zenon
  <2> HIDE DEF s
  <2>3. Covered => Covered'
    BY <2>1, <2>2 DEF Covered, disk
  <2> QED
    BY <1>1, <2>1, <2>3 DEF Copying
<1>4. ASSUME NEW f \in Names, copyFile(f) PROVE QueueInv'
  <2>1. /\ worker'.pc = "copy" /\ UNCHANGED <<disk, memory>> /\ worker.pc = "copy"
        /\ worker'.pinned = worker.pinned /\ worker'.segments = worker.segments
        /\ worker'.todo = worker.todo \ {f}
        /\ worker'.copied = IF f \in Retained THEN worker.copied ELSE worker.copied \cup {f}
        /\ worker'.files = [worker.files EXCEPT ![f] = worker.pinned[f]]
        /\ worker'.copiedLogs = worker.copiedLogs
    BY <1>4, <1>t DEF copyFile, WorkerType
  <2>2. worker.files \in Versions
    BY <1>t DEF WorkerType
  <2>3. Covered => Covered'
    BY <2>1, <2>2 DEF Covered, disk, Versions
  <2> QED
    BY <1>1, <2>1, <2>3 DEF Copying
<1>5. ASSUME publishRemote \/ renameRemote PROVE QueueInv'
  <2>1. /\ worker'.pc \in {"rename", "record"} /\ worker.pc \in {"copy", "rename"}
        /\ UNCHANGED <<disk, memory>>
        /\ worker'.pinned = worker.pinned /\ worker'.segments = worker.segments
        /\ worker'.todo = worker.todo /\ worker'.copied = worker.copied
        /\ worker'.files = worker.files /\ worker'.copiedLogs = worker.copiedLogs
        /\ worker.todo = {} /\ worker.segments = <<>>
    BY <1>5, <1>t DEF publishRemote, renameRemote, Go, WorkerType, QueueInv
  <2>2. Covered => Covered'
    BY <2>1 DEF Covered, disk
  <2> QED
    BY <1>1, <2>1, <2>2 DEF Copying
<1> QED
  BY <1>2, <1>3, <1>4, <1>5

(* What was recorded and unlinked is in the index, so nothing is left when *)
(* the run leaves the queue.                                               *)
LEMMA UnlinkQueue ==
  BaseInv /\ QueueInv /\ (recordIndex \/ unlinkCopied \/ allUnlinked \/ dequeue) => QueueInv'
<1> SUFFICES ASSUME BaseInv, QueueInv
             PROVE recordIndex \/ unlinkCopied \/ allUnlinked \/ dequeue => QueueInv'
  OBVIOUS
<1>t. /\ worker \in WorkerType /\ \A step : [worker EXCEPT !.pc = step].pc = step
      /\ files \in Versions /\ sealed \in Seq(Segment)
  BY DEF BaseInv, TypeOK, WorkerType
<1>q. worker.pc \in Archiving => queued
  BY DEF QueueInv
<1>1. CASE recordIndex
  <2>1. /\ worker.pc = "record" /\ queued' = queued /\ touched' = touched /\ queued
        /\ UNCHANGED <<tail, sealed, files, dir, deleted>>
        /\ worker.todo = {} /\ worker.segments = <<>>
    BY <1>1, <1>q DEF recordIndex, memory, Archiving, Copying, QueueInv
  <2>2. CASE deleted \/ ~dir
    <3>1. worker'.pc = "dequeue"
      BY <1>1, <1>t, <2>2 DEF recordIndex, Go
    <3> QED
      BY <2>1, <2>2, <3>1 DEF QueueInv, UnsavedDataIsQueued, Copying
  <2>3. CASE ~(deleted \/ ~dir)
    <3>1. /\ worker'.pc = "unlink" /\ index' = Work
          /\ worker'.copied = worker.copied /\ worker'.copiedLogs = worker.copiedLogs
          /\ worker'.pinned = worker.pinned
      BY <1>1, <1>t, <2>3 DEF recordIndex, Go, WorkerType
    <3>2. ~touched => Covered
      BY <2>1, <2>3 DEF QueueInv, Copying
    <3>3. ToSet(worker.segments) = {}
      BY <2>1 DEF ToSet
    <3>4. index'.files = worker.files
      BY <3>1 DEF Work
    <3>5. ~touched => Leaving'
      BY <2>1, <3>1, <3>2, <3>3, <3>4 DEF Covered, Leaving
    <3> QED
      BY <2>1, <3>1, <3>5 DEF QueueInv, UnsavedDataIsQueued, Copying
  <2> QED
    BY <2>2, <2>3
<1>2. CASE unlinkCopied
  <2>1. /\ worker.pc = "unlink" /\ queued' = queued /\ touched' = touched /\ queued
        /\ UNCHANGED <<tail, index>>
        /\ worker'.pc = "unlink" /\ worker'.pinned = worker.pinned
    BY <1>2, <1>t, <1>q DEF unlinkCopied, memory, Archiving, WorkerType
  <2>2. ~touched => Leaving
    BY <2>1 DEF QueueInv
  <2>3. Leaving => Leaving'
    <3> SUFFICES ASSUME Leaving PROVE Leaving'
      OBVIOUS
    <3>1. CASE \E f \in worker.copied :
                 /\ worker' = [worker EXCEPT !.copied = @ \ {f}]
                 /\ files' = IF Unchanged(f) THEN [files EXCEPT ![f] = 0] ELSE files
                 /\ UNCHANGED sealed
      <4>1. PICK f \in worker.copied :
                 /\ worker' = [worker EXCEPT !.copied = @ \ {f}]
                 /\ files' = IF Unchanged(f) THEN [files EXCEPT ![f] = 0] ELSE files
                 /\ UNCHANGED sealed
        BY <3>1
      <4>2. worker'.copied = worker.copied \ {f} /\ worker'.copiedLogs = worker.copiedLogs
        BY <1>t, <4>1 DEF WorkerType
      <4>3. f \in Names /\ f \in Evicted
        BY <1>t DEF WorkerType
      <4>4. \A g \in Names : g # f => files'[g] = files[g]
        BY <1>t, <4>1 DEF Versions
      <4>5. files[f] > 0 => files'[f] = 0
        BY <1>t, <4>1, <4>3 DEF Leaving, Unchanged, Versions
      <4>6. files'[f] > 0 => files[f] > 0 /\ files'[f] = files[f]
        BY <1>t, <4>1, <4>3 DEF Versions
      <4>7. files'[f] = 0
        BY <1>t, <4>1, <4>3, <4>5 DEF Versions
      <4> QED
        BY <2>1, <4>1, <4>2, <4>4, <4>7 DEF Leaving
    <3>2. CASE \E s \in worker.copiedLogs :
                 /\ worker' = [worker EXCEPT !.copiedLogs = @ \ {s}]
                 /\ sealed' = Keep(sealed, ToSet(sealed) \ {s})
                 /\ UNCHANGED files
      <4>1. PICK s \in worker.copiedLogs :
                 /\ worker' = [worker EXCEPT !.copiedLogs = @ \ {s}]
                 /\ sealed' = Keep(sealed, ToSet(sealed) \ {s})
                 /\ UNCHANGED files
        BY <3>2
      <4>2. worker'.copied = worker.copied /\ worker'.copiedLogs = worker.copiedLogs \ {s}
        BY <1>t, <4>1 DEF WorkerType
      <4>3. ToSet(sealed') = ToSet(sealed) \ {s}
        <5>1. ToSet(Keep(sealed, ToSet(sealed) \ {s})) = ToSet(sealed) \cap (ToSet(sealed) \ {s})
          BY <1>t, KeepRange
        <5> QED
          BY <4>1, <5>1
      <4> QED
        BY <2>1, <4>1, <4>2, <4>3 DEF Leaving
    <3> QED
      BY <1>2, <3>1, <3>2 DEF unlinkCopied
  <2> QED
    BY <2>1, <2>2, <2>3 DEF QueueInv, UnsavedDataIsQueued, Copying
<1>3. CASE allUnlinked
  <2>1. /\ worker.pc = "unlink" /\ queued' = queued /\ touched' = touched /\ queued
        /\ UNCHANGED <<tail, index, files, sealed>>
        /\ worker'.pc = "dequeue" /\ worker.copied = {} /\ worker.copiedLogs = {}
    BY <1>3, <1>t, <1>q DEF allUnlinked, disk, memory, Archiving, Go
  <2>2. ~touched => ~Unsaved
    <3> SUFFICES ASSUME ~touched PROVE ~Unsaved
      OBVIOUS
    <3>1. Leaving
      BY <2>1 DEF QueueInv
    <3>2. sealed = <<>>
      BY <1>t, <2>1, <3>1, EmptyToSet DEF Leaving
    <3> QED
      BY <2>1, <3>1, <3>2 DEF Leaving, Unsaved
  <2>3. ~touched => ~Unsaved'
    BY <2>1, <2>2 DEF Unsaved
  <2> QED
    BY <2>1, <2>3 DEF QueueInv, UnsavedDataIsQueued, Copying
<1>4. CASE dequeue
  <2>1. worker'.pc \notin Archiving
    BY <1>4 DEF dequeue, Rest, IdleWorker, Archiving, Copying
  <2>2. /\ queued /\ queued' = (queued /\ touched) /\ worker.pc = "dequeue"
        /\ UNCHANGED <<loaded, dir, deleted, importing, tail, sealed, files, index>>
    BY <1>4, <1>q DEF dequeue, disk, Archiving
  <2>3. UnsavedDataIsQueued'
    <3>1. CASE touched
      BY <2>2, <3>1 DEF UnsavedDataIsQueued
    <3>2. CASE ~touched
      BY <2>2, <3>2 DEF UnsavedDataIsQueued, QueueInv, Unsaved
    <3> QED
      BY <3>1, <3>2
  <2> QED
    BY <2>1, <2>3, OutsideQueue
<1> QED
  BY <1>1, <1>2, <1>3, <1>4

(* Captures, deletion, restarts and the steps that only end the work.      *)
LEMMA OtherQueue ==
  BaseInv /\ QueueInv /\ (\/ \E r \in Readers : Read(r)
                          \/ deleteSavedResult \/ controllerRestarts \/ UNCHANGED vars)
    => QueueInv'
<1> SUFFICES ASSUME BaseInv, QueueInv
             PROVE (\/ \E r \in Readers : Read(r)
                    \/ deleteSavedResult \/ controllerRestarts \/ UNCHANGED vars) => QueueInv'
  OBVIOUS
<1>1. ASSUME UNCHANGED <<disk, memory, worker>> PROVE QueueInv'
  BY <1>1 DEF QueueInv, UnsavedDataIsQueued, Unsaved, Covered, Leaving, disk, memory
<1>2. ASSUME NEW r \in Readers, Read(r) PROVE QueueInv'
  BY <1>1, <1>2 DEF Read, captureResultFiles, pinArchive, resolveArchivedFiles, closeSnapshot
<1>3. ASSUME deleteSavedResult PROVE QueueInv'
  <2>1. deleted' /\ UNCHANGED <<memory, worker>> /\ worker.pc # "unlink"
    BY <1>3 DEF deleteSavedResult, Locked
  <2> QED
    BY <2>1 DEF QueueInv, UnsavedDataIsQueued, memory
<1>4. ASSUME controllerRestarts PROVE QueueInv'
  <2>1. worker'.pc \notin Archiving /\ ~loaded'
    BY <1>4 DEF controllerRestarts, IdleWorker, Archiving, Copying
  <2> QED
    BY <2>1, OutsideQueue DEF UnsavedDataIsQueued
<1> QED
  BY <1>1, <1>2, <1>3, <1>4 DEF vars

(* The queue invariant is kept by every step.                              *)
LEMMA StepQueue == BaseInv /\ QueueInv /\ [Next]_vars => QueueInv'
<1> SUFFICES ASSUME BaseInv, QueueInv, [Next]_vars PROVE QueueInv'
  OBVIOUS
<1>1. CASE UNCHANGED vars
  BY <1>1, OtherQueue
<1>2. CASE Archive
  BY <1>2, SealQueue, CopyQueue, UnlinkQueue DEF Archive
<1> QED
  BY <1>1, <1>2, WritersQueue, ImportQueue, OtherQueue DEF Next

(* What is only on the local disk is in the queue of the worker, whatever  *)
(* was written while archiveRun was copying and wherever it failed.        *)
THEOREM QueueIsComplete == Spec => []UnsavedDataIsQueued
<1>1. Spec => []QueueInv
  BY InitQueue, StepQueue, Base, PTL DEF Spec
<1>2. QueueInv => UnsavedDataIsQueued
  BY DEF QueueInv
<1> QED
  BY <1>1, <1>2, PTL

-----------------------------------------------------------------------------
(***************************************************************************)
(* The log of a run: the parts an index lists, the sealed segments it does *)
(* not list yet, and the tail.                                             *)
(***************************************************************************)
Data(parts) == [i \in 1 .. Len(parts) |-> parts[i].data]

(* An index has its own names: no two parts have one object, an object is  *)
(* named after its segment and a segment after its first event.            *)
Distinct(logs) == \A i, j \in 1 .. Len(logs) : logs[i].object = logs[j].object => i = j

Titled(logs) ==
  \A p \in ToSet(logs) : p.segment \in {0, Head(p.data)} /\ p.object \in {0, p.segment}

Held(logs, objects) == \A p \in ToSet(logs) : objects[p.object] = p.data

Sound(logs, objects) == Distinct(logs) /\ Titled(logs) /\ Held(logs, objects)

(* The segments q are known ones, then those that go on where the index    *)
(* ends, at event e, and the tail t goes on from there to event n.         *)
Split(logs, q, t, n, known, new, e, m) ==
  /\ q = known \o new
  /\ \A s \in ToSet(known) : Known(logs, s)
  /\ Tiles(Data(logs), 0, e) /\ Tiles(new, e, m)
  /\ m <= n /\ t = Chunk(m, n)

Whole(logs, q, t, n) ==
  \E known, new \in Seq(Segment), e, m \in Nat : Split(logs, q, t, n, known, new, e, m)

(* The data of the parts of a log.                                         *)
LEMMA DataType ==
  ASSUME NEW P, \A p \in P : p.data \in Segment, NEW L \in Seq(P)
  PROVE  /\ Data(L) \in Seq(Segment) /\ Data(L) \in Seq(Seq(Events)) /\ Len(Data(L)) = Len(L)
         /\ \A p \in ToSet(L) : p.data \in ToSet(Data(L))
<1>1. Len(L) \in Nat /\ \A i \in 1 .. Len(L) : L[i] \in P
  BY LenProperties, ElementOfSeq
<1>2. Data(L) \in [1 .. Len(L) -> Segment]
  BY <1>1 DEF Data
<1>3. Data(L) \in Seq(Segment) /\ Len(Data(L)) = Len(L)
  BY <1>1, <1>2
<1>4. Data(L) \in Seq(Seq(Events))
  <2>1. Data(L) \in [1 .. Len(L) -> Seq(Events)]
    BY <1>1 DEF Data, Segment
  <2> QED
    BY <1>1, <2>1
<1>5. ASSUME NEW p \in ToSet(L) PROVE p.data \in ToSet(Data(L))
  <2>1. PICK i \in DOMAIN L : p = L[i]
    BY DEF ToSet
  <2>2. i \in 1 .. Len(L) /\ i \in DOMAIN Data(L) /\ Data(L)[i] = p.data
    BY <1>1, <2>1 DEF Data
  <2> QED
    BY <2>2 DEF ToSet
<1> QED
  BY <1>3, <1>4, <1>5

(* The data of two logs in a row.                                          *)
LEMMA DataConcat ==
  ASSUME NEW P, \A p \in P : p.data \in Segment, NEW L \in Seq(P), NEW M \in Seq(P)
  PROVE  Data(L \o M) = Data(L) \o Data(M)
<1>1. L \o M \in Seq(P) /\ Len(L \o M) = Len(L) + Len(M)
  BY ConcatProperties
<1>2. /\ Data(L) \in Seq(Segment) /\ Len(Data(L)) = Len(L)
      /\ Data(M) \in Seq(Segment) /\ Len(Data(M)) = Len(M)
      /\ Data(L \o M) \in Seq(Segment) /\ Len(Data(L \o M)) = Len(L) + Len(M)
  BY <1>1, DataType
<1>3. /\ Data(L) \o Data(M) \in Seq(Segment)
      /\ Len(Data(L) \o Data(M)) = Len(L) + Len(M)
  BY <1>2, ConcatProperties
<1>4. ASSUME NEW i \in 1 .. Len(L) + Len(M)
      PROVE  Data(L \o M)[i] = (Data(L) \o Data(M))[i]
  <2>1. Len(L) \in Nat /\ Len(M) \in Nat
    OBVIOUS
  <2>2. Data(L \o M)[i] = (L \o M)[i].data
    BY <1>1 DEF Data
  <2>3. (L \o M)[i] = IF i <= Len(L) THEN L[i] ELSE M[i - Len(L)]
    BY ConcatProperties
  <2>4. (Data(L) \o Data(M))[i] = IF i <= Len(L) THEN Data(L)[i] ELSE Data(M)[i - Len(L)]
    BY <1>2, ConcatProperties
  <2>5. CASE i <= Len(L)
    <3>1. i \in 1 .. Len(L)
      BY <2>1, <2>5
    <3>2. Data(L)[i] = L[i].data
      BY <3>1 DEF Data
    <3> QED
      BY <2>2, <2>3, <2>4, <2>5, <3>2, Zenon
  <2>6. CASE ~(i <= Len(L))
    <3>1. i - Len(L) \in 1 .. Len(M)
      BY <2>1, <2>6
    <3>2. Data(M)[i - Len(L)] = M[i - Len(L)].data
      BY <3>1 DEF Data
    <3> QED
      BY <2>2, <2>3, <2>4, <2>6, <3>2, Zenon
  <2> QED
    BY <2>5, <2>6
<1> QED
  BY <1>2, <1>3, <1>4, SeqEqual

(* The data of one part.                                                   *)
LEMMA OneDatum ==
  ASSUME NEW P, NEW p \in P PROVE Data(<<p>>) = <<p.data>>
<1>1. Len(<<p>>) = 1 /\ <<p>>[1] = p
  OBVIOUS
<1>2. Data(<<p>>) = [i \in 1 .. 1 |-> <<p>>[i].data]
  BY <1>1 DEF Data
<1> QED
  BY <1>1, <1>2

(* A part of an index has a segment as its data.                           *)
LEMMA PartData == \A p \in PartType : p.data \in Segment
  BY DEF PartType

(* So has a part of a capture.                                             *)
LEMMA ReadData == \A p \in ReadPart : p.data \in Segment
  BY DEF ReadPart

(* The parts of an index that ends at event e have names up to e.          *)
LEMMA OldNames ==
  ASSUME NEW L \in Seq(PartType), NEW e, Titled(L), Tiles(Data(L), 0, e)
  PROVE  /\ e \in Nat
         /\ \A p \in ToSet(L) : /\ p.segment \in Nat /\ p.object \in Nat
                                /\ p.segment <= e /\ p.object <= e
<1>1. Data(L) \in Seq(Segment) /\ \A p \in ToSet(L) : p.data \in ToSet(Data(L))
  BY PartData, DataType
<1>2. e \in Nat /\ \A s \in ToSet(Data(L)) : \E x, y \in Nat :
              /\ 0 <= x /\ x < y /\ y <= e /\ s = Chunk(x, y)
  BY <1>1, TilesNumbers
<1>3. ASSUME NEW p \in ToSet(L)
      PROVE  /\ p.segment \in Nat /\ p.object \in Nat
             /\ p.segment <= e /\ p.object <= e
  <2>1. PICK x, y \in Nat : x < y /\ y <= e /\ p.data = Chunk(x, y)
    BY <1>1, <1>2
  <2>2. Head(p.data) = x + 1
    BY <2>1, ChunkType
  <2>3. p.segment \in {0, x + 1} /\ p.object \in {0, p.segment}
    BY <2>2 DEF Titled
  <2> QED
    BY <1>2, <2>1, <2>3
<1> QED
  BY <1>2, <1>3

(* Segments that go on from event e are named after later events.          *)
LEMMA NewNames ==
  ASSUME NEW U \in Seq(Segment), NEW e, NEW m, Tiles(U, e, m)
  PROVE  \A s \in ToSet(U) : Head(s) \in Nat /\ e < Head(s)
<1>1. e \in Nat /\ \A s \in ToSet(U) : \E x, y \in Nat :
              /\ e <= x /\ x < y /\ y <= m /\ s = Chunk(x, y)
  BY TilesNumbers
<1>2. ASSUME NEW s \in ToSet(U) PROVE Head(s) \in Nat /\ e < Head(s)
  <2>1. PICK x, y \in Nat : e <= x /\ x < y /\ s = Chunk(x, y)
    BY <1>1
  <2>2. x <= y
    BY <2>1
  <2>3. Head(Chunk(x, y)) = x + 1
    BY <2>1, <2>2, ChunkType
  <2> QED
    BY <1>1, <2>1, <2>3
<1> QED
  BY <1>2

(* What goes on where an index ends is not known to it.                    *)
LEMMA NewIsUnknown ==
  ASSUME NEW L \in Seq(PartType), NEW U \in Seq(Segment), NEW e, NEW m,
         Titled(L), Tiles(Data(L), 0, e), Tiles(U, e, m)
  PROVE  \A s \in ToSet(U) : ~Known(L, s)
<1> SUFFICES ASSUME NEW s \in ToSet(U), NEW p \in ToSet(L), p.segment = Head(s) PROVE FALSE
  BY DEF Known
<1>1. e \in Nat /\ p.segment <= e /\ p.segment \in Nat
  BY OldNames
<1>2. Head(s) \in Nat /\ e < Head(s)
  BY NewNames
<1> QED
  BY <1>1, <1>2

(* Known segments are dropped and new ones kept.                           *)
LEMMA KeepUnknown ==
  ASSUME NEW L \in Seq(PartType), NEW K \in Seq(Segment), NEW U \in Seq(Segment), NEW S,
         \A s \in ToSet(K) : s \notin S, \A s \in ToSet(U) : s \in S
  PROVE  Keep(K \o U, S) = U
<1>1. Keep(K \o U, S) = Keep(K, S) \o Keep(U, S)
  BY KeepConcat
<1>2. Keep(K, S) = <<>>
  <2>1. ToSet(K) \cap S = {}
    OBVIOUS
  <2> QED
    BY <2>1, KeepNone
<1>3. Keep(U, S) = U
  <2>1. ToSet(U) \subseteq S
    OBVIOUS
  <2> QED
    BY <2>1, KeepAll
<1> QED
  BY <1>1, <1>2, <1>3, ConcatEmptySeq

(* What a split says when its index is well named.                         *)
LEMMA SplitNames ==
  ASSUME NEW L \in Seq(PartType), NEW q, NEW t, NEW n,
         NEW K \in Seq(Segment), NEW U \in Seq(Segment), NEW e, NEW m,
         Titled(L), Split(L, q, t, n, K, U, e, m)
  PROVE  /\ q \in Seq(Segment) /\ ToSet(q) = ToSet(K) \cup ToSet(U)
         /\ \A s \in ToSet(K) : Known(L, s)
         /\ \A s \in ToSet(U) : ~Known(L, s)
<1>1. q = K \o U /\ Tiles(Data(L), 0, e) /\ Tiles(U, e, m) /\ \A s \in ToSet(K) : Known(L, s)
  BY DEF Split
<1>2. q \in Seq(Segment) /\ ToSet(q) = ToSet(K) \cup ToSet(U)
  BY <1>1, ConcatProperties, ToSetConcat
<1>3. \A s \in ToSet(U) : ~Known(L, s)
  BY <1>1, NewIsUnknown
<1> QED
  BY <1>1, <1>2, <1>3

(* The segments an index does not know are the new ones of a split.        *)
LEMMA SplitUnknown ==
  ASSUME NEW L \in Seq(PartType), NEW q, NEW t, NEW n,
         NEW K \in Seq(Segment), NEW U \in Seq(Segment), NEW e, NEW m, NEW S,
         Titled(L), Split(L, q, t, n, K, U, e, m),
         \A s \in ToSet(q) : s \in S <=> ~Known(L, s)
  PROVE  Keep(q, S) = U
<1>a. ToSet(q) = ToSet(K) \cup ToSet(U)
  BY SplitNames
<1>b. \A s \in ToSet(K) : Known(L, s)
  BY SplitNames
<1>c. \A s \in ToSet(U) : ~Known(L, s)
  BY SplitNames
<1>2. (\A s \in ToSet(K) : s \notin S) /\ (\A s \in ToSet(U) : s \in S)
  BY <1>a, <1>b, <1>c
<1>3. q = K \o U
  BY DEF Split
<1> QED
  BY <1>2, <1>3, KeepUnknown

(* An event is appended to the tail.                                       *)
LEMMA WholeGrows ==
  ASSUME NEW L, NEW q, NEW t, NEW n \in Nat,
         NEW K, NEW U, NEW e, NEW m \in Nat, Split(L, q, t, n, K, U, e, m)
  PROVE  Split(L, q, Append(t, n + 1), n + 1, K, U, e, m)
<1>1. m <= n /\ t = Chunk(m, n)
  BY DEF Split
<1>2. Append(Chunk(m, n), n + 1) = Chunk(m, n + 1)
  BY <1>1, ChunkAppend
<1>3. n + 1 \in Nat /\ m <= n + 1 /\ Append(t, n + 1) = Chunk(m, n + 1)
  BY <1>1, <1>2
<1> QED
  BY <1>3 DEF Split

(* The tail becomes a segment.                                             *)
LEMMA WholeSealed ==
  ASSUME NEW L, NEW q, NEW t \in Seq(Events), NEW n \in Nat,
         NEW K \in Seq(Segment), NEW U \in Seq(Segment), NEW e \in Nat, NEW m \in Nat,
         Split(L, q, t, n, K, U, e, m)
  PROVE  LET sealedNow == IF t = <<>> THEN q ELSE Append(q, t)
         IN \E V \in Seq(Segment) : Split(L, sealedNow, <<>>, n, K, V, e, n)
<1>1. /\ q = K \o U /\ \A s \in ToSet(K) : Known(L, s)
      /\ Tiles(Data(L), 0, e) /\ Tiles(U, e, m)
      /\ m <= n /\ t = Chunk(m, n)
  BY DEF Split
<1>2. Chunk(n, n) = <<>> /\ n <= n
  BY ChunkType
<1>3. CASE t = <<>>
  <2>1. m = n
    <3>1. Len(t) = n - m /\ Len(t) = 0
      BY <1>1, <1>3, ChunkType
    <3> QED
      BY <3>1
  <2>2. Split(L, q, <<>>, n, K, U, e, n)
    BY <1>1, <1>2, <2>1 DEF Split
  <2> QED
    BY <1>3, <2>2
<1>4. CASE t # <<>>
  <2>1. t \in Segment
    BY <1>4 DEF Segment
  <2>2. m < n
    <3>1. m = n => t = <<>>
      BY <1>1, ChunkType
    <3> QED
      BY <1>1, <1>4, <3>1
  <2>3. Tiles(Append(U, t), e, n)
    BY <1>1, <2>1, <2>2, TilesAppend
  <2>4. Append(U, t) \in Seq(Segment) /\ Append(q, t) = K \o Append(U, t)
    <3>1. <<t>> \in Seq(Segment)
      BY <2>1
    <3>2. Append(U, t) = U \o <<t>>
      BY <2>1, AppendIsConcat
    <3>3. Append(K \o U, t) = (K \o U) \o <<t>>
      BY <2>1, AppendIsConcat, ConcatProperties
    <3>4. (K \o U) \o <<t>> = K \o (U \o <<t>>)
      BY <3>1, ConcatAssociative, SMTT(30)
    <3>5. Append(U, t) \in Seq(Segment)
      BY <2>1, AppendProperties
    <3> QED
      BY <1>1, <3>2, <3>3, <3>4, <3>5
  <2>5. Split(L, Append(q, t), <<>>, n, K, Append(U, t), e, n)
    BY <1>1, <1>2, <2>3, <2>4 DEF Split
  <2> QED
    BY <1>4, <2>4, <2>5
<1> QED
  BY <1>3, <1>4

(* A known segment is unlinked.                                            *)
LEMMA WholeUnlinked ==
  ASSUME NEW L \in Seq(PartType), NEW q, NEW t, NEW n, NEW x, Titled(L), Known(L, x),
         NEW K \in Seq(Segment), NEW U \in Seq(Segment), NEW e, NEW m,
         Split(L, q, t, n, K, U, e, m)
  PROVE  \E J \in Seq(Segment) : Split(L, Keep(q, ToSet(q) \ {x}), t, n, J, U, e, m)
<1> DEFINE S == ToSet(q) \ {x}
           J == Keep(K, S)
<1>1. /\ q = K \o U /\ \A s \in ToSet(K) : Known(L, s)
      /\ Tiles(Data(L), 0, e) /\ Tiles(U, e, m)
      /\ m <= n /\ t = Chunk(m, n)
  BY DEF Split
<1>a. ToSet(q) = ToSet(K) \cup ToSet(U)
  BY SplitNames
<1>2. \A s \in ToSet(U) : ~Known(L, s)
  BY SplitNames
<1>3. ToSet(U) \subseteq S
  BY <1>a, <1>2
<1> HIDE DEF S
<1>4. Keep(q, S) = J \o U
  <2>1. Keep(K \o U, S) = Keep(K, S) \o Keep(U, S)
    BY KeepConcat
  <2>2. Keep(U, S) = U
    BY <1>3, KeepAll
  <2> QED
    BY <1>1, <2>1, <2>2
<1>5. J \in Seq(Segment) /\ ToSet(J) \subseteq ToSet(K)
  <2>1. Keep(K, S) \in Seq(Segment) /\ ToSet(Keep(K, S)) = ToSet(K) \cap S
    BY KeepRange
  <2> QED
    BY <2>1
<1> HIDE DEF J
<1>6. Split(L, Keep(q, S), t, n, J, U, e, m)
  BY <1>1, <1>4, <1>5 DEF Split
<1> QED
  BY <1>5, <1>6 DEF S

(* What an index knows, a longer one knows too, and it is as well named.   *)
LEMMA KnownMore ==
  ASSUME NEW L \in Seq(PartType), NEW R \in Seq(PartType)
  PROVE  \A s : Known(L, s) => Known(L \o R, s)
<1>1. ToSet(L \o R) = ToSet(L) \cup ToSet(R)
  BY ToSetConcat
<1> QED
  BY <1>1 DEF Known

(* The beginning of a sound index is sound.                                *)
LEMMA PrefixSound ==
  ASSUME NEW L \in Seq(PartType), NEW R \in Seq(PartType), NEW objects,
         Sound(L \o R, objects)
  PROVE  Sound(L, objects)
<1>1. ToSet(L \o R) = ToSet(L) \cup ToSet(R)
  BY ToSetConcat
<1>2. Titled(L) /\ Held(L, objects)
  BY <1>1 DEF Sound, Titled, Held
<1>3. Distinct(L)
  <2> SUFFICES ASSUME NEW i \in 1 .. Len(L), NEW j \in 1 .. Len(L), L[i].object = L[j].object
               PROVE  i = j
    BY DEF Distinct
  <2>1. Len(L) \in Nat /\ Len(R) \in Nat /\ Len(L \o R) = Len(L) + Len(R)
    BY ConcatProperties
  <2>2. i \in 1 .. Len(L) + Len(R) /\ j \in 1 .. Len(L) + Len(R) /\ i <= Len(L) /\ j <= Len(L)
    BY <2>1
  <2>3. (L \o R)[i] = L[i] /\ (L \o R)[j] = L[j]
    BY <2>2, ConcatProperties
  <2> QED
    BY <2>1, <2>2, <2>3 DEF Sound, Distinct
<1> QED
  BY <1>2, <1>3 DEF Sound

(* What the local index knows is not taken from the published one again.   *)
LEMMA MergedPublished ==
  ASSUME NEW L \in Seq(PartType), NEW R \in Seq(PartType), Distinct(L \o R)
  PROVE  Merged(L, L \o R) = L \o R
<1> DEFINE S == {p \in ToSet(L \o R) : ~\E q \in ToSet(L) : q.object = p.object}
<1>1. ToSet(L \o R) = ToSet(L) \cup ToSet(R)
  BY ToSetConcat
<1>2. ToSet(L) \cap S = {}
  OBVIOUS
<1>3. ToSet(R) \subseteq S
  <2> SUFFICES ASSUME NEW p \in ToSet(R), NEW q \in ToSet(L), q.object = p.object PROVE FALSE
    BY <1>1
  <2>1. PICK i \in DOMAIN R : p = R[i]
    BY DEF ToSet
  <2>2. PICK j \in DOMAIN L : q = L[j]
    BY DEF ToSet
  <2>3. Len(L) \in Nat /\ Len(R) \in Nat /\ Len(L \o R) = Len(L) + Len(R)
    BY ConcatProperties
  <2>4. /\ i \in 1 .. Len(R) /\ j \in 1 .. Len(L)
        /\ Len(L) + i \in 1 .. Len(L) + Len(R) /\ j \in 1 .. Len(L) + Len(R)
        /\ j <= Len(L) /\ ~(Len(L) + i <= Len(L)) /\ (Len(L) + i) - Len(L) = i
        /\ Len(L) + i # j
    BY <2>1, <2>2, <2>3
  <2>5. (L \o R)[j] = L[j] /\ (L \o R)[Len(L) + i] = R[i]
    <3> DEFINE k == Len(L) + i
    <3>1. k \in 1 .. Len(L) + Len(R) /\ ~(k <= Len(L)) /\ k - Len(L) = i
      BY <2>4
    <3> HIDE DEF k
    <3>2. (L \o R)[k] = R[k - Len(L)]
      BY <3>1, ConcatProperties
    <3>3. (L \o R)[j] = L[j]
      BY <2>4, ConcatProperties
    <3> QED
      BY <3>1, <3>2, <3>3 DEF k
  <2>6. Len(L) + i \in 1 .. Len(L \o R) /\ j \in 1 .. Len(L \o R)
    BY <2>3, <2>4
  <2>7. (L \o R)[Len(L) + i].object = (L \o R)[j].object
    BY <2>1, <2>2, <2>5
  <2> QED
    BY <2>4, <2>6, <2>7 DEF Distinct
<1> HIDE DEF S
<1>4. Keep(L \o R, S) = Keep(L, S) \o Keep(R, S)
  BY KeepConcat
<1>5. Keep(L, S) = <<>> /\ Keep(R, S) = R
  BY <1>2, <1>3, KeepNone, KeepAll
<1>6. Keep(L \o R, S) = R
  BY <1>4, <1>5, ConcatEmptySeq
<1> QED
  BY <1>6 DEF Merged, S

Joined(all, first, rest) == all = first \o rest

(* An interrupted cycle published more than the local index says: what is  *)
(* new for the published index is the rest of what is new for the local.   *)
LEMMA LaterSplit ==
  ASSUME NEW L \in Seq(PartType), NEW R \in Seq(PartType), Titled(L \o R),
         NEW q, NEW t, NEW n,
         NEW K \in Seq(Segment), NEW U \in Seq(Segment), NEW e, NEW m,
         NEW J \in Seq(Segment), NEW V \in Seq(Segment), NEW d, NEW k,
         Split(L, q, t, n, K, U, e, m), Split(L \o R, q, t, n, J, V, d, k)
  PROVE  \E X \in Seq(Segment) : Joined(U, X, V) /\ \A s \in ToSet(X) : Known(L \o R, s)
<1>1. SameJoin(K, U, J, V) /\ SameJoin(J, V, K, U)
  BY DEF Split, SameJoin
<1>2. \A s \in ToSet(K) : Known(L \o R, s)
  BY KnownMore DEF Split
<1>3. L \o R \in Seq(PartType)
  BY ConcatProperties
<1>4. \A s \in ToSet(J) : Known(L \o R, s)
  BY DEF Split
<1>5. \A s \in ToSet(V) : ~Known(L \o R, s)
  <2> DEFINE M == L \o R
  <2>1. M \in Seq(PartType) /\ Titled(M) /\ Split(M, q, t, n, J, V, d, k)
    BY <1>3
  <2> HIDE DEF M
  <2>2. \A s \in ToSet(V) : ~Known(M, s)
    BY <2>1, SplitNames
  <2> QED
    BY <2>2 DEF M
<1>6. Len(K) <= Len(J) \/ Len(J) <= Len(K)
  BY LenProperties
<1>7. CASE Len(K) <= Len(J)
  <2>1. PICK X \in Seq(Segment) : Between(K, U, J, V, X)
    BY <1>1, <1>7, TwoCuts
  <2>2. ToSet(J) = ToSet(K) \cup ToSet(X)
    BY <2>1, ToSetConcat DEF Between
  <2> QED
    BY <1>4, <2>1, <2>2 DEF Between, Joined
<1>8. CASE Len(J) <= Len(K)
  <2>1. PICK X \in Seq(Segment) : Between(J, V, K, U, X)
    BY <1>1, <1>8, TwoCuts
  <2>2. ToSet(K) = ToSet(J) \cup ToSet(X) /\ ToSet(V) = ToSet(X) \cup ToSet(U)
    BY <2>1, ToSetConcat DEF Between
  <2>3. ToSet(X) = {}
    BY <1>2, <1>5, <2>2
  <2>4. X = <<>>
    BY <2>3, EmptyToSet
  <2>5. U = <<>> \o V /\ <<>> \in Seq(Segment) /\ ToSet(<<>>) = ToSet(X)
    BY <2>1, <2>4, ConcatEmptySeq DEF Between
  <2> QED
    BY <2>3, <2>5 DEF Joined
<1> QED
  BY <1>6, <1>7, <1>8, Zenon

(* A segment that is new for an index is copied to an object of its own    *)
(* and goes on where the index ended.                                      *)
Copied(L, M, objects, q, t, n, U, m, o, p) ==
  /\ p \in PartType /\ o \in Objects /\ M \in Seq(PartType)
  /\ \A x \in ToSet(L) : x.object # o
  /\ Sound(M, [objects EXCEPT ![o] = Head(U)])
  /\ Known(M, Head(U))
  /\ \E J \in Seq(Segment), d \in Nat : Split(M, q, t, n, J, Tail(U), d, m)

(* Copying the first new segment: the object is a new one, nothing that    *)
(* was listed changes, and the split moves on by one segment.              *)
LEMMA CopyNew ==
  ASSUME NEW L \in Seq(PartType), NEW objects \in [Objects -> Seq(Events)],
         Sound(L, objects), NEW q, NEW t, NEW n \in 0 .. MaxEvents,
         NEW K \in Seq(Segment), NEW U \in Seq(Segment), NEW e, NEW m,
         Split(L, q, t, n, K, U, e, m), U # <<>>,
         NEW o, o = ObjectOf(L, Head(U)), NEW p, p = Part(o, Head(Head(U)), Head(U)),
         NEW M, M = Append(L, p)
  PROVE  Copied(L, M, objects, q, t, n, U, m, o, p)
<1> DEFINE s == Head(U)
<1>1. /\ q = K \o U /\ \A x \in ToSet(K) : Known(L, x)
      /\ Tiles(Data(L), 0, e) /\ Tiles(U, e, m)
      /\ m <= n /\ t = Chunk(m, n)
  BY DEF Split
<1>2. PICK d \in Nat : e \in Nat /\ e < d /\ d <= m /\ s = Chunk(e, d) /\ Tiles(Tail(U), d, m)
  BY <1>1, TilesHead
<1>3. /\ s \in Segment /\ Tail(U) \in Seq(Segment) /\ U = <<s>> \o Tail(U)
      /\ <<s>> \in Seq(Segment)
  BY HeadThenTail
<1>4. Head(s) = e + 1 /\ m \in Nat
  <2>1. Head(Chunk(e, d)) = e + 1
    BY <1>2, ChunkType
  <2>2. m \in Nat
    BY <1>1, TilesNumbers
  <2> QED
    BY <1>2, <2>1, <2>2
<1> HIDE DEF s
<1>5. o \in {0, e + 1} /\ (L # <<>> => o = e + 1)
  BY <1>4 DEF ObjectOf, s
<1>6. p = [object |-> o, segment |-> e + 1, data |-> s]
  BY <1>4 DEF Part, s
<1>7. e + 1 \in 0 .. MaxEvents /\ e + 1 # 0
  BY <1>1, <1>2, <1>4, ArchiveBounds
<1>8. o \in Objects
  <2>1. 0 \in Objects
    BY ArchiveBounds
  <2> QED
    BY <1>5, <1>7, <2>1, Zenon
<1>9. p \in PartType
  BY <1>3, <1>6, <1>7, <1>8 DEF PartType
<1>10. <<p>> \in Seq(PartType) /\ M = L \o <<p>> /\ M \in Seq(PartType)
  BY <1>9, AppendIsConcat, AppendProperties
<1>11. ToSet(M) = ToSet(L) \cup {p}
  BY <1>9, ToSetAppend
<1>12. ASSUME NEW x \in ToSet(L) PROVE x.object # o
  <2>1. L # <<>>
    BY <1>12 DEF ToSet
  <2>2. o = e + 1
    BY <1>5, <2>1
  <2>3. x.object \in Nat /\ x.object <= e
    BY <1>1, OldNames DEF Sound
  <2> QED
    BY <1>2, <2>2, <2>3
<1>13. Titled(M)
  <2>1. Titled(L)
    BY DEF Sound
  <2>2. p.segment = Head(p.data) /\ p.object \in {0, p.segment}
    BY <1>4, <1>5, <1>6
  <2> QED
    BY <1>11, <2>1, <2>2 DEF Titled
<1>14. Held(M, [objects EXCEPT ![o] = s])
  <2> SUFFICES ASSUME NEW x \in ToSet(M) PROVE [objects EXCEPT ![o] = s][x.object] = x.data
    BY DEF Held
  <2>1. CASE x = p
    BY <1>6, <1>8, <2>1
  <2>2. CASE x \in ToSet(L)
    <3>1. x \in PartType
      BY <2>2, ToSetInSet
    <3>2. objects[x.object] = x.data /\ x.object # o /\ x.object \in Objects
      BY <1>12, <2>2, <3>1 DEF Sound, Held, PartType
    <3> QED
      BY <3>2
  <2> QED
    BY <1>11, <2>1, <2>2
<1>15. Distinct(M)
  <2> SUFFICES ASSUME NEW i \in 1 .. Len(M), NEW j \in 1 .. Len(M),
                      M[i].object = M[j].object
               PROVE  i = j
    BY DEF Distinct
  <2>1. Len(L) \in Nat /\ Len(M) = Len(L) + 1
    BY <1>9, AppendProperties
  <2>2. \A k \in 1 .. Len(L) : M[k] = L[k] /\ L[k] \in ToSet(L)
    <3> SUFFICES ASSUME NEW k \in 1 .. Len(L) PROVE M[k] = L[k] /\ L[k] \in ToSet(L)
      OBVIOUS
    <3>1. M[k] = L[k]
      BY <1>9, AppendProperties
    <3>2. k \in DOMAIN L
      OBVIOUS
    <3> QED
      BY <3>1, <3>2 DEF ToSet
  <2>3. M[Len(L) + 1] = p /\ p.object = o
    BY <1>6, <1>9, AppendProperties
  <2>4. i \in 1 .. Len(L) \/ i = Len(L) + 1
    BY <2>1
  <2>5. j \in 1 .. Len(L) \/ j = Len(L) + 1
    BY <2>1
  <2>6. CASE i \in 1 .. Len(L) /\ j \in 1 .. Len(L)
    BY <2>2, <2>6 DEF Sound, Distinct
  <2>7. CASE i \in 1 .. Len(L) /\ j = Len(L) + 1
    BY <1>12, <2>2, <2>3, <2>7
  <2>8. CASE i = Len(L) + 1 /\ j \in 1 .. Len(L)
    BY <1>12, <2>2, <2>3, <2>8
  <2> QED
    BY <2>4, <2>5, <2>6, <2>7, <2>8
<1>16. Known(M, s)
  <2>1. p \in ToSet(M) /\ p.segment = Head(s)
    BY <1>4, <1>6, <1>11
  <2> QED
    BY <2>1 DEF Known
<1>17. Split(M, q, t, n, K \o <<s>>, Tail(U), d, m) /\ K \o <<s>> \in Seq(Segment)
  <2> DEFINE J == K \o <<s>>
  <2>1. q = J \o Tail(U) /\ J \in Seq(Segment)
    BY <1>1, <1>3, ConcatAssociative, ConcatProperties
  <2>2. \A x \in ToSet(J) : Known(M, x)
    <3>1. ToSet(J) = ToSet(K) \cup ToSet(<<s>>)
      <4>1. \A x, y \in Seq(Segment) : ToSet(x \o y) = ToSet(x) \cup ToSet(y)
        BY ToSetConcat
      <4>2. K \in Seq(Segment) /\ <<s>> \in Seq(Segment)
        BY <1>3
      <4> QED
        BY <4>1, <4>2, Zenon
    <3>2. ToSet(<<s>>) = {s}
      BY DEF ToSet
    <3>3. \A x \in ToSet(K) : Known(M, x)
      BY <1>1, <1>10, KnownMore
    <3> QED
      BY <1>16, <3>1, <3>2, <3>3
  <2>3. Tiles(Data(M), 0, d)
    <3>1. Data(L) \in Seq(Segment)
      BY PartData, DataType
    <3>2. Data(<<p>>) = <<s>>
      <4>1. Data(<<p>>) = <<p.data>>
        BY <1>9, OneDatum
      <4> QED
        BY <1>6, <4>1
    <3>3. Data(M) = Data(L) \o <<s>>
      <4>1. Data(L \o <<p>>) = Data(L) \o Data(<<p>>)
        BY <1>10, PartData, DataConcat
      <4> QED
        BY <1>10, <3>2, <4>1
    <3>4. Tiles(<<s>>, e, d)
      BY <1>2, OneTile
    <3>5. Tiles(Data(L) \o <<s>>, 0, d)
      BY <1>1, <1>3, <3>1, <3>4, TilesConcat
    <3> QED
      BY <3>3, <3>5
  <2> HIDE DEF J
  <2> QED
    BY <1>1, <1>2, <2>1, <2>2, <2>3 DEF Split, J
<1>18. Sound(M, [objects EXCEPT ![o] = s])
  BY <1>13, <1>14, <1>15 DEF Sound
<1>19. \E J \in Seq(Segment), y \in Nat : Split(M, q, t, n, J, Tail(U), y, m)
  BY <1>17
<1> QED
  BY <1>8, <1>9, <1>10, <1>12, <1>16, <1>18, <1>19 DEF s, Copied

-----------------------------------------------------------------------------
(***************************************************************************)
(* The log on its way to the store.  As long as the run is not deleted the *)
(* published index, the sealed segments and the tail make the whole log,   *)
(* with every part it lists in the store; and so does the local index,     *)
(* which the published one only extends, once the run is a complete one on *)
(* this Controller.  The worker keeps both while it copies.                *)
(***************************************************************************)
Published ==
  IF remote.index.saved THEN remote.index.logs
  ELSE IF remote.place = "published" THEN LegacyLogs(remote) ELSE <<>>

Stable == ~importing /\ files["experiment.json"] > 0

Extends(long, short) == \E rest \in Seq(PartType) : long = short \o rest

LogInv ==
  /\ index.saved \/ index = NoIndex
  /\ remote.index.saved \/ remote.index = NoIndex
  /\ ~remote.index.saved /\ remote.place = "published" => remote.objects[0] # <<>>
  /\ Sound(Published, remote.objects)
  /\ Whole(Published, sealed, tail, written)
  /\ Stable => /\ Whole(index.logs, sealed, tail, written)
               /\ Extends(Published, index.logs)
               /\ ~remote.index.saved => Published = index.logs

(* What is left to copy: segments that the index of the worker knows, and  *)
(* then all that it does not.                                              *)
Pending ==
  \E known, again, new \in Seq(Segment), e, m \in Nat :
    /\ Split(worker.logs, sealed, tail, written, known, new, e, m)
    /\ worker.segments = again \o new
    /\ \A s \in ToSet(again) : Known(worker.logs, s)

CopiedKnown == \A s \in worker.copiedLogs : Known(worker.logs, s)

CopyInv ==
  /\ ~deleted => LogInv
  /\ worker.pc \in {"importMark", "importFiles", "importIndex"} => worker.logs = Published
  /\ worker.pc = "importDone" => index.logs = Published
  /\ worker.pc = "open" /\ ~deleted => worker.logs = index.logs /\ Pending /\ CopiedKnown
  /\ worker.pc = "copy" /\ ~deleted =>
       /\ Sound(worker.logs, remote.objects) /\ Pending /\ CopiedKnown
       /\ Extends(worker.logs, Published) /\ Extends(worker.logs, index.logs)
  /\ worker.pc \in {"rename", "record"} => remote.index = Work /\ (~deleted => CopiedKnown)
  /\ worker.pc = "unlink" =>
       /\ index.saved /\ remote.index = index
       /\ \A s \in worker.copiedLogs : Known(index.logs, s)

(* The types of all this.                                                  *)
LEMMA LogTypes ==
  ASSUME TypeOK
  PROVE  /\ Published \in Seq(PartType) /\ index.logs \in Seq(PartType)
         /\ worker.logs \in Seq(PartType) /\ worker.segments \in Seq(Segment)
         /\ sealed \in Seq(Segment) /\ tail \in Seq(Events) /\ written \in Nat
         /\ remote.index.logs \in Seq(PartType)
         /\ remote.objects \in [Objects -> Seq(Events)]
<1>1. remote \in RemoteType /\ index \in IndexType /\ worker \in WorkerType
  BY DEF TypeOK
<1>2. remote.index \in IndexType /\ LegacyLogs(remote) \in Seq(PartType)
  BY <1>1, LegacyType DEF RemoteType
<1>3. remote.index.logs \in Seq(PartType) /\ index.logs \in Seq(PartType)
  BY <1>1, <1>2 DEF IndexType
<1>4. Published \in Seq(PartType)
  BY <1>2, <1>3 DEF Published
<1>5. sealed \in Seq(Segment) /\ tail \in Seq(Events) /\ written \in Nat
  BY ArchiveBounds DEF TypeOK
<1> QED
  BY <1>1, <1>3, <1>4, <1>5 DEF WorkerType, RemoteType

(* A log extends itself.                                                   *)
LEMMA ExtendsItself ==
  ASSUME NEW L \in Seq(PartType) PROVE Extends(L, L)
<1>1. L = L \o <<>> /\ <<>> \in Seq(PartType)
  BY ConcatEmptySeq
<1> QED
  BY <1>1 DEF Extends

(* A log that extends another still does when more is appended.            *)
LEMMA ExtendsFurther ==
  ASSUME NEW L \in Seq(PartType), NEW M \in Seq(PartType), NEW R \in Seq(PartType),
         Extends(M, L)
  PROVE  Extends(M \o R, L)
<1>1. PICK S \in Seq(PartType) : M = L \o S
  BY DEF Extends
<1>2. (L \o S) \o R = L \o (S \o R) /\ S \o R \in Seq(PartType)
  BY ConcatAssociative, ConcatProperties
<1> QED
  BY <1>1, <1>2 DEF Extends

(* A step that does not touch the log, or deletes the run, with the worker *)
(* out of the way.                                                         *)
LEMMA SameLog ==
  ASSUME LogInv, UNCHANGED <<remote, index, sealed, tail, written, importing>>,
         files'["experiment.json"] > 0 => files["experiment.json"] > 0
  PROVE  LogInv'
<1>1. Published' = Published
  BY DEF Published, LegacyLogs
<1>2. Stable' => Stable
  BY DEF Stable
<1> QED
  BY <1>1, <1>2 DEF LogInv

(* A step that leaves the worker with no work in progress.                 *)
LEMMA WorkerElsewhere ==
  ASSUME ~deleted' => LogInv',
         worker'.pc \notin {"importMark", "unlink"} \cup Importing \cup Copying
  PROVE  CopyInv'
  BY DEF CopyInv, Importing, Copying

(* A step that leaves worker and log alone, or deletes the run.            *)
LEMMA SameCopy ==
  ASSUME CopyInv, UNCHANGED <<worker, remote, index, sealed, tail, written, importing>>,
         deleted => deleted',
         files'["experiment.json"] > 0 => files["experiment.json"] > 0
  PROVE  CopyInv'
<1>1. ~deleted' => LogInv'
  BY SameLog DEF CopyInv
<1>2. Published' = Published /\ Work' = Work
  BY DEF Published, LegacyLogs, Work
<1>3. (Pending' <=> Pending) /\ (CopiedKnown' <=> CopiedKnown)
  BY DEF Pending, CopiedKnown
<1> QED
  BY <1>1, <1>2, <1>3 DEF CopyInv

(* The logs a run starts with: none, or one archived event.                *)
LEMMA WholeStart ==
  ASSUME NEW L \in Seq(PartType), NEW n \in Nat, Tiles(Data(L), 0, n)
  PROVE  Whole(L, <<>>, <<>>, n)
<1>1. Tiles(<<>>, n, n) /\ n <= n /\ <<>> = Chunk(n, n)
  BY EmptyTiles, ChunkType
<1>2. <<>> \in Seq(Segment) /\ <<>> = <<>> \o <<>> /\ ToSet(<<>>) = {}
  BY DEF ToSet
<1>3. Split(L, <<>>, <<>>, n, <<>>, <<>>, n, n)
  BY <1>1, <1>2 DEF Split
<1> QED
  BY <1>2, <1>3 DEF Whole

(* A run without an event is whole.                                        *)
LEMMA EmptyLog ==
  ASSUME NEW objects
  PROVE  <<>> \in Seq(PartType) /\ Sound(<<>>, objects) /\ Tiles(Data(<<>>), 0, 0)
<1>1. ToSet(<<>>) = {} /\ Len(<<>>) = 0 /\ <<>> \in Seq(PartType)
  BY DEF ToSet
<1>2. Data(<<>>) = <<>>
  <2>1. Data(<<>>) \in Seq(Segment) /\ Len(Data(<<>>)) = 0
    BY <1>1, PartData, DataType
  <2> QED
    BY <2>1, EmptySeq
<1> QED
  BY <1>1, <1>2, EmptyTiles DEF Sound, Distinct, Titled, Held

(* A run that was found in the store with its one event is whole.          *)
LEMMA OneEventLog ==
  ASSUME NEW objects, objects[0] = << 1 >>, NEW segment \in {0, 1}
  PROVE  LET L == <<Part(0, segment, << 1 >>)>>
         IN L \in Seq(PartType) /\ Sound(L, objects) /\ Tiles(Data(L), 0, 1)
<1> DEFINE p == Part(0, segment, << 1 >>)
           L == <<p>>
<1>1. p = [object |-> 0, segment |-> segment, data |-> << 1 >>]
  BY DEF Part
<1>2. << 1 >> \in Segment /\ Head(<< 1 >>) = 1
  BY ArchiveBounds DEF Segment, Events
<1>3. p \in PartType
  BY <1>1, <1>2, ArchiveBounds DEF PartType
<1> HIDE DEF p
<1>4. L \in Seq(PartType) /\ ToSet(L) = {p} /\ Len(L) = 1
  BY <1>3 DEF ToSet
<1>5. Chunk(0, 1) = << 1 >>
  <2>1. /\ Chunk(0, 1) \in Seq(Nat) /\ Len(Chunk(0, 1)) = 1 - 0
        /\ \A i \in 1 .. 1 - 0 : Chunk(0, 1)[i] = 0 + i
    <3>1. 0 \in Nat /\ 1 \in Nat /\ 0 <= 1
      OBVIOUS
    <3> QED
      BY <3>1, ChunkType
  <2>2. 1 - 0 = 1 /\ 1 \in 1 .. 1 - 0 /\ 0 + 1 = 1
    OBVIOUS
  <2>3. Chunk(0, 1)[1] = 1 /\ Len(Chunk(0, 1)) = 1
    BY <2>1, <2>2
  <2> QED
    BY <2>1, <2>3
<1>6. Tiles(Data(L), 0, 1)
  <2>1. Data(L) = <<<< 1 >>>>
    BY <1>1, <1>3, OneDatum
  <2> QED
    BY <1>5, <2>1, OneTile
<1>7. Sound(L, objects)
  <2>1. Distinct(L)
    BY <1>4 DEF Distinct
  <2>2. p.segment \in {0, Head(p.data)} /\ p.object \in {0, p.segment}
    BY <1>1, <1>2
  <2>3. objects[p.object] = p.data
    BY <1>1
  <2> QED
    BY <1>4, <2>1, <2>2, <2>3 DEF Sound, Titled, Held
<1> QED
  BY <1>4, <1>6, <1>7 DEF p

(* The log invariant at the start: a local, an archived and a legacy run.  *)
LEMMA InitCopy == Init => CopyInv
<1> SUFFICES ASSUME Init PROVE CopyInv
  OBVIOUS
<1>1. PICK origin \in Origins :
        LET here == origin = "local"
        IN /\ files = IF here THEN [None EXCEPT !["experiment.json"] = 1] ELSE None
           /\ written = IF here THEN 0 ELSE 1
           /\ remote = InitialRemote(origin)
  BY DEF Init
<1>2. /\ tail = <<>> /\ sealed = <<>> /\ index = NoIndex /\ index.logs = <<>>
      /\ worker.pc = "idle"
  BY DEF Init, IdleWorker, NoIndex
<1>3. CASE origin = "local"
  <2>1. remote = NoRemote /\ written = 0
    BY <1>1, <1>3 DEF InitialRemote
  <2>2. Published = <<>> /\ remote.index = NoIndex /\ remote.place # "published"
    BY <2>1 DEF Published, NoRemote, NoIndex
  <2>3. Sound(<<>>, remote.objects) /\ Whole(<<>>, <<>>, <<>>, 0) /\ Extends(<<>>, <<>>)
    BY EmptyLog, WholeStart, ExtendsItself
  <2>4. LogInv
    BY <1>2, <2>1, <2>2, <2>3 DEF LogInv
  <2> QED
    BY <1>2, <2>4 DEF CopyInv, Copying
<1>4. CASE origin # "local"
  <2> DEFINE saved == [saved |-> TRUE, logs |-> <<Part(0, 1, << 1 >>)>>,
                       files |-> [None EXCEPT !["experiment.json"] = 1]]
  <2>1. /\ remote.place = "published" /\ remote.objects[0] = << 1 >>
        /\ remote.index = IF origin = "legacy" THEN NoIndex ELSE saved
    <3> DEFINE start == IF origin = "legacy" THEN NoIndex ELSE saved
    <3>1. remote = [NoRemote EXCEPT !.place = "published", !.objects[0] = << 1 >>,
                                    !.experiment = 1, !.index = start]
      BY <1>1, <1>4 DEF InitialRemote
    <3> HIDE DEF start
    <3>2. 0 \in Objects
      BY ArchiveBounds
    <3>3. remote.place = "published" /\ remote.objects[0] = << 1 >> /\ remote.index = start
      BY <3>1, <3>2 DEF NoRemote
    <3> QED
      BY <3>3 DEF start
  <2>2. written = 1 /\ ~Stable
    BY <1>1, <1>4 DEF Stable, None
  <2>3. \E segment \in {0, 1} : Published = <<Part(0, segment, << 1 >>)>>
    <3>1. CASE origin = "legacy"
      <4>1. ~remote.index.saved
        BY <2>1, <3>1 DEF NoIndex
      <4>2. Published = LegacyLogs(remote)
        BY <2>1, <4>1 DEF Published
      <4>3. remote.objects[0] # <<>>
        BY <2>1
      <4>4. Published = <<Part(0, 0, << 1 >>)>>
        BY <2>1, <4>2, <4>3 DEF LegacyLogs
      <4> QED
        BY <4>4
    <3>2. CASE origin # "legacy"
      BY <2>1, <3>2 DEF Published
    <3> QED
      BY <3>1, <3>2
  <2>4. Sound(Published, remote.objects) /\ Whole(Published, <<>>, <<>>, 1)
    <3>1. PICK segment \in {0, 1} : Published = <<Part(0, segment, << 1 >>)>>
      BY <2>3
    <3>2. /\ Published \in Seq(PartType) /\ Sound(Published, remote.objects)
          /\ Tiles(Data(Published), 0, 1)
      BY <2>1, <3>1, OneEventLog
    <3> QED
      BY <3>2, WholeStart
  <2>5. /\ remote.index.saved \/ remote.index = NoIndex
        /\ remote.objects[0] # <<>>
    BY <2>1
  <2>6. LogInv
    BY <1>2, <2>2, <2>4, <2>5 DEF LogInv
  <2> QED
    BY <1>2, <2>6 DEF CopyInv, Copying
<1> QED
  BY <1>3, <1>4

(* Telemetry appends to the tail; files do not matter to the log.          *)
LEMMA WritersCopy ==
  BaseInv /\ CopyInv /\ (persistEvents \/ persistExperiment \/ saveAnalysisJob) => CopyInv'
<1> SUFFICES ASSUME BaseInv, CopyInv
             PROVE persistEvents \/ persistExperiment \/ saveAnalysisJob => CopyInv'
  OBVIOUS
<1> USE DEF BaseInv
<1>1. CASE persistEvents
  <2>1. /\ tail' = Append(tail, written + 1) /\ written' = written + 1 /\ ~Locked /\ ~deleted
        /\ UNCHANGED <<sealed, files, index, importing, deleted, remote, worker>>
    BY <1>1 DEF persistEvents
  <2>2. written \in Nat
    BY LogTypes
  <2>3. ASSUME NEW L, Whole(L, sealed, tail, written)
        PROVE  Whole(L, sealed, tail', written')
    <3>1. PICK K, U \in Seq(Segment), e, m \in Nat : Split(L, sealed, tail, written, K, U, e, m)
      BY <2>3 DEF Whole
    <3>2. Split(L, sealed, tail', written', K, U, e, m)
      BY <2>1, <2>2, <3>1, WholeGrows
    <3> QED
      BY <3>2 DEF Whole
  <2>4. Pending => Pending'
    <3> SUFFICES ASSUME Pending PROVE Pending'
      OBVIOUS
    <3>1. PICK K, X, U \in Seq(Segment), e, m \in Nat :
            /\ Split(worker.logs, sealed, tail, written, K, U, e, m)
            /\ worker.segments = X \o U
            /\ \A s \in ToSet(X) : Known(worker.logs, s)
      BY DEF Pending
    <3>2. Split(worker.logs, sealed, tail', written', K, U, e, m)
      BY <2>1, <2>2, <3>1, WholeGrows
    <3>3. /\ Split(worker'.logs, sealed', tail', written', K, U, e, m)
          /\ worker'.segments = X \o U
          /\ \A s \in ToSet(X) : Known(worker'.logs, s)
      BY <2>1, <3>1, <3>2
    <3> QED
      BY <3>3 DEF Pending
  <2>5. Published' = Published /\ Stable' = Stable /\ CopiedKnown' = CopiedKnown /\ Work' = Work
    BY <2>1 DEF Published, LegacyLogs, Stable, CopiedKnown, Work
  <2>6. LogInv
    BY <2>1 DEF CopyInv
  <2>7. LogInv'
    BY <2>1, <2>3, <2>5, <2>6 DEF LogInv
  <2>8. worker.pc \notin {"importFiles", "importIndex", "importDone", "unlink"}
    BY <2>1 DEF Locked
  <2> QED
    BY <2>1, <2>4, <2>5, <2>7, <2>8 DEF CopyInv
<1>2. CASE persistExperiment
  <2>1. files["experiment.json"] > 0
    BY <1>2 DEF persistExperiment, ControlInv
  <2> QED
    BY <1>2, <2>1, SameCopy DEF persistExperiment, saveFile
<1>3. CASE saveAnalysisJob
  <2>1. files'["experiment.json"] = files["experiment.json"]
    BY <1>3 DEF saveAnalysisJob, saveFile, TypeOK, Versions
  <2> QED
    BY <1>3, <2>1, SameCopy DEF saveAnalysisJob, saveFile
<1> QED
  BY <1>1, <1>2, <1>3

(* The steps that leave the log alone and the worker out of the way.       *)
LEMMA OtherCopy ==
  BaseInv /\ CopyInv /\
    (\/ StartCycle \/ importArchivedRuns \/ Clean \/ takePending \/ sealNotFound
     \/ allUnlinked \/ dequeue \/ workerFails \/ (\E r \in Readers : Read(r))
     \/ deleteSavedResult \/ controllerRestarts)
  => CopyInv'
<1> SUFFICES ASSUME BaseInv, CopyInv
    PROVE (\/ StartCycle \/ importArchivedRuns \/ Clean \/ takePending \/ sealNotFound
           \/ allUnlinked \/ dequeue \/ workerFails \/ (\E r \in Readers : Read(r))
           \/ deleteSavedResult \/ controllerRestarts) => CopyInv'
  OBVIOUS
<1> USE DEF BaseInv
<1>t. worker \in WorkerType /\ \A step : [worker EXCEPT !.pc = step].pc = step
  BY DEF TypeOK, WorkerType
<1> DEFINE Apart == worker'.pc \notin {"importMark", "unlink"} \cup Importing \cup Copying
           Kept == UNCHANGED <<remote, index, sealed, tail, written, importing, files, deleted>>
<1>a. ASSUME Apart, Kept PROVE CopyInv'
  <2>1. ~deleted' => LogInv'
    <3>1. ~deleted' => LogInv
      BY <1>a DEF CopyInv
    <3> QED
      BY <1>a, <3>1, SameLog
  <2> QED
    BY <1>a, <2>1, WorkerElsewhere
<1>1. CASE StartCycle
  <2>1. Apart
    BY <1>1, <1>t DEF StartCycle, Go, Importing, Copying
  <2>2. Kept
    BY <1>1 DEF StartCycle, disk
  <2> QED
    BY <1>a, <2>1, <2>2
<1>2. CASE importArchivedRuns
  <2>1. Apart
    BY <1>2, <1>t DEF importArchivedRuns, Discovered, Go, Importing, Copying
  <2>2. Kept
    BY <1>2 DEF importArchivedRuns, disk
  <2> QED
    BY <1>a, <2>1, <2>2
<1>3. CASE cleanDeletedArchives \/ noteRemoval
  <2>1. Apart
    BY <1>3, <1>t DEF cleanDeletedArchives, noteRemoval, Go, Importing, Copying
  <2>2. Kept
    BY <1>3 DEF cleanDeletedArchives, noteRemoval, disk
  <2> QED
    BY <1>a, <2>1, <2>2
<1>4. CASE removeArchive
  <2>1. Apart
    BY <1>4, <1>t DEF removeArchive, Go, Importing, Copying
  <2>2. deleted'
    BY <1>4 DEF removeArchive, disk, ControlInv
  <2> QED
    BY <2>1, <2>2, WorkerElsewhere
<1>5. CASE takePending
  <2>1. Apart
    <3>1. CASE queued /\ archiveIdle
      <4>1. worker' = [worker EXCEPT !.pc = "seal"]
        BY <1>5, <3>1 DEF takePending, Go
      <4> QED
        BY <4>1, <1>t DEF Importing, Copying
    <3>2. CASE ~(queued /\ archiveIdle)
      BY <1>5, <3>2 DEF takePending, Rest, IdleWorker, Importing, Copying
    <3> QED
      BY <3>1, <3>2
  <2>2. Kept
    BY <1>5 DEF takePending, disk
  <2> QED
    BY <1>a, <2>1, <2>2
<1>6. CASE sealNotFound \/ allUnlinked
  <2>1. Apart
    BY <1>6, <1>t DEF sealNotFound, allUnlinked, Go, Importing, Copying
  <2>2. Kept
    BY <1>6 DEF sealNotFound, allUnlinked, disk
  <2> QED
    BY <1>a, <2>1, <2>2
<1>7. CASE dequeue \/ workerFails
  <2>1. Apart
    BY <1>7 DEF dequeue, workerFails, Rest, IdleWorker, Importing, Copying
  <2>2. Kept
    BY <1>7 DEF dequeue, workerFails, disk
  <2> QED
    BY <1>a, <2>1, <2>2
<1>8. ASSUME NEW r \in Readers, Read(r) PROVE CopyInv'
  <2>1. UNCHANGED <<worker, remote, index, sealed, tail, written, importing, files, deleted>>
    BY <1>8 DEF Read, captureResultFiles, pinArchive, resolveArchivedFiles, closeSnapshot, disk
  <2> QED
    BY <2>1, SameCopy
<1>9. CASE deleteSavedResult
  <2>1. deleted' = TRUE /\ ~Locked /\ UNCHANGED <<worker, remote>>
    BY <1>9 DEF deleteSavedResult
  <2>2. worker.pc \notin {"importFiles", "importIndex", "importDone", "unlink"}
    BY <2>1 DEF Locked
  <2>3. Published' = Published /\ Work' = Work
    BY <2>1 DEF Published, LegacyLogs, Work
  <2> QED
    BY <2>1, <2>2, <2>3 DEF CopyInv
<1>10. CASE controllerRestarts
  <2>1. Apart
    BY <1>10 DEF controllerRestarts, IdleWorker, Importing, Copying
  <2>2. Kept
    BY <1>10 DEF controllerRestarts, disk
  <2> QED
    BY <1>a, <2>1, <2>2
<1> QED
  BY <1>1, <1>2, <1>3, <1>4, <1>5, <1>6, <1>7, <1>8, <1>9, <1>10 DEF Clean

(* The import of an archived run.                                          *)
LEMMA ImportCopy ==
  BaseInv /\ CopyInv /\ (readArchivedRun \/ markImport \/ importFiles \/ importIndex \/ importDone)
    => CopyInv'
<1> SUFFICES ASSUME BaseInv, CopyInv
    PROVE readArchivedRun \/ markImport \/ importFiles \/ importIndex \/ importDone => CopyInv'
  OBVIOUS
<1> USE DEF BaseInv
<1>t. worker \in WorkerType /\ \A step : [worker EXCEPT !.pc = step].pc = step
  BY DEF TypeOK, WorkerType
<1>g. ASSUME NEW step, worker' = [worker EXCEPT !.pc = step]
      PROVE  worker'.pc = step /\ worker'.logs = worker.logs
  BY <1>g DEF TypeOK, WorkerType
<1>1. CASE readArchivedRun
  <2>1. ~deleted' => LogInv'
    BY <1>1, SameLog DEF readArchivedRun, disk, CopyInv
  <2>2. remote' = remote /\ remote.place = "published" /\ Published' = Published
    BY <1>1 DEF readArchivedRun, ControlInv, Published, LegacyLogs
  <2>3. CASE Discovered
    <3>1. worker'.pc = "clean"
      BY <2>3, <1>t DEF Discovered, Go
    <3> QED
      BY <2>1, <3>1, WorkerElsewhere DEF Importing, Copying
  <2>4. CASE worker' = [worker EXCEPT
              !.pc = "importMark",
              !.logs = IF remote.index.saved THEN remote.index.logs ELSE LegacyLogs(remote),
              !.files = remote.index.files,
              !.experiment = remote.experiment,
              !.fresh = ~remote.index.saved]
    <3>1. worker'.pc = "importMark" /\ worker'.logs = Published
      BY <2>2, <2>4, <1>t DEF WorkerType, Published
    <3> QED
      BY <2>1, <2>2, <3>1 DEF CopyInv, Copying
  <2> QED
    BY <1>1, <2>3, <2>4 DEF readArchivedRun
<1>2. CASE markImport
  <2>1. UNCHANGED <<tail, sealed, files, index, deleted, remote, written>>
        /\ worker.pc = "importMark"
    BY <1>2 DEF markImport
  <2>2. Published' = Published /\ worker.logs = Published
    BY <2>1 DEF Published, LegacyLogs, CopyInv
  <2>3. Stable' => Stable
    <3>1. importing' = importing \/ importing' = TRUE
      BY <1>2 DEF markImport
    <3> QED
      BY <2>1, <3>1 DEF Stable
  <2>4. ~deleted' => LogInv'
    BY <2>1, <2>2, <2>3 DEF CopyInv, LogInv
  <2>5. worker'.pc = "clean" \/ (worker'.pc = "importFiles" /\ worker'.logs = worker.logs)
    <3>1. worker' = [worker EXCEPT !.pc = "clean"] \/ worker' = [worker EXCEPT !.pc = "importFiles"]
      BY <1>2 DEF markImport, Discovered, Go
    <3> QED
      BY <3>1, <1>g
  <2> QED
    BY <2>2, <2>4, <2>5 DEF CopyInv, Copying
<1>3. CASE importFiles
  <2>1. UNCHANGED <<tail, sealed, index, importing, deleted, remote, written>>
        /\ worker.pc = "importFiles" /\ importing
    BY <1>3 DEF importFiles, ControlInv, Importing
  <2>2. Published' = Published /\ worker.logs = Published /\ ~Stable'
    BY <2>1 DEF Published, LegacyLogs, CopyInv, Stable
  <2>3. ~deleted' => LogInv'
    BY <2>1, <2>2 DEF CopyInv, LogInv
  <2>4. worker'.pc = "importIndex" /\ worker'.logs = worker.logs
    BY <1>3, <1>t DEF importFiles, WorkerType
  <2> QED
    BY <2>2, <2>3, <2>4 DEF CopyInv, Copying
<1>4. CASE importIndex
  <2>1. UNCHANGED <<tail, sealed, files, importing, deleted, remote, written>>
        /\ worker.pc = "importIndex" /\ importing /\ index'.saved /\ index'.logs = worker.logs
    BY <1>4 DEF importIndex, ControlInv, Importing
  <2>2. Published' = Published /\ worker.logs = Published /\ ~Stable'
    BY <2>1 DEF Published, LegacyLogs, CopyInv, Stable
  <2>3. ~deleted' => LogInv'
    BY <2>1, <2>2 DEF CopyInv, LogInv
  <2>4. worker'.pc = "importDone"
    BY <1>4, <1>t DEF importIndex, Go
  <2> QED
    BY <2>1, <2>2, <2>3, <2>4 DEF CopyInv, Copying
<1>5. CASE importDone
  <2>1. UNCHANGED <<tail, sealed, files, index, deleted, remote, written>>
        /\ worker.pc = "importDone" /\ ~deleted
    BY <1>5 DEF importDone, ControlInv, Importing
  <2>2. Published' = Published /\ index.logs = Published /\ LogInv
    BY <2>1 DEF Published, LegacyLogs, CopyInv
  <2>3. Extends(Published, index.logs)
    BY <2>2, LogTypes, ExtendsItself
  <2>4. LogInv'
    BY <2>1, <2>2, <2>3 DEF LogInv
  <2>5. worker'.pc = "clean"
    BY <1>5, <1>t DEF importDone, Discovered, Go
  <2> QED
    BY <2>4, <2>5, WorkerElsewhere DEF Importing, Copying
<1> QED
  BY <1>1, <1>2, <1>3, <1>4, <1>5

(* Sealing: both indexes stay whole when the tail becomes a segment, and   *)
(* the worker sets out to copy what the local index does not know.         *)
LEMMA SealCopy == BaseInv /\ CopyInv /\ (sealLogs \/ sealBusy) => CopyInv'
<1> SUFFICES ASSUME BaseInv, CopyInv PROVE sealLogs \/ sealBusy => CopyInv'
  OBVIOUS
<1> USE DEF BaseInv
<1>t. worker \in WorkerType /\ \A step : [worker EXCEPT !.pc = step].pc = step
  BY DEF TypeOK, WorkerType
<1>w. ASSUME NEW L, Whole(L, sealed, tail, written) PROVE Whole(L, Sealed, <<>>, written)
  <2>1. PICK K, U \in Seq(Segment), e, m \in Nat : Split(L, sealed, tail, written, K, U, e, m)
    BY <1>w DEF Whole
  <2>2. PICK V \in Seq(Segment) : Split(L, Sealed, <<>>, written, K, V, e, written)
    <3>1. tail \in Seq(Events) /\ written \in Nat
      BY LogTypes
    <3> QED
      BY <2>1, <3>1, WholeSealed DEF Sealed
  <2>3. written \in Nat
    BY LogTypes
  <2> QED
    BY <2>2, <2>3 DEF Whole
<1>l. ASSUME sealed' = Sealed, tail' = <<>>, LogInv,
             UNCHANGED <<files, index, importing, deleted, remote, written>>
      PROVE  LogInv'
  <2>1. Published' = Published /\ Stable' = Stable
    BY <1>l DEF Published, LegacyLogs, Stable
  <2> QED
    BY <1>l, <1>w, <2>1 DEF LogInv
<1>1. CASE sealBusy
  <2>1. /\ UNCHANGED <<files, index, importing, deleted, remote, written>>
        /\ UNCHANGED <<tail, sealed>> \/ (tail' = <<>> /\ sealed' = Sealed)
        /\ ~deleted
    BY <1>1 DEF sealBusy
  <2>2. LogInv'
    BY <2>1, <1>l, SameLog DEF CopyInv
  <2>3. worker'.pc = "idle"
    BY <1>1 DEF sealBusy, Rest, IdleWorker
  <2> QED
    BY <2>2, <2>3, WorkerElsewhere DEF Importing, Copying
<1>2. CASE sealLogs
  <2> DEFINE old == {s \in ToSet(Sealed) : Known(index.logs, s)}
             new == Keep(Sealed, ToSet(Sealed) \ old)
             next == IF ChangedFiles = {} /\ CopiedFiles = {} /\ old = {} /\ new = <<>>
                     THEN "dequeue" ELSE "open"
  <2>1. /\ worker' = [worker EXCEPT
                        !.pc = next, !.logs = index.logs, !.files = index.files,
                        !.pinned = files, !.segments = new, !.todo = ChangedFiles,
                        !.copied = CopiedFiles, !.copiedLogs = old]
        /\ tail' = <<>> /\ sealed' = Sealed /\ ~deleted /\ ~importing
        /\ files["experiment.json"] > 0
        /\ UNCHANGED <<files, index, importing, deleted, remote, written>>
    BY <1>2 DEF sealLogs
  <2>2. LogInv /\ LogInv'
    BY <2>1, <1>l DEF CopyInv
  <2>3. Whole(index.logs, sealed', <<>>, written) /\ Titled(index.logs)
    <3>1. Stable /\ Whole(index.logs, sealed, tail, written) /\ Extends(Published, index.logs)
      BY <2>1, <2>2 DEF Stable, LogInv
    <3>2. PICK R \in Seq(PartType) : Published = index.logs \o R
      BY <3>1 DEF Extends
    <3>3. Sound(index.logs, remote.objects)
      BY <2>2, <3>2, LogTypes, PrefixSound DEF LogInv
    <3> QED
      BY <2>1, <3>1, <3>3, <1>w DEF Sound
  <2>4. PICK K, U \in Seq(Segment), e, m \in Nat :
          Split(index.logs, sealed', <<>>, written, K, U, e, m)
    BY <2>3 DEF Whole
  <2>5. new = U
    <3>1. \A s \in ToSet(Sealed) : s \in ToSet(Sealed) \ old <=> ~Known(index.logs, s)
      OBVIOUS
    <3>2. index.logs \in Seq(PartType)
      BY LogTypes
    <3>3. ASSUME NEW S, \A s \in ToSet(sealed') : s \in S <=> ~Known(index.logs, s)
          PROVE  Keep(sealed', S) = U
      BY <2>3, <2>4, <3>2, <3>3, SplitUnknown
    <3> QED
      BY <2>1, <3>1, <3>3
  <2>6. \A s \in old : Known(index.logs, s)
    OBVIOUS
  <2>7. next \in {"dequeue", "open"}
    OBVIOUS
  <2> HIDE DEF old, new, next
  <2>8. /\ worker'.pc = next /\ worker'.logs = index.logs /\ worker'.segments = U
        /\ worker'.copiedLogs = old
    BY <2>1, <2>5, <1>t DEF WorkerType
  <2>9. CopiedKnown'
    BY <2>6, <2>8 DEF CopiedKnown
  <2>10. Pending'
    <3>1. <<>> \in Seq(Segment) /\ U = <<>> \o U /\ ToSet(<<>>) = {}
      BY ConcatEmptySeq DEF ToSet
    <3>2. /\ Split(worker'.logs, sealed', tail', written', K, U, e, m)
          /\ worker'.segments = <<>> \o U
          /\ \A s \in ToSet(<<>>) : Known(worker'.logs, s)
      BY <2>1, <2>4, <2>8, <3>1
    <3> QED
      BY <3>1, <3>2 DEF Pending
  <2>11. worker'.logs = index'.logs
    BY <2>1, <2>8
  <2> QED
    BY <2>2, <2>7, <2>8, <2>9, <2>10, <2>11 DEF CopyInv
<1> QED
  BY <1>1, <1>2

(* Opening the archive: the worker goes on from what is published.         *)
LEMMA OpenCopy == BaseInv /\ CopyInv /\ openRemote => CopyInv'
<1> SUFFICES ASSUME BaseInv, CopyInv, openRemote PROVE CopyInv'
  OBVIOUS
<1> USE DEF BaseInv
<1>1. /\ worker.pc = "open"
      /\ remote' = [remote EXCEPT !.place = IF @ = "none" THEN "incoming" ELSE @]
      /\ UNCHANGED <<dir, tail, sealed, files, index, importing, deleted, written>>
  BY DEF openRemote, disk
<1>2. /\ worker'.pc = "copy" /\ worker'.logs = Merged(worker.logs, remote.index.logs)
      /\ worker'.segments = worker.segments /\ worker'.copiedLogs = worker.copiedLogs
  <2>1. worker' = [worker EXCEPT
        !.pc = "copy",
        !.fresh = remote.place # "published",
        !.logs = Merged(@, remote.index.logs),
        !.files = [f \in Names |-> IF @[f] = 0 THEN remote.index.files[f] ELSE @[f]]]
    BY DEF openRemote
  <2> QED
    BY <2>1 DEF TypeOK, WorkerType
<1>3. CASE deleted
  BY <1>1, <1>2, <1>3 DEF CopyInv, Importing, Copying
<1>4. CASE ~deleted
  <2>1. /\ remote'.index = remote.index /\ remote'.objects = remote.objects
        /\ remote'.place = "published" <=> remote.place = "published"
    BY <1>1 DEF TypeOK, RemoteType
  <2>2. Published' = Published /\ Stable' = Stable
    BY <1>1, <2>1 DEF Published, LegacyLogs, Stable
  <2>3. LogInv /\ worker.logs = index.logs /\ Pending /\ CopiedKnown /\ Stable
    BY <1>1, <1>4 DEF CopyInv, ControlInv, Copying, Stable
  <2>4. LogInv'
    BY <1>1, <2>1, <2>2, <2>3 DEF LogInv
  <2>5. PICK R \in Seq(PartType) : Published = index.logs \o R
    BY <2>3 DEF LogInv, Extends
  <2>6. index.logs \in Seq(PartType) /\ Published \in Seq(PartType)
    BY LogTypes
  <2>7. worker'.logs = Published
    <3>1. CASE remote.index.saved
      <4>1. remote.index.logs = index.logs \o R /\ Distinct(index.logs \o R)
        BY <2>3, <2>5, <3>1 DEF Published, LogInv, Sound
      <4>2. Merged(index.logs, index.logs \o R) = index.logs \o R
        BY <2>6, <4>1, MergedPublished
      <4> QED
        BY <1>2, <2>3, <2>5, <4>1, <4>2
    <3>2. CASE ~remote.index.saved
      <4>1. remote.index = NoIndex /\ Published = index.logs
        BY <2>3, <3>2 DEF LogInv
      <4>2. remote.index.logs = <<>>
        BY <4>1 DEF NoIndex
      <4>3. <<>> \in Seq(PartType) /\ index.logs \o <<>> = index.logs
        BY <2>6, ConcatEmptySeq
      <4>4. Distinct(index.logs)
        BY <2>3, <4>1 DEF LogInv, Sound
      <4>5. Merged(index.logs, <<>>) = index.logs
        BY <2>6, KeepEmpty, ConcatEmptySeq DEF Merged
      <4> QED
        BY <1>2, <2>3, <4>1, <4>2, <4>5
    <3> QED
      BY <3>1, <3>2
  <2>8. Extends(Published, Published) /\ Extends(Published, index.logs)
    BY <2>3, <2>6, ExtendsItself DEF LogInv
  <2>9. CopiedKnown'
    <3>1. \A s : Known(index.logs, s) => Known(Published, s)
      BY <2>5, <2>6, KnownMore
    <3> QED
      BY <1>2, <2>3, <2>7, <3>1 DEF CopiedKnown
  <2>10. Pending'
    <3>1. PICK K, X, U \in Seq(Segment), e, m \in Nat :
            /\ Split(index.logs, sealed, tail, written, K, U, e, m)
            /\ worker.segments = X \o U
            /\ \A s \in ToSet(X) : Known(index.logs, s)
      BY <2>3 DEF Pending
    <3>2. PICK J, V \in Seq(Segment), d, k \in Nat :
            Split(Published, sealed, tail, written, J, V, d, k)
      BY <2>3 DEF LogInv, Whole
    <3>3. PICK Y \in Seq(Segment) : Joined(U, Y, V) /\ \A s \in ToSet(Y) : Known(Published, s)
      <4>1. Titled(index.logs \o R)
        BY <2>3, <2>5 DEF LogInv, Sound
      <4>2. Split(index.logs \o R, sealed, tail, written, J, V, d, k)
        BY <2>5, <3>2
      <4>3. \E Y \in Seq(Segment) :
              Joined(U, Y, V) /\ \A s \in ToSet(Y) : Known(index.logs \o R, s)
        BY <2>6, <3>1, <4>1, <4>2, LaterSplit
      <4> QED
        BY <2>5, <4>3
    <3>4. X \o Y \in Seq(Segment) /\ worker.segments = (X \o Y) \o V
      <4>1. (X \o Y) \o V = X \o (Y \o V)
        BY ConcatAssociative, SMTT(30)
      <4>2. X \o Y \in Seq(Segment)
        OBVIOUS
      <4> QED
        BY <3>1, <3>3, <4>1, <4>2 DEF Joined
    <3>5. \A s \in ToSet(X \o Y) : Known(Published, s)
      <4>1. ToSet(X \o Y) = ToSet(X) \cup ToSet(Y)
        BY ToSetConcat
      <4>2. \A s : Known(index.logs, s) => Known(Published, s)
        BY <2>5, <2>6, KnownMore
      <4> QED
        BY <3>1, <3>3, <4>1, <4>2
    <3> DEFINE Z == X \o Y
    <3>6. /\ Z \in Seq(Segment)
          /\ Split(worker'.logs, sealed', tail', written', J, V, d, k)
          /\ worker'.segments = Z \o V
          /\ \A s \in ToSet(Z) : Known(worker'.logs, s)
      BY <1>1, <1>2, <2>7, <3>2, <3>4, <3>5
    <3> HIDE DEF Z
    <3> QED
      BY <3>6 DEF Pending
  <2>11. Sound(worker'.logs, remote'.objects)
    BY <2>1, <2>3, <2>7 DEF LogInv
  <2>12. Extends(worker'.logs, Published') /\ Extends(worker'.logs, index'.logs)
    BY <1>1, <2>2, <2>7, <2>8
  <2> QED
    BY <1>2, <2>4, <2>9, <2>10, <2>11, <2>12 DEF CopyInv
<1> QED
  BY <1>3, <1>4

(* The head and the tail of a concatenation.                               *)
LEMMA HeadOfConcat ==
  ASSUME NEW T, NEW x \in Seq(T), NEW y \in Seq(T), x # <<>>
  PROVE  x \o y # <<>> /\ Head(x \o y) = Head(x) /\ Tail(x \o y) = Tail(x) \o y
<1> DEFINE s == x \o y
<1>1. Len(x) \in Nat /\ Len(y) \in Nat /\ Len(x) > 0
  BY EmptySeq
<1>2. /\ s \in Seq(T) /\ Len(s) = Len(x) + Len(y)
      /\ \A i \in 1 .. Len(x) + Len(y) : s[i] = IF i <= Len(x) THEN x[i] ELSE y[i - Len(x)]
  BY ConcatProperties
<1>3. /\ Tail(x) \in Seq(T) /\ Len(Tail(x)) = Len(x) - 1
      /\ \A i \in 1 .. Len(Tail(x)) : Tail(x)[i] = x[i + 1]
  BY HeadTailProperties
<1> HIDE DEF s
<1>4. s # <<>>
  BY <1>1, <1>2, EmptySeq
<1>5. /\ Tail(s) \in Seq(T) /\ Len(Tail(s)) = Len(s) - 1
      /\ \A i \in 1 .. Len(Tail(s)) : Tail(s)[i] = s[i + 1]
  BY <1>2, <1>4, HeadTailProperties
<1> DEFINE r == Tail(x) \o y
<1>6. /\ r \in Seq(T) /\ Len(r) = (Len(x) - 1) + Len(y)
      /\ \A i \in 1 .. (Len(x) - 1) + Len(y) :
           r[i] = IF i <= Len(x) - 1 THEN Tail(x)[i] ELSE y[i - (Len(x) - 1)]
  BY <1>3, ConcatProperties
<1> HIDE DEF r
<1>7. Head(s) = Head(x)
  <2>1. 1 \in 1 .. Len(x) + Len(y) /\ 1 <= Len(x)
    BY <1>1
  <2>2. s[1] = x[1]
    BY <1>2, <2>1
  <2> QED
    BY <1>2, <1>4, <2>2
<1>8. ASSUME NEW i \in 1 .. (Len(x) - 1) + Len(y) PROVE Tail(s)[i] = r[i]
  <2>1. i \in 1 .. Len(Tail(s)) /\ i + 1 \in 1 .. Len(x) + Len(y)
    BY <1>1, <1>2, <1>5
  <2>2. Tail(s)[i] = IF i + 1 <= Len(x) THEN x[i + 1] ELSE y[(i + 1) - Len(x)]
    BY <1>2, <1>5, <2>1
  <2>3. CASE i + 1 <= Len(x)
    <3>1. i <= Len(x) - 1 /\ i \in 1 .. Len(Tail(x))
      BY <1>1, <1>3, <2>3
    <3>2. r[i] = Tail(x)[i] /\ Tail(x)[i] = x[i + 1]
      BY <1>3, <1>6, <3>1
    <3> QED
      BY <2>2, <2>3, <3>2, Zenon
  <2>4. CASE ~(i + 1 <= Len(x))
    <3>1. ~(i <= Len(x) - 1) /\ i - (Len(x) - 1) = (i + 1) - Len(x)
      BY <1>1, <2>4
    <3>2. r[i] = y[(i + 1) - Len(x)]
      BY <1>6, <3>1
    <3> QED
      BY <2>2, <2>4, <3>2, Zenon
  <2> QED
    BY <2>3, <2>4
<1>9. Tail(s) = r
  <2>1. Len(Tail(s)) = (Len(x) - 1) + Len(y)
    BY <1>1, <1>2, <1>5
  <2> QED
    BY <1>5, <1>6, <1>8, <2>1, SeqEqual
<1> QED
  BY <1>4, <1>7, <1>9 DEF s, r

(* Copying a segment: one that is known already is passed over, one that   *)
(* is not goes on where the index of the worker ends.                      *)
LEMMA SegmentCopy == BaseInv /\ CopyInv /\ copySegment => CopyInv'
<1> SUFFICES ASSUME BaseInv, CopyInv, copySegment PROVE CopyInv'
  OBVIOUS
<1> USE DEF BaseInv
<1> DEFINE s == Head(worker.segments)
           o == ObjectOf(worker.logs, s)
           p == Part(o, Head(s), s)
<1>1. /\ worker.pc = "copy" /\ worker.segments # <<>>
      /\ UNCHANGED <<dir, tail, sealed, files, index, importing, deleted, written>>
  BY DEF copySegment, disk
<1>2. worker \in WorkerType /\ remote \in RemoteType
  BY DEF TypeOK
<1>3. \/ /\ Known(worker.logs, s) /\ remote' = remote
         /\ worker' = [worker EXCEPT !.segments = Tail(@), !.copiedLogs = @ \cup {s}]
      \/ /\ ~Known(worker.logs, s) /\ remote' = [remote EXCEPT !.objects[o] = s]
         /\ worker' = [worker EXCEPT !.segments = Tail(@), !.copiedLogs = @ \cup {s},
                                     !.logs = Append(@, p)]
  BY DEF copySegment
<1> HIDE DEF s, o, p
<1>4. worker'.pc = "copy"
  BY <1>1, <1>2, <1>3 DEF WorkerType
<1>5. CASE deleted
  BY <1>1, <1>4, <1>5 DEF CopyInv, Importing, Copying
<1>6. CASE ~deleted /\ Known(worker.logs, s)
  <2>1. /\ remote' = remote /\ worker'.logs = worker.logs
        /\ worker'.segments = Tail(worker.segments)
        /\ worker'.copiedLogs = worker.copiedLogs \cup {s}
    BY <1>2, <1>3, <1>6 DEF WorkerType
  <2>2. /\ LogInv /\ Sound(worker.logs, remote.objects) /\ Pending /\ CopiedKnown
        /\ Extends(worker.logs, Published) /\ Extends(worker.logs, index.logs)
    BY <1>1, <1>6 DEF CopyInv
  <2>3. LogInv' /\ Published' = Published
    BY <1>1, <2>1, <2>2, SameLog DEF Published, LegacyLogs
  <2>4. CopiedKnown'
    BY <1>6, <2>1, <2>2 DEF CopiedKnown
  <2>5. Pending'
    <3>1. PICK K, X, U \in Seq(Segment), e, m \in Nat :
            /\ Split(worker.logs, sealed, tail, written, K, U, e, m)
            /\ worker.segments = X \o U
            /\ \A z \in ToSet(X) : Known(worker.logs, z)
      BY <2>2 DEF Pending
    <3>2. X # <<>>
      <4> SUFFICES ASSUME X = <<>> PROVE FALSE
        OBVIOUS
      <4>1. worker.segments = U
        BY <3>1, ConcatEmptySeq
      <4>2. s \in ToSet(U)
        BY <1>1, <4>1, HeadThenTail DEF s
      <4>3. \A z \in ToSet(U) : ~Known(worker.logs, z)
        BY <2>2, <3>1, LogTypes, SplitNames DEF Sound
      <4> QED
        BY <1>6, <4>2, <4>3
    <3>3. /\ Tail(X \o U) = Tail(X) \o U
          /\ Tail(X) \in Seq(Segment) /\ ToSet(Tail(X)) \subseteq ToSet(X)
      BY <3>2, HeadOfConcat, HeadThenTail, ZenonT(30)
    <3> DEFINE Y == Tail(X)
    <3>4. /\ Y \in Seq(Segment)
          /\ Split(worker'.logs, sealed', tail', written', K, U, e, m)
          /\ worker'.segments = Y \o U
          /\ \A z \in ToSet(Y) : Known(worker'.logs, z)
      BY <1>1, <2>1, <3>1, <3>3
    <3> HIDE DEF Y
    <3> QED
      BY <3>4 DEF Pending
  <2>6. /\ Sound(worker'.logs, remote'.objects)
        /\ Extends(worker'.logs, Published') /\ Extends(worker'.logs, index'.logs)
    BY <1>1, <2>1, <2>2, <2>3
  <2> QED
    BY <1>4, <2>3, <2>4, <2>5, <2>6 DEF CopyInv
<1>7. CASE ~deleted /\ ~Known(worker.logs, s)
  <2> DEFINE L == worker.logs
             M == worker'.logs
  <2>1. /\ remote' = [remote EXCEPT !.objects[o] = s]
        /\ worker' = [worker EXCEPT !.segments = Tail(@), !.copiedLogs = @ \cup {s},
                                    !.logs = Append(@, p)]
    BY <1>3, <1>7
  <2>2. /\ worker'.logs = Append(L, p) /\ worker'.segments = Tail(worker.segments)
        /\ worker'.copiedLogs = worker.copiedLogs \cup {s}
    BY <1>2, <2>1 DEF WorkerType
  <2>3. /\ LogInv /\ Sound(L, remote.objects) /\ Pending /\ CopiedKnown
        /\ Extends(L, Published) /\ Extends(L, index.logs)
    BY <1>1, <1>7 DEF CopyInv
  <2>4. PICK K, X, U \in Seq(Segment), e, m \in Nat :
          /\ Split(L, sealed, tail, written, K, U, e, m)
          /\ worker.segments = X \o U
          /\ \A z \in ToSet(X) : Known(L, z)
    BY <2>3 DEF Pending
  <2>5. X = <<>>
    <3> SUFFICES ASSUME X # <<>> PROVE FALSE
      OBVIOUS
    <3>1. Head(X \o U) = Head(X) /\ Head(X) \in ToSet(X)
      BY HeadOfConcat, HeadThenTail, ZenonT(30)
    <3> QED
      BY <1>7, <2>4, <3>1 DEF s
  <2>6. worker.segments = U /\ U # <<>> /\ s = Head(U)
    BY <1>1, <2>4, <2>5, ConcatEmptySeq DEF s
  <2>7. /\ p \in PartType /\ o \in Objects /\ M = L \o <<p>> /\ M \in Seq(PartType)
        /\ \A x \in ToSet(L) : x.object # o
        /\ Sound(M, [remote.objects EXCEPT ![o] = s])
        /\ \E J \in Seq(Segment), d \in Nat : Split(M, sealed, tail, written, J, Tail(U), d, m)
        /\ Known(M, s)
    <3>1. L \in Seq(PartType) /\ remote.objects \in [Objects -> Seq(Events)]
          /\ written \in 0 .. MaxEvents
      BY LogTypes DEF TypeOK
    <3>2. o = ObjectOf(L, Head(U)) /\ p = Part(o, Head(Head(U)), Head(U)) /\ M = Append(L, p)
      BY <2>2, <2>6 DEF o, p
    <3> HIDE DEF L, M
    <3>3. Copied(L, M, remote.objects, sealed, tail, written, U, m, o, p)
      BY <2>3, <2>4, <2>6, <3>1, <3>2, CopyNew
    <3>4. p \in PartType
      BY <3>3 DEF Copied
    <3>5. M = L \o <<p>>
      BY <3>1, <3>2, <3>4, AppendIsConcat
    <3> QED
      BY <2>6, <3>3, <3>5 DEF Copied
  <2>8. /\ remote'.objects = [remote.objects EXCEPT ![o] = s]
        /\ remote'.index = remote.index /\ remote'.place = remote.place
    BY <1>2, <2>1 DEF RemoteType
  <2>9. L \in Seq(PartType) /\ <<p>> \in Seq(PartType) /\ Published \in Seq(PartType)
        /\ index.logs \in Seq(PartType) /\ remote.objects \in [Objects -> Seq(Events)]
    BY <2>7, LogTypes
  <2>10. \A x \in ToSet(Published) : x.object # o
    <3>1. PICK R \in Seq(PartType) : L = Published \o R
      BY <2>3 DEF Extends
    <3>2. ToSet(L) = ToSet(Published) \cup ToSet(R)
      BY <2>9, <3>1, ToSetConcat
    <3> QED
      BY <2>7, <3>2
  <2>11. /\ Published' = Published
         /\ ~remote'.index.saved /\ remote'.place = "published" => remote'.objects[0] # <<>>
    <3>1. CASE remote.index.saved
      BY <2>8, <3>1 DEF Published
    <3>2. CASE ~remote.index.saved /\ remote.place # "published"
      BY <2>8, <3>2 DEF Published
    <3>3. CASE ~remote.index.saved /\ remote.place = "published"
      <4>1. remote.objects[0] # <<>>
        BY <2>3, <3>3 DEF LogInv
      <4>2. Published = <<Part(0, 0, remote.objects[0])>>
        BY <3>3, <4>1 DEF Published, LegacyLogs
      <4>3. Part(0, 0, remote.objects[0]) \in ToSet(Published)
        <5>1. 1 \in DOMAIN Published /\ Published[1] = Part(0, 0, remote.objects[0])
          BY <4>2
        <5> QED
          BY <5>1 DEF ToSet
      <4>4. o # 0
        BY <2>10, <4>3 DEF Part
      <4>5. remote'.objects[0] = remote.objects[0]
        BY <2>8, <2>9, <4>4
      <4> QED
        BY <2>8, <3>3, <4>1, <4>2, <4>5 DEF Published, LegacyLogs
    <3> QED
      BY <3>1, <3>2, <3>3
  <2>12. Sound(Published, remote'.objects)
    <3>1. Distinct(Published) /\ Titled(Published) /\ Held(Published, remote.objects)
      BY <2>3 DEF LogInv, Sound
    <3>2. ASSUME NEW x \in ToSet(Published) PROVE remote'.objects[x.object] = x.data
      <4>1. remote.objects[x.object] = x.data /\ x.object # o
        BY <2>10, <3>1 DEF Held
      <4>2. x \in PartType
        BY <2>9, ToSetInSet
      <4> QED
        BY <2>8, <2>9, <4>1, <4>2 DEF PartType
    <3> QED
      BY <3>1, <3>2 DEF Sound, Held
  <2>13. LogInv'
    <3>1. Stable' = Stable
      BY <1>1 DEF Stable
    <3> QED
      BY <1>1, <2>3, <2>8, <2>11, <2>12, <3>1 DEF LogInv
  <2>14. CopiedKnown'
    <3>1. \A z : Known(L, z) => Known(M, z)
      BY <2>7, <2>9, KnownMore
    <3> QED
      BY <2>2, <2>3, <2>7, <3>1 DEF CopiedKnown
  <2>15. Pending'
    <3>1. PICK J \in Seq(Segment), d \in Nat : Split(M, sealed, tail, written, J, Tail(U), d, m)
      BY <2>7
    <3>2. <<>> \in Seq(Segment) /\ Tail(U) \in Seq(Segment) /\ Tail(U) = <<>> \o Tail(U)
          /\ ToSet(<<>>) = {}
      BY <2>6, HeadThenTail, ConcatEmptySeq DEF ToSet
    <3> DEFINE V == Tail(U)
    <3>3. /\ V \in Seq(Segment)
          /\ Split(worker'.logs, sealed', tail', written', J, V, d, m)
          /\ worker'.segments = <<>> \o V
          /\ \A z \in ToSet(<<>>) : Known(worker'.logs, z)
      BY <1>1, <2>2, <2>6, <3>1, <3>2
    <3> HIDE DEF V
    <3> QED
      BY <3>2, <3>3 DEF Pending
  <2>16. Extends(worker'.logs, Published') /\ Extends(worker'.logs, index'.logs)
    BY <1>1, <2>3, <2>7, <2>9, <2>11, ExtendsFurther
  <2> QED
    BY <1>4, <2>7, <2>8, <2>13, <2>14, <2>15, <2>16 DEF CopyInv
<1> QED
  BY <1>5, <1>6, <1>7

(* The rest of the copy: files, the index of the store, the name of its    *)
(* directory and the local index.                                          *)
LEMMA PublishCopy ==
  BaseInv /\ CopyInv /\
    ((\E f \in Names : copyFile(f)) \/ publishRemote \/ renameRemote \/ recordIndex) => CopyInv'
<1> SUFFICES ASSUME BaseInv, CopyInv
    PROVE (\E f \in Names : copyFile(f)) \/ publishRemote \/ renameRemote \/ recordIndex => CopyInv'
  OBVIOUS
<1> USE DEF BaseInv
<1>t. worker \in WorkerType /\ remote \in RemoteType
  BY DEF TypeOK
<1>g. ASSUME NEW step, worker' = [worker EXCEPT !.pc = step]
      PROVE  /\ worker'.pc = step /\ worker'.logs = worker.logs /\ worker'.files = worker.files
             /\ worker'.copiedLogs = worker.copiedLogs
  BY <1>g DEF TypeOK, WorkerType
<1>1. ASSUME NEW f \in Names, copyFile(f) PROVE CopyInv'
  <2>1. /\ worker.pc = "copy"
        /\ UNCHANGED <<dir, tail, sealed, files, index, importing, deleted, written>>
    BY <1>1 DEF copyFile, disk
  <2>2. /\ remote'.index = remote.index /\ remote'.objects = remote.objects
        /\ remote'.place = remote.place
    BY <1>1, <1>t DEF copyFile, RemoteType
  <2>3. /\ worker'.pc = "copy" /\ worker'.logs = worker.logs
        /\ worker'.segments = worker.segments /\ worker'.copiedLogs = worker.copiedLogs
    BY <1>1, <1>t DEF copyFile, WorkerType
  <2>4. Published' = Published /\ Stable' = Stable
    BY <2>1, <2>2 DEF Published, LegacyLogs, Stable
  <2>5. ~deleted' => LogInv'
    BY <2>1, <2>2, <2>4 DEF LogInv, CopyInv
  <2>6. (Pending' <=> Pending) /\ (CopiedKnown' <=> CopiedKnown)
    BY <2>1, <2>3 DEF Pending, CopiedKnown
  <2> QED
    BY <2>1, <2>2, <2>3, <2>4, <2>5, <2>6 DEF CopyInv
<1>2. CASE publishRemote
  <2>1. /\ worker.pc = "copy" /\ remote' = [remote EXCEPT !.index = Work]
        /\ worker' = [worker EXCEPT !.pc = IF worker.fresh THEN "rename" ELSE "record"]
        /\ UNCHANGED <<dir, tail, sealed, files, index, importing, deleted, written>>
    BY <1>2 DEF publishRemote, disk, Go
  <2>2. /\ worker'.pc \in {"rename", "record"} /\ worker'.logs = worker.logs
        /\ worker'.files = worker.files /\ worker'.copiedLogs = worker.copiedLogs
    <3> DEFINE step == IF worker.fresh THEN "rename" ELSE "record"
    <3>1. step \in {"rename", "record"}
      OBVIOUS
    <3>2. worker' = [worker EXCEPT !.pc = step]
      BY <2>1
    <3> HIDE DEF step
    <3> QED
      BY <3>1, <3>2, <1>g
  <2>3. remote'.index = Work /\ remote'.objects = remote.objects /\ Work' = Work
        /\ Work.saved /\ Work.logs = worker.logs
    BY <1>t, <2>1, <2>2 DEF RemoteType, Work
  <2>4. Published' = worker.logs /\ Stable' = Stable
    BY <2>1, <2>3 DEF Published, Stable
  <2>5. ASSUME ~deleted PROVE LogInv' /\ CopiedKnown'
    <3>1. /\ LogInv /\ Sound(worker.logs, remote.objects) /\ Pending /\ CopiedKnown
          /\ Extends(worker.logs, index.logs)
      BY <2>1, <2>5 DEF CopyInv
    <3>2. Whole(worker.logs, sealed, tail, written)
      BY <3>1 DEF Pending, Whole
    <3>3. LogInv'
      BY <2>1, <2>3, <2>4, <3>1, <3>2 DEF LogInv
    <3> QED
      BY <2>2, <3>1, <3>3 DEF CopiedKnown
  <2> QED
    BY <2>1, <2>2, <2>3, <2>5 DEF CopyInv, Copying
<1>3. CASE renameRemote
  <2>1. /\ worker.pc = "rename" /\ remote' = [remote EXCEPT !.place = "published"]
        /\ worker' = [worker EXCEPT !.pc = "record"]
        /\ UNCHANGED <<dir, tail, sealed, files, index, importing, deleted, written>>
    BY <1>3 DEF renameRemote, disk, Go
  <2>2. /\ worker'.pc = "record" /\ worker'.logs = worker.logs
        /\ worker'.files = worker.files /\ worker'.copiedLogs = worker.copiedLogs
    BY <2>1, <1>g
  <2>3. remote'.index = remote.index /\ remote'.objects = remote.objects /\ remote.index = Work
        /\ Work' = Work /\ remote.index.saved
    BY <1>t, <2>1, <2>2 DEF RemoteType, Work, CopyInv
  <2>4. Published' = Published /\ Stable' = Stable
    BY <2>1, <2>3 DEF Published, Stable
  <2>5. ~deleted => LogInv' /\ CopiedKnown'
    BY <2>1, <2>2, <2>3, <2>4 DEF LogInv, CopyInv, CopiedKnown
  <2> QED
    BY <2>1, <2>2, <2>3, <2>5 DEF CopyInv, Copying
<1>4. CASE recordIndex
  <2>1. /\ worker.pc = "record"
        /\ UNCHANGED <<dir, tail, sealed, files, importing, deleted, written, remote>>
    BY <1>4 DEF recordIndex
  <2>2. CASE deleted \/ ~dir
    <3>1. index' = index /\ worker' = [worker EXCEPT !.pc = "dequeue"]
      BY <1>4, <2>2 DEF recordIndex, Go
    <3>2. worker'.pc = "dequeue"
      BY <3>1, <1>g
    <3>3. ~deleted' => LogInv'
      BY <2>1, <3>1, SameLog DEF CopyInv
    <3> QED
      BY <3>2, <3>3, WorkerElsewhere DEF Importing, Copying
  <2>3. CASE ~(deleted \/ ~dir)
    <3>1. index' = Work /\ worker' = [worker EXCEPT !.pc = "unlink"]
      BY <1>4, <2>3 DEF recordIndex, Go
    <3>2. /\ worker'.pc = "unlink" /\ worker'.copiedLogs = worker.copiedLogs
      BY <3>1, <1>g
    <3>3. remote.index = Work /\ CopiedKnown /\ LogInv /\ Work.saved /\ Work.logs = worker.logs
      BY <2>1, <2>3 DEF CopyInv, Work
    <3>4. Published = worker.logs /\ Published' = Published /\ Stable' = Stable
          /\ index'.saved /\ index'.logs = Published /\ remote.index.saved
      BY <2>1, <3>1, <3>3 DEF Published, LegacyLogs, Stable
    <3>5. Extends(Published, Published)
      BY LogTypes, ExtendsItself
    <3>6. LogInv'
      BY <2>1, <3>3, <3>4, <3>5 DEF LogInv
    <3>7. \A s \in worker'.copiedLogs : Known(index'.logs, s)
      BY <3>2, <3>3, <3>4 DEF CopiedKnown
    <3> QED
      BY <2>1, <3>1, <3>2, <3>3, <3>4, <3>6, <3>7 DEF CopyInv, Copying
  <2> QED
    BY <2>2, <2>3
<1> QED
  BY <1>1, <1>2, <1>3, <1>4

(* Unlinking what was copied.                                              *)
LEMMA UnlinkCopy == BaseInv /\ CopyInv /\ unlinkCopied => CopyInv'
<1> SUFFICES ASSUME BaseInv, CopyInv, unlinkCopied PROVE CopyInv'
  OBVIOUS
<1> USE DEF BaseInv
<1>1. /\ worker.pc = "unlink" /\ index.saved /\ remote.index = index
      /\ UNCHANGED <<dir, tail, index, importing, deleted, remote, written>>
      /\ \A s \in worker.copiedLogs : Known(index.logs, s)
      /\ ~deleted /\ ~importing /\ files["experiment.json"] > 0
  BY DEF unlinkCopied, CopyInv, ControlInv
<1>2. Published = index.logs /\ Published' = Published /\ Stable /\ LogInv
  BY <1>1 DEF Published, LegacyLogs, Stable, CopyInv
<1>t. worker \in WorkerType
  BY DEF TypeOK
<1>3. CASE \E f \in worker.copied :
             /\ worker' = [worker EXCEPT !.copied = @ \ {f}]
             /\ files' = IF Unchanged(f) THEN [files EXCEPT ![f] = 0] ELSE files
             /\ UNCHANGED sealed
  <2>1. LogInv'
    BY <1>1, <1>2, <1>3, SameLog
  <2>2. worker'.pc = "unlink" /\ worker'.copiedLogs = worker.copiedLogs
    BY <1>1, <1>3, <1>t DEF WorkerType
  <2> QED
    BY <1>1, <2>1, <2>2 DEF CopyInv, Copying
<1>4. CASE \E s \in worker.copiedLogs :
             /\ worker' = [worker EXCEPT !.copiedLogs = @ \ {s}]
             /\ sealed' = Keep(sealed, ToSet(sealed) \ {s})
             /\ UNCHANGED files
  <2>1. PICK s \in worker.copiedLogs :
             /\ worker' = [worker EXCEPT !.copiedLogs = @ \ {s}]
             /\ sealed' = Keep(sealed, ToSet(sealed) \ {s})
             /\ UNCHANGED files
    BY <1>4
  <2>2. worker'.pc = "unlink" /\ worker'.copiedLogs \subseteq worker.copiedLogs
    BY <1>1, <1>t, <2>1 DEF WorkerType
  <2>3. Whole(index.logs, sealed', tail, written)
    <3>1. Known(index.logs, s) /\ index.logs \in Seq(PartType) /\ Titled(index.logs)
      BY <1>1, <1>2, LogTypes DEF LogInv, Sound
    <3>2. PICK K, U \in Seq(Segment), e, m \in Nat :
            Split(index.logs, sealed, tail, written, K, U, e, m)
      BY <1>2 DEF LogInv, Whole
    <3>3. PICK J \in Seq(Segment) :
            Split(index.logs, Keep(sealed, ToSet(sealed) \ {s}), tail, written, J, U, e, m)
      BY <3>1, <3>2, WholeUnlinked
    <3> QED
      BY <2>1, <3>3 DEF Whole
  <2>4. LogInv'
    <3>1. Stable' = Stable
      BY <1>1, <2>1 DEF Stable
    <3> QED
      BY <1>1, <1>2, <2>1, <2>3, <3>1 DEF LogInv
  <2> QED
    BY <1>1, <2>2, <2>4 DEF CopyInv, Copying
<1> QED
  BY <1>3, <1>4 DEF unlinkCopied

(* The log invariant is kept by every step.                                *)
LEMMA StepCopy == BaseInv /\ CopyInv /\ [Next]_vars => CopyInv'
<1> SUFFICES ASSUME BaseInv, CopyInv, [Next]_vars PROVE CopyInv'
  OBVIOUS
<1>1. CASE UNCHANGED vars
  BY <1>1, SameCopy DEF vars, disk, memory
<1>2. CASE Next
  <2>1. CASE persistEvents \/ persistExperiment \/ saveAnalysisJob
    BY <2>1, WritersCopy
  <2>2. CASE Import
    BY <2>2, ImportCopy, OtherCopy DEF Import
  <2>3. CASE Archive
    BY <2>3, SealCopy, OpenCopy, SegmentCopy, PublishCopy, UnlinkCopy, OtherCopy DEF Archive
  <2>4. CASE \/ StartCycle \/ Clean \/ workerFails \/ (\E r \in Readers : Read(r))
             \/ deleteSavedResult \/ controllerRestarts
    BY <2>4, OtherCopy
  <2> QED
    BY <1>2, <2>1, <2>2, <2>3, <2>4 DEF Next
<1> QED
  BY <1>1, <1>2

(* CopyInv holds in every reachable state of archiveMaintenance and of the *)
(* writers beside it.                                                      *)
THEOREM Copy == Spec => []CopyInv
<1>1. BaseInv /\ CopyInv /\ [Next]_vars => CopyInv'
  BY StepCopy
<1> QED
  BY <1>1, InitCopy, Base, PTL DEF Spec

(* The log of a run that is not deleted is whole at every moment: what the *)
(* published index lists, with the sealed segments it does not list and    *)
(* the tail, is each persisted event once and in order, and every part it  *)
(* lists is in the store (sealLogs, copySegment, publishRemote and         *)
(* unlinkCopied, whatever a crash interrupts).                             *)
THEOREM LogIsWhole ==
  Spec => [](~deleted => /\ Whole(Published, sealed, tail, written)
                         /\ Held(Published, remote.objects))
<1>1. CopyInv => (~deleted => /\ Whole(Published, sealed, tail, written)
                              /\ Held(Published, remote.objects))
  BY DEF CopyInv, LogInv, Sound
<1> QED
  BY <1>1, Copy, PTL

-----------------------------------------------------------------------------
(***************************************************************************)
(* The artifact on its way to the store: its last version is on the disk   *)
(* or, when it is not there any more, in both indexes.                     *)
(***************************************************************************)
Artifact == "analysis-result.json"

Latest ==
  IF files[Artifact] > 0 THEN files[Artifact] = version[Artifact]
  ELSE /\ remote.index.files[Artifact] = version[Artifact]
       /\ Stable => index.files[Artifact] = version[Artifact]

FileInv ==
  /\ ~deleted => Latest
  /\ worker.pc \in {"importMark", "importFiles", "importIndex"} =>
       worker.files[Artifact] = remote.index.files[Artifact]
  /\ worker.pc = "importDone" => index.files[Artifact] = remote.index.files[Artifact]
  /\ worker.pc \in Copying /\ ~deleted =>
       /\ files[Artifact] = 0 => worker.files[Artifact] = version[Artifact]
       /\ \A f \in worker.todo : files[f] > 0
       /\ \A f \in worker.copied : worker.files[f] = worker.pinned[f]
  /\ worker.pc = "open" => \A f \in worker.copied : worker.pinned[f] > 0
  /\ worker.pc = "unlink" => \A f \in worker.copied : index.files[f] = worker.pinned[f]

(* The types of versions.                                                  *)
LEMMA FileTypes ==
  ASSUME TypeOK
  PROVE  /\ files \in [Names -> Nat] /\ version \in [Names -> Nat]
         /\ index.files \in [Names -> Nat] /\ remote.index.files \in [Names -> Nat]
         /\ worker.files \in [Names -> Nat] /\ worker.pinned \in [Names -> Nat]
         /\ worker.todo \subseteq Names /\ worker.copied \subseteq {Artifact}
         /\ worker \in WorkerType /\ remote \in RemoteType
<1>1. /\ files \in [Names -> Nat] /\ version \in [Names -> Nat]
      /\ worker \in WorkerType /\ remote \in RemoteType /\ index \in IndexType
  BY DEF TypeOK, Versions
<1>2. index.files \in [Names -> Nat] /\ remote.index.files \in [Names -> Nat]
  BY <1>1 DEF RemoteType, IndexType, Versions
<1>3. /\ worker.files \in [Names -> Nat] /\ worker.pinned \in [Names -> Nat]
      /\ worker.todo \subseteq Names /\ worker.copied \subseteq {Artifact}
  BY <1>1 DEF WorkerType, Versions, Artifact
<1> QED
  BY <1>1, <1>2, <1>3

(* A step that leaves the artifact and both indexes alone.                 *)
LEMMA SameLatest ==
  ASSUME Latest, UNCHANGED <<remote, index, importing>>,
         files'[Artifact] = files[Artifact], version'[Artifact] = version[Artifact],
         files'["experiment.json"] > 0 => files["experiment.json"] > 0
  PROVE  Latest'
  BY DEF Latest, Stable

(* A step that leaves the worker with no work in progress.                 *)
LEMMA ElsewhereFile ==
  ASSUME ~deleted' => Latest',
         worker'.pc \notin {"importMark", "unlink"} \cup Importing \cup Copying
  PROVE  FileInv'
  BY DEF FileInv, Importing, Copying

(* The artifact does not exist at the start.                               *)
LEMMA InitFile == Init => FileInv
<1> SUFFICES ASSUME Init PROVE FileInv
  OBVIOUS
<1>1. PICK origin \in Origins :
        LET here == origin = "local"
        IN /\ files = IF here THEN [None EXCEPT !["experiment.json"] = 1] ELSE None
           /\ version = [None EXCEPT !["experiment.json"] = 1]
           /\ remote = InitialRemote(origin)
  BY DEF Init
<1>2. index = NoIndex /\ worker.pc = "idle"
  BY DEF Init, IdleWorker
<1>3. files[Artifact] = 0 /\ version[Artifact] = 0 /\ index.files[Artifact] = 0
  BY <1>1, <1>2 DEF None, Artifact, NoIndex
<1>4. remote.index.files[Artifact] = 0
  <2>1. CASE origin = "local" \/ origin = "legacy"
    <3>1. remote.index = NoIndex
      BY <1>1, <2>1 DEF InitialRemote, NoRemote
    <3> QED
      BY <3>1 DEF None, Artifact, NoIndex
  <2>2. CASE ~(origin = "local" \/ origin = "legacy")
    <3>1. remote.index.files = [None EXCEPT !["experiment.json"] = 1]
      BY <1>1, <2>2 DEF InitialRemote, NoRemote
    <3> QED
      BY <3>1 DEF None, Artifact
  <2> QED
    BY <2>1, <2>2
<1>5. Latest
  BY <1>3, <1>4 DEF Latest
<1> QED
  BY <1>2, <1>5 DEF FileInv, Copying

(* A step that leaves files, indexes and the worker alone, or deletes the  *)
(* run.                                                                    *)
LEMMA SameFile ==
  ASSUME FileInv, UNCHANGED <<worker, remote, index, importing, files, version>>,
         deleted => deleted'
  PROVE  FileInv'
<1>1. ~deleted' => Latest'
  BY SameLatest DEF FileInv
<1> QED
  BY <1>1 DEF FileInv

(* saveAnalysisJob writes the next version of the artifact.                *)
LEMMA WritersFile ==
  BaseInv /\ FileInv /\ (persistEvents \/ persistExperiment \/ saveAnalysisJob) => FileInv'
<1> SUFFICES ASSUME BaseInv, FileInv
             PROVE persistEvents \/ persistExperiment \/ saveAnalysisJob => FileInv'
  OBVIOUS
<1> USE DEF BaseInv
<1>1. CASE persistEvents
  BY <1>1, SameFile DEF persistEvents
<1>2. ASSUME NEW f \in Names, saveFile(f), ~Locked, ~deleted,
             f = "experiment.json" => files["experiment.json"] > 0, deleted' = deleted
      PROVE  FileInv'
  <2>1. /\ version' = [version EXCEPT ![f] = @ + 1]
        /\ files' = [files EXCEPT ![f] = version[f] + 1]
        /\ UNCHANGED <<worker, remote, index, importing>>
    BY <1>2 DEF saveFile
  <2>2. files'[f] = version'[f] /\ files'[f] > 0
        /\ \A g \in Names : g # f => files'[g] = files[g] /\ version'[g] = version[g]
    BY <2>1, FileTypes
  <2>3. Artifact \in Names /\ Latest
    BY <1>2 DEF Artifact, FileInv
  <2>4. Latest'
    <3>1. CASE f = Artifact
      BY <2>2, <3>1 DEF Latest
    <3>2. CASE f # Artifact
      <4>1. f = "experiment.json"
        BY <3>2 DEF Artifact
      <4> QED
        BY <1>2, <2>1, <2>2, <2>3, <3>2, <4>1, SameLatest
    <3> QED
      BY <3>1, <3>2
  <2>5. worker.pc \in Copying =>
          /\ files'[Artifact] = 0 => worker.files[Artifact] = version'[Artifact]
          /\ \A g \in worker.todo : files'[g] > 0
          /\ \A g \in worker.copied : worker.files[g] = worker.pinned[g]
    <3> SUFFICES ASSUME worker.pc \in Copying
                 PROVE  /\ files'[Artifact] = 0 => worker.files[Artifact] = version'[Artifact]
                        /\ \A g \in worker.todo : files'[g] > 0
                        /\ \A g \in worker.copied : worker.files[g] = worker.pinned[g]
      OBVIOUS
    <3>1. /\ files[Artifact] = 0 => worker.files[Artifact] = version[Artifact]
          /\ \A g \in worker.todo : files[g] > 0
          /\ \A g \in worker.copied : worker.files[g] = worker.pinned[g]
      BY <1>2 DEF FileInv
    <3>2. ASSUME files'[Artifact] = 0 PROVE worker.files[Artifact] = version'[Artifact]
      <4>1. f # Artifact
        BY <2>2, <3>2
      <4> QED
        BY <2>2, <2>3, <3>1, <3>2, <4>1
    <3>3. ASSUME NEW g \in worker.todo PROVE files'[g] > 0
      <4>1. g \in Names
        BY FileTypes
      <4> QED
        BY <2>2, <3>1, <4>1
    <3> QED
      BY <3>1, <3>2, <3>3
  <2> QED
    BY <1>2, <2>1, <2>4, <2>5 DEF FileInv
<1>3. CASE persistExperiment
  <2>1. ~deleted /\ files["experiment.json"] > 0 /\ deleted' = deleted
    BY <1>3 DEF persistExperiment, ControlInv, saveFile
  <2> QED
    BY <1>2, <1>3, <2>1 DEF persistExperiment
<1>4. CASE saveAnalysisJob
  BY <1>2, <1>4 DEF saveAnalysisJob, saveFile
<1> QED
  BY <1>1, <1>3, <1>4

(* The steps that leave the files alone and the worker out of the way.     *)
LEMMA OtherFile ==
  BaseInv /\ FileInv /\
    (\/ StartCycle \/ importArchivedRuns \/ Clean \/ takePending \/ sealNotFound \/ sealBusy
     \/ allUnlinked \/ dequeue \/ workerFails \/ (\E r \in Readers : Read(r))
     \/ deleteSavedResult \/ controllerRestarts)
  => FileInv'
<1> SUFFICES ASSUME BaseInv, FileInv
    PROVE (\/ StartCycle \/ importArchivedRuns \/ Clean \/ takePending \/ sealNotFound
           \/ sealBusy \/ allUnlinked \/ dequeue \/ workerFails \/ (\E r \in Readers : Read(r))
           \/ deleteSavedResult \/ controllerRestarts) => FileInv'
  OBVIOUS
<1> USE DEF BaseInv
<1>t. worker \in WorkerType /\ \A step : [worker EXCEPT !.pc = step].pc = step
  BY DEF TypeOK, WorkerType
<1> DEFINE Apart == worker'.pc \notin {"importMark", "unlink"} \cup Importing \cup Copying
           Kept == UNCHANGED <<remote, index, importing, files, version, deleted>>
<1>a. ASSUME Apart, Kept PROVE FileInv'
  <2>1. ~deleted' => Latest'
    <3>1. ~deleted' => Latest
      BY <1>a DEF FileInv
    <3> QED
      BY <1>a, <3>1, SameLatest
  <2> QED
    BY <1>a, <2>1, ElsewhereFile
<1>1. CASE StartCycle
  <2>1. Apart
    BY <1>1, <1>t DEF StartCycle, Go, Importing, Copying
  <2>2. Kept
    BY <1>1 DEF StartCycle, disk
  <2> QED
    BY <1>a, <2>1, <2>2
<1>2. CASE importArchivedRuns
  <2>1. Apart
    BY <1>2, <1>t DEF importArchivedRuns, Discovered, Go, Importing, Copying
  <2>2. Kept
    BY <1>2 DEF importArchivedRuns, disk
  <2> QED
    BY <1>a, <2>1, <2>2
<1>3. CASE cleanDeletedArchives \/ noteRemoval
  <2>1. Apart
    BY <1>3, <1>t DEF cleanDeletedArchives, noteRemoval, Go, Importing, Copying
  <2>2. Kept
    BY <1>3 DEF cleanDeletedArchives, noteRemoval, disk
  <2> QED
    BY <1>a, <2>1, <2>2
<1>4. CASE removeArchive
  <2>1. Apart
    BY <1>4, <1>t DEF removeArchive, Go, Importing, Copying
  <2>2. deleted'
    BY <1>4 DEF removeArchive, disk, ControlInv
  <2> QED
    BY <2>1, <2>2, ElsewhereFile
<1>5. CASE takePending
  <2>1. Apart
    <3>1. CASE queued /\ archiveIdle
      <4>1. worker' = [worker EXCEPT !.pc = "seal"]
        BY <1>5, <3>1 DEF takePending, Go
      <4> QED
        BY <4>1, <1>t DEF Importing, Copying
    <3>2. CASE ~(queued /\ archiveIdle)
      BY <1>5, <3>2 DEF takePending, Rest, IdleWorker, Importing, Copying
    <3> QED
      BY <3>1, <3>2
  <2>2. Kept
    BY <1>5 DEF takePending, disk
  <2> QED
    BY <1>a, <2>1, <2>2
<1>6. CASE sealNotFound \/ allUnlinked
  <2>1. Apart
    BY <1>6, <1>t DEF sealNotFound, allUnlinked, Go, Importing, Copying
  <2>2. Kept
    BY <1>6 DEF sealNotFound, allUnlinked, disk
  <2> QED
    BY <1>a, <2>1, <2>2
<1>7. CASE dequeue \/ workerFails \/ sealBusy
  <2>1. Apart
    BY <1>7 DEF dequeue, workerFails, sealBusy, Rest, IdleWorker, Importing, Copying
  <2>2. Kept
    BY <1>7 DEF dequeue, workerFails, sealBusy, disk
  <2> QED
    BY <1>a, <2>1, <2>2
<1>8. ASSUME NEW r \in Readers, Read(r) PROVE FileInv'
  <2>1. UNCHANGED <<worker, remote, index, importing, files, version, deleted>>
    BY <1>8 DEF Read, captureResultFiles, pinArchive, resolveArchivedFiles, closeSnapshot, disk
  <2> QED
    BY <2>1, SameFile
<1>9. CASE deleteSavedResult
  <2>1. deleted' = TRUE /\ ~Locked /\ UNCHANGED <<worker, remote>>
    BY <1>9 DEF deleteSavedResult
  <2>2. worker.pc \notin {"importFiles", "importIndex", "importDone", "unlink"}
    BY <2>1 DEF Locked
  <2> QED
    BY <2>1, <2>2 DEF FileInv
<1>10. CASE controllerRestarts
  <2>1. Apart
    BY <1>10 DEF controllerRestarts, IdleWorker, Importing, Copying
  <2>2. Kept
    BY <1>10 DEF controllerRestarts, disk
  <2> QED
    BY <1>a, <2>1, <2>2
<1> QED
  BY <1>1, <1>2, <1>3, <1>4, <1>5, <1>6, <1>7, <1>8, <1>9, <1>10 DEF Clean

(* The import of an archived run.                                          *)
LEMMA ImportFile ==
  BaseInv /\ FileInv /\ (readArchivedRun \/ markImport \/ importFiles \/ importIndex \/ importDone)
    => FileInv'
<1> SUFFICES ASSUME BaseInv, FileInv
    PROVE readArchivedRun \/ markImport \/ importFiles \/ importIndex \/ importDone => FileInv'
  OBVIOUS
<1> USE DEF BaseInv
<1>t. worker \in WorkerType /\ \A step : [worker EXCEPT !.pc = step].pc = step
  BY DEF TypeOK, WorkerType
<1>g. ASSUME NEW step, worker' = [worker EXCEPT !.pc = step]
      PROVE  worker'.pc = step /\ worker'.files = worker.files
  BY <1>g DEF TypeOK, WorkerType
<1>1. CASE readArchivedRun
  <2>1. UNCHANGED <<remote, index, importing, files, version, deleted>>
    BY <1>1 DEF readArchivedRun, disk
  <2>2. ~deleted' => Latest'
    BY <2>1, SameLatest DEF FileInv
  <2>3. CASE Discovered
    <3>1. worker'.pc = "clean"
      BY <2>3, <1>t DEF Discovered, Go
    <3> QED
      BY <2>2, <3>1, ElsewhereFile DEF Importing, Copying
  <2>4. CASE worker' = [worker EXCEPT
              !.pc = "importMark",
              !.logs = IF remote.index.saved THEN remote.index.logs ELSE LegacyLogs(remote),
              !.files = remote.index.files,
              !.experiment = remote.experiment,
              !.fresh = ~remote.index.saved]
    <3>1. worker'.pc = "importMark" /\ worker'.files = remote.index.files
      BY <2>4, <1>t DEF WorkerType
    <3> QED
      BY <2>1, <2>2, <3>1 DEF FileInv, Copying
  <2> QED
    BY <1>1, <2>3, <2>4 DEF readArchivedRun
<1>2. CASE markImport
  <2>1. UNCHANGED <<files, version, index, deleted, remote>> /\ worker.pc = "importMark"
    BY <1>2 DEF markImport
  <2>2. Stable' => Stable
    <3>1. importing' = importing \/ importing' = TRUE
      BY <1>2 DEF markImport
    <3> QED
      BY <2>1, <3>1 DEF Stable
  <2>3. ~deleted' => Latest'
    BY <2>1, <2>2 DEF FileInv, Latest
  <2>4. worker'.pc = "clean" \/ (worker'.pc = "importFiles" /\ worker'.files = worker.files)
    <3>1. \/ worker' = [worker EXCEPT !.pc = "clean"]
          \/ worker' = [worker EXCEPT !.pc = "importFiles"]
      BY <1>2 DEF markImport, Discovered, Go
    <3> QED
      BY <3>1, <1>g
  <2> QED
    BY <2>1, <2>3, <2>4 DEF FileInv, Copying
<1>3. CASE importFiles
  <2>1. /\ UNCHANGED <<version, index, importing, deleted, remote>>
        /\ worker.pc = "importFiles" /\ importing
    BY <1>3 DEF importFiles, ControlInv, Importing
  <2>2. files'[Artifact] = files[Artifact]
    BY <1>3, FileTypes DEF importFiles, Artifact
  <2>3. ~deleted' => Latest'
    BY <2>1, <2>2 DEF FileInv, Latest, Stable
  <2>4. worker'.pc = "importIndex" /\ worker'.files[Artifact] = worker.files[Artifact]
    BY <1>3, FileTypes DEF importFiles, Artifact, WorkerType
  <2> QED
    BY <2>1, <2>3, <2>4 DEF FileInv, Copying
<1>4. CASE importIndex
  <2>1. /\ UNCHANGED <<version, files, importing, deleted, remote>>
        /\ worker.pc = "importIndex" /\ importing /\ index'.files = worker.files
    BY <1>4 DEF importIndex, ControlInv, Importing
  <2>2. ~deleted' => Latest'
    BY <2>1 DEF FileInv, Latest, Stable
  <2>3. worker'.pc = "importDone"
    BY <1>4, <1>t DEF importIndex, Go
  <2> QED
    BY <2>1, <2>2, <2>3 DEF FileInv, Copying
<1>5. CASE importDone
  <2>1. /\ UNCHANGED <<version, files, index, deleted, remote>>
        /\ worker.pc = "importDone"
    BY <1>5 DEF importDone
  <2>2. ~deleted' => Latest'
    BY <2>1 DEF FileInv, Latest
  <2>3. worker'.pc = "clean"
    BY <1>5, <1>t DEF importDone, Discovered, Go
  <2> QED
    BY <2>2, <2>3, ElsewhereFile DEF Importing, Copying
<1> QED
  BY <1>1, <1>2, <1>3, <1>4, <1>5

(* The archiving steps.                                                    *)
LEMMA ArchiveFile ==
  BaseInv /\ CopyInv /\ FileInv /\
    (sealLogs \/ openRemote \/ copySegment \/ (\E f \in Names : copyFile(f)) \/ publishRemote
       \/ renameRemote \/ recordIndex \/ unlinkCopied) => FileInv'
<1> SUFFICES ASSUME BaseInv, CopyInv, FileInv
    PROVE sealLogs \/ openRemote \/ copySegment \/ (\E f \in Names : copyFile(f))
            \/ publishRemote \/ renameRemote \/ recordIndex \/ unlinkCopied => FileInv'
  OBVIOUS
<1> USE DEF BaseInv
<1>t. worker \in WorkerType /\ remote \in RemoteType
  BY DEF TypeOK
<1>g. ASSUME NEW step, worker' = [worker EXCEPT !.pc = step]
      PROVE  /\ worker'.pc = step /\ worker'.files = worker.files /\ worker'.todo = worker.todo
             /\ worker'.copied = worker.copied /\ worker'.pinned = worker.pinned
  BY <1>g DEF TypeOK, WorkerType
<1>n. Artifact \in Names
  BY DEF Artifact
<1>1. CASE sealLogs
  <2>1. /\ UNCHANGED <<version, files, index, importing, deleted, remote>>
        /\ ~deleted /\ ~importing /\ files["experiment.json"] > 0
    BY <1>1 DEF sealLogs
  <2>2. Latest /\ Latest'
    BY <2>1, SameLatest DEF FileInv
  <2> DEFINE old == {s \in ToSet(Sealed) : Known(index.logs, s)}
             new == Keep(Sealed, ToSet(Sealed) \ old)
             next == IF ChangedFiles = {} /\ CopiedFiles = {} /\ old = {} /\ new = <<>>
                     THEN "dequeue" ELSE "open"
  <2>3. /\ next \in {"dequeue", "open"}
        /\ worker' = [worker EXCEPT
             !.pc = next, !.logs = index.logs, !.files = index.files,
             !.pinned = files, !.segments = new, !.todo = ChangedFiles,
             !.copied = CopiedFiles, !.copiedLogs = old]
    BY <1>1 DEF sealLogs
  <2> HIDE DEF old, new, next
  <2>4. /\ worker'.pc = next /\ worker'.files = index.files /\ worker'.pinned = files
        /\ worker'.todo = ChangedFiles /\ worker'.copied = CopiedFiles
    BY <1>t, <2>3 DEF WorkerType
  <2>5. files[Artifact] = 0 => index.files[Artifact] = version[Artifact]
    BY <2>1, <2>2 DEF Latest, Stable
  <2>6. \A f \in ChangedFiles : files[f] > 0
    BY DEF ChangedFiles
  <2>7. \A f \in CopiedFiles : files[f] > 0 /\ index.files[f] = files[f]
    BY DEF CopiedFiles
  <2> QED
    BY <2>1, <2>2, <2>3, <2>4, <2>5, <2>6, <2>7 DEF FileInv, Importing
<1>2. CASE openRemote
  <2>1. /\ UNCHANGED <<version, files, index, importing, deleted>> /\ worker.pc = "open"
        /\ remote' = [remote EXCEPT !.place = IF @ = "none" THEN "incoming" ELSE @]
        /\ worker' = [worker EXCEPT
             !.pc = "copy",
             !.fresh = remote.place # "published",
             !.logs = Merged(@, remote.index.logs),
             !.files = [f \in Names |-> IF @[f] = 0 THEN remote.index.files[f] ELSE @[f]]]
    BY <1>2 DEF openRemote, disk
  <2>2. remote'.index = remote.index
    BY <1>t, <2>1 DEF RemoteType
  <2>3. /\ worker'.pc = "copy" /\ worker'.todo = worker.todo
        /\ worker'.copied = worker.copied /\ worker'.pinned = worker.pinned
        /\ worker'.files = [f \in Names |-> IF worker.files[f] = 0 THEN remote.index.files[f]
                                            ELSE worker.files[f]]
    BY <1>t, <2>1 DEF WorkerType
  <2>4. ~deleted' => Latest /\ Latest'
    BY <2>1, <2>2 DEF FileInv, Latest, Stable
  <2>5. ASSUME ~deleted
        PROVE  /\ files[Artifact] = 0 => worker'.files[Artifact] = version[Artifact]
               /\ \A f \in worker.todo : files[f] > 0
               /\ \A f \in worker.copied : worker'.files[f] = worker.pinned[f]
    <3>1. /\ files[Artifact] = 0 => worker.files[Artifact] = version[Artifact]
          /\ \A f \in worker.todo : files[f] > 0
          /\ \A f \in worker.copied : worker.files[f] = worker.pinned[f] /\ worker.pinned[f] > 0
      BY <2>1, <2>5 DEF FileInv, Copying
    <3>2. files[Artifact] = 0 => worker'.files[Artifact] = version[Artifact]
      <4> SUFFICES ASSUME files[Artifact] = 0 PROVE worker'.files[Artifact] = version[Artifact]
        OBVIOUS
      <4>1. remote.index.files[Artifact] = version[Artifact]
        BY <2>1, <2>4, <2>5, FileTypes, <1>n DEF Latest
      <4> QED
        BY <2>3, <3>1, <4>1, <1>n
    <3>3. ASSUME NEW f \in worker.copied PROVE worker'.files[f] = worker.pinned[f]
      <4>1. f \in Names /\ worker.pinned[f] \in Nat
        BY FileTypes, <1>n
      <4>2. worker.files[f] # 0
        BY <3>1, <4>1
      <4> QED
        BY <2>3, <3>1, <4>1, <4>2
    <3> QED
      BY <3>1, <3>2, <3>3
  <2> QED
    BY <2>1, <2>3, <2>4, <2>5 DEF FileInv, Copying, Importing
<1>3. CASE copySegment
  <2>1. UNCHANGED <<version, files, index, importing, deleted>> /\ worker.pc = "copy"
    BY <1>3 DEF copySegment, disk
  <2>2. remote'.index = remote.index
    BY <1>3, <1>t DEF copySegment, RemoteType
  <2>3. /\ worker'.pc = "copy" /\ worker'.todo = worker.todo /\ worker'.files = worker.files
        /\ worker'.copied = worker.copied /\ worker'.pinned = worker.pinned
    BY <1>3, <1>t DEF copySegment, WorkerType
  <2>4. ~deleted' => Latest'
    BY <2>1, <2>2 DEF FileInv, Latest, Stable
  <2> QED
    BY <2>1, <2>3, <2>4 DEF FileInv, Copying, Importing
<1>4. ASSUME NEW f \in Names, copyFile(f) PROVE FileInv'
  <2>1. /\ UNCHANGED <<version, files, index, importing, deleted>> /\ worker.pc = "copy"
        /\ f \in worker.todo
        /\ worker' = [worker EXCEPT !.todo = @ \ {f}, !.files[f] = worker.pinned[f],
                                    !.copied = IF f \in Retained THEN @ ELSE @ \cup {f}]
    BY <1>4 DEF copyFile, disk
  <2>2. remote'.index = remote.index
    BY <1>4, <1>t DEF copyFile, RemoteType
  <2>3. /\ worker'.pc = "copy" /\ worker'.todo \subseteq worker.todo
        /\ worker'.files = [worker.files EXCEPT ![f] = worker.pinned[f]]
        /\ worker'.copied \subseteq worker.copied \cup {f} /\ worker'.pinned = worker.pinned
    BY <1>t, <2>1 DEF WorkerType
  <2>4. ~deleted' => Latest'
    BY <2>1, <2>2 DEF FileInv, Latest, Stable
  <2>5. ASSUME ~deleted
        PROVE  /\ files[Artifact] = 0 => worker'.files[Artifact] = version[Artifact]
               /\ \A g \in worker'.todo : files[g] > 0
               /\ \A g \in worker'.copied : worker'.files[g] = worker'.pinned[g]
    <3>1. /\ files[Artifact] = 0 => worker.files[Artifact] = version[Artifact]
          /\ \A g \in worker.todo : files[g] > 0
          /\ \A g \in worker.copied : worker.files[g] = worker.pinned[g]
      BY <2>1, <2>5 DEF FileInv, Copying
    <3>2. files[Artifact] = 0 => f # Artifact
      BY <2>1, <3>1
    <3>3. files[Artifact] = 0 => worker'.files[Artifact] = version[Artifact]
      BY <2>3, <3>1, <3>2, FileTypes, <1>n
    <3>4. ASSUME NEW g \in worker'.copied PROVE worker'.files[g] = worker'.pinned[g]
      <4>1. g = f \/ (g \in worker.copied /\ g \in Names)
        BY <2>3, FileTypes, <1>n
      <4> QED
        BY <2>3, <3>1, <4>1, FileTypes
    <3> QED
      BY <2>3, <3>1, <3>3, <3>4
  <2> QED
    BY <2>1, <2>3, <2>4, <2>5 DEF FileInv, Copying, Importing
<1>5. CASE publishRemote
  <2>1. /\ UNCHANGED <<version, files, index, importing, deleted>> /\ worker.pc = "copy"
        /\ remote' = [remote EXCEPT !.index = Work]
        /\ worker' = [worker EXCEPT !.pc = IF worker.fresh THEN "rename" ELSE "record"]
    BY <1>5 DEF publishRemote, disk, Go
  <2>2. remote'.index.files = worker.files
    BY <1>t, <2>1 DEF RemoteType, Work
  <2>3. /\ worker'.pc \in {"rename", "record"} /\ worker'.todo = worker.todo
        /\ worker'.files = worker.files /\ worker'.copied = worker.copied
        /\ worker'.pinned = worker.pinned
    <3> DEFINE step == IF worker.fresh THEN "rename" ELSE "record"
    <3>1. step \in {"rename", "record"}
      OBVIOUS
    <3>2. worker' = [worker EXCEPT !.pc = step]
      BY <2>1
    <3> HIDE DEF step
    <3> QED
      BY <3>1, <3>2, <1>g
  <2>4. ~deleted' => Latest'
    <3>1. ~deleted => Latest /\ (files[Artifact] = 0 => worker.files[Artifact] = version[Artifact])
      BY <2>1 DEF FileInv, Copying
    <3>2. files[Artifact] \in Nat
      BY FileTypes, <1>n
    <3> QED
      BY <2>1, <2>2, <3>1, <3>2 DEF Latest, Stable
  <2> QED
    BY <2>1, <2>3, <2>4 DEF FileInv, Copying, Importing
<1>6. CASE renameRemote
  <2>1. /\ UNCHANGED <<version, files, index, importing, deleted>> /\ worker.pc = "rename"
        /\ remote' = [remote EXCEPT !.place = "published"]
        /\ worker' = [worker EXCEPT !.pc = "record"]
    BY <1>6 DEF renameRemote, disk, Go
  <2>2. remote'.index = remote.index
    BY <1>t, <2>1 DEF RemoteType
  <2>3. /\ worker'.pc = "record" /\ worker'.todo = worker.todo
        /\ worker'.files = worker.files /\ worker'.copied = worker.copied
        /\ worker'.pinned = worker.pinned
    BY <2>1, <1>g
  <2>4. ~deleted' => Latest'
    BY <2>1, <2>2 DEF FileInv, Latest, Stable
  <2> QED
    BY <2>1, <2>3, <2>4 DEF FileInv, Copying, Importing
<1>7. CASE recordIndex
  <2>1. UNCHANGED <<version, files, importing, deleted, remote>> /\ worker.pc = "record"
    BY <1>7 DEF recordIndex
  <2>2. CASE deleted \/ ~dir
    <3>1. index' = index /\ worker' = [worker EXCEPT !.pc = "dequeue"]
      BY <1>7, <2>2 DEF recordIndex, Go
    <3>2. worker'.pc = "dequeue"
      BY <3>1, <1>g
    <3>3. ~deleted' => Latest'
      BY <2>1, <3>1 DEF FileInv, Latest, Stable
    <3> QED
      BY <3>2, <3>3, ElsewhereFile DEF Importing, Copying
  <2>3. CASE ~(deleted \/ ~dir)
    <3>1. index'.files = worker.files /\ worker' = [worker EXCEPT !.pc = "unlink"]
      BY <1>7, <2>3 DEF recordIndex, Go, Work
    <3>2. /\ worker'.pc = "unlink" /\ worker'.copied = worker.copied
          /\ worker'.pinned = worker.pinned
      BY <3>1, <1>g
    <3>3. /\ Latest /\ (files[Artifact] = 0 => worker.files[Artifact] = version[Artifact])
          /\ \A f \in worker.copied : worker.files[f] = worker.pinned[f]
      BY <2>1, <2>3 DEF FileInv, Copying
    <3>4. files[Artifact] \in Nat
      BY FileTypes, <1>n
    <3>5. Latest'
      BY <2>1, <3>1, <3>3, <3>4 DEF Latest
    <3> QED
      BY <3>1, <3>2, <3>3, <3>5 DEF FileInv, Copying, Importing
  <2> QED
    BY <2>2, <2>3
<1>8. CASE unlinkCopied
  <2>1. /\ UNCHANGED <<version, index, importing, deleted, remote>> /\ worker.pc = "unlink"
        /\ ~deleted /\ remote.index = index
    BY <1>8 DEF unlinkCopied, ControlInv, CopyInv
  <2>2. Latest /\ \A f \in worker.copied : index.files[f] = worker.pinned[f]
    BY <2>1 DEF FileInv
  <2>3. CASE \E f \in worker.copied :
               /\ worker' = [worker EXCEPT !.copied = @ \ {f}]
               /\ files' = IF Unchanged(f) THEN [files EXCEPT ![f] = 0] ELSE files
               /\ UNCHANGED sealed
    <3>1. PICK f \in worker.copied :
               /\ worker' = [worker EXCEPT !.copied = @ \ {f}]
               /\ files' = IF Unchanged(f) THEN [files EXCEPT ![f] = 0] ELSE files
      BY <2>3
    <3>2. f = Artifact
      BY FileTypes
    <3>3. /\ worker'.pc = "unlink" /\ worker'.copied \subseteq worker.copied
          /\ worker'.pinned = worker.pinned
      BY <1>t, <2>1, <3>1 DEF WorkerType
    <3>4. Latest'
      <4>1. CASE Unchanged(f)
        <5>1. files'[Artifact] = 0 /\ files[Artifact] = index.files[Artifact]
          BY <2>2, <3>1, <3>2, <4>1, FileTypes, <1>n DEF Unchanged
        <5>2. index.files[Artifact] = version[Artifact]
          <6>1. CASE files[Artifact] > 0
            BY <2>2, <5>1, <6>1 DEF Latest
          <6>2. CASE ~(files[Artifact] > 0)
            BY <2>1, <2>2, <6>2 DEF Latest
          <6> QED
            BY <6>1, <6>2
        <5> QED
          BY <2>1, <5>1, <5>2 DEF Latest
      <4>2. CASE ~Unchanged(f)
        BY <2>1, <2>2, <3>1, <4>2 DEF Latest, Stable
      <4> QED
        BY <4>1, <4>2
    <3> QED
      BY <2>1, <2>2, <3>3, <3>4 DEF FileInv, Copying, Importing
  <2>4. CASE \E s \in worker.copiedLogs :
               /\ worker' = [worker EXCEPT !.copiedLogs = @ \ {s}]
               /\ sealed' = Keep(sealed, ToSet(sealed) \ {s})
               /\ UNCHANGED files
    <3>1. /\ worker'.pc = "unlink" /\ worker'.copied = worker.copied
          /\ worker'.pinned = worker.pinned /\ files' = files
      BY <1>t, <2>1, <2>4 DEF WorkerType
    <3>2. Latest'
      BY <2>1, <2>2, <3>1 DEF Latest, Stable
    <3> QED
      BY <2>1, <2>2, <3>1, <3>2 DEF FileInv, Copying, Importing
  <2> QED
    BY <1>8, <2>3, <2>4 DEF unlinkCopied
<1> QED
  BY <1>1, <1>2, <1>3, <1>4, <1>5, <1>6, <1>7, <1>8

(* The artifact invariant is kept by every step.                           *)
LEMMA StepFile == BaseInv /\ CopyInv /\ FileInv /\ [Next]_vars => FileInv'
<1> SUFFICES ASSUME BaseInv, CopyInv, FileInv, [Next]_vars PROVE FileInv'
  OBVIOUS
<1>1. CASE UNCHANGED vars
  BY <1>1, SameFile DEF vars, disk, memory
<1>2. CASE Next
  <2>1. CASE persistEvents \/ persistExperiment \/ saveAnalysisJob
    BY <2>1, WritersFile
  <2>2. CASE Import
    BY <2>2, ImportFile, OtherFile DEF Import
  <2>3. CASE Archive
    BY <2>3, ArchiveFile, OtherFile DEF Archive
  <2>4. CASE \/ StartCycle \/ Clean \/ workerFails \/ (\E r \in Readers : Read(r))
             \/ deleteSavedResult \/ controllerRestarts
    BY <2>4, OtherFile
  <2> QED
    BY <1>2, <2>1, <2>2, <2>3, <2>4 DEF Next
<1> QED
  BY <1>1, <1>2

(* The last version of an artifact is never lost by archiving it.          *)
THEOREM ArtifactIsKept == Spec => []FileInv
<1>1. BaseInv /\ CopyInv /\ FileInv /\ [Next]_vars => FileInv'
  BY StepFile
<1> QED
  BY <1>1, InitFile, Base, Copy, PTL DEF Spec

-----------------------------------------------------------------------------
(***************************************************************************)
(* Captures.  What was captured makes the whole log at that moment, and    *)
(* its parts that have left the disk stay in the store, because an index   *)
(* only grows while the run exists.                                        *)
(***************************************************************************)
Placed(p) ==
  index.saved /\ ~importing /\ \E q \in ToSet(index.logs) : q.object = p.object /\ q.data = p.data

Ready(x) ==
  /\ files["experiment.json"] > 0
  /\ Tiles(Data(x.parts), 0, x.expected)
  /\ x.artifact = x.latest
  /\ \A p \in ToSet(x.parts) : p.local \/ Placed(p)

Right(x) ==
  /\ x.pc = "pinned" => ~deleted
  /\ x.pc \in {"captured", "pinned"} /\ x.indexed /\ ~deleted => Ready(x)
  /\ x.pc = "open" /\ x.indexed => x.log = Chunk(0, x.expected) /\ x.artifact = x.latest

ReaderInv == \A r \in Readers : Right(reader[r])

(* The three sources of a capture together are the log.                    *)
LEMMA CaptureIsWhole ==
  ASSUME BaseInv, CopyInv, ~deleted, ~importing, files["experiment.json"] > 0
  PROVE  /\ Tiles(Data(captureRunSource), 0, written)
         /\ \A p \in ToSet(captureRunSource) : p.local \/ Placed(p)
<1> DEFINE S == {s \in ToSet(sealed) : ~Known(index.logs, s)}
           U == Keep(sealed, S)
           L == index.logs
           a == [i \in DOMAIN L |-> Source(L[i])]
           b == [i \in DOMAIN U |-> LocalPart(U[i])]
           c == IF tail = <<>> THEN <<>> ELSE <<LocalPart(tail)>>
<1>s. captureRunSource = (a \o b) \o c
  BY DEF captureRunSource
<1>t. /\ L \in Seq(PartType) /\ sealed \in Seq(Segment) /\ tail \in Seq(Events)
      /\ written \in Nat
  BY LogTypes DEF BaseInv
<1>1. LogInv /\ Stable
  BY DEF CopyInv, Stable
<1>2. Whole(L, sealed, tail, written) /\ Titled(L)
  <2>1. PICK R \in Seq(PartType) : Published = L \o R
    BY <1>1 DEF LogInv, Extends
  <2>2. Sound(L, remote.objects)
    BY <1>1, <1>t, <2>1, PrefixSound DEF LogInv
  <2> QED
    BY <1>1, <2>2 DEF LogInv, Sound
<1>3. PICK K, V \in Seq(Segment), e, m \in Nat : Split(L, sealed, tail, written, K, V, e, m)
  BY <1>2 DEF Whole
<1>4. /\ Tiles(Data(L), 0, e) /\ Tiles(V, e, m) /\ m <= written
      /\ tail = Chunk(m, written)
  BY <1>3 DEF Split
<1>5. U = V
  <2>1. \A s \in ToSet(sealed) : s \in S <=> ~Known(L, s)
    OBVIOUS
  <2> HIDE DEF S, L
  <2> QED
    BY <1>2, <1>3, <1>t, <2>1, SplitUnknown
<1> HIDE DEF S, U
<1>6. a \in Seq(ReadPart) /\ Data(a) = Data(L)
  <2>1. \A p \in PartType : Source(p) \in ReadPart /\ Source(p).data = p.data
    BY ArchiveBounds DEF Source, LocalPart, PartType, ReadPart, Segment
  <2> HIDE DEF L
  <2>2. DOMAIN L = 1 .. Len(L) /\ Len(L) \in Nat /\ \A i \in 1 .. Len(L) : L[i] \in PartType
    BY <1>t, ElementOfSeq, LenProperties
  <2>3. a \in [1 .. Len(L) -> ReadPart]
    BY <2>1, <2>2
  <2>4. a \in Seq(ReadPart) /\ Len(a) = Len(L)
    BY <2>2, <2>3
  <2>5. \A i \in 1 .. Len(L) : a[i].data = L[i].data
    BY <2>1, <2>2
  <2> QED
    BY <2>4, <2>5 DEF Data
<1>7. b \in Seq(ReadPart) /\ Data(b) = U /\ \A p \in ToSet(b) : p.local
  <2>1. \A s \in Segment : LocalPart(s) \in ReadPart /\ LocalPart(s).data = s /\ LocalPart(s).local
    BY ArchiveBounds DEF LocalPart, ReadPart
  <2>2. DOMAIN U = 1 .. Len(U) /\ Len(U) \in Nat /\ \A i \in 1 .. Len(U) : U[i] \in Segment
    BY <1>5, ElementOfSeq, LenProperties
  <2>3. b \in [1 .. Len(U) -> ReadPart]
    BY <2>1, <2>2
  <2>4. b \in Seq(ReadPart) /\ Len(b) = Len(U)
    BY <2>2, <2>3
  <2>5. \A i \in 1 .. Len(U) : b[i].data = U[i] /\ b[i].local
    BY <2>1, <2>2
  <2>6. \A p \in ToSet(b) : p.local
    BY <2>2, <2>3, <2>5 DEF ToSet
  <2> HIDE DEF b
  <2>7. Data(b) \in Seq(Segment) /\ Len(Data(b)) = Len(U) /\ U \in Seq(Segment)
    BY <1>5, <2>4, ReadData, DataType
  <2>8. \A i \in 1 .. Len(U) : Data(b)[i] = U[i]
    BY <2>4, <2>5 DEF Data
  <2>9. Data(b) = U
    BY <2>7, <2>8, SeqEqual
  <2> QED
    BY <2>4, <2>6, <2>9
<1>8. c \in Seq(ReadPart) /\ Tiles(Data(c), m, written) /\ \A p \in ToSet(c) : p.local
  <2>1. CASE tail = <<>>
    <3>1. m = written
      <4>1. Len(tail) = written - m /\ Len(tail) = 0
        BY <1>t, <1>4, <2>1, ChunkType
      <4> QED
        BY <1>t, <4>1
    <3>2. c = <<>> /\ Data(<<>>) = <<>> /\ ToSet(<<>>) = {}
      BY <2>1 DEF Data, ToSet
    <3>3. Tiles(<<>>, m, written)
      BY <3>1, EmptyTiles
    <3> QED
      BY <3>2, <3>3
  <2>2. CASE tail # <<>>
    <3> DEFINE p == LocalPart(tail)
    <3>1. p \in ReadPart /\ p.data = tail /\ p.local
      BY <1>t, <2>2, ArchiveBounds DEF LocalPart, ReadPart, Segment
    <3> HIDE DEF p
    <3>2. c = <<p>>
      BY <2>2 DEF p
    <3>3. m < written
      <4>1. m = written => tail = <<>>
        BY <1>4, ChunkType
      <4> QED
        BY <1>t, <1>4, <2>2, <4>1
    <3>4. Tiles(<<tail>>, m, written)
      BY <1>t, <1>4, <3>3, OneTile
    <3>5. Data(<<p>>) = <<p.data>>
      BY <3>1, OneDatum
    <3>6. <<p>> \in Seq(ReadPart) /\ \A q \in ToSet(<<p>>) : q.local
      BY <3>1 DEF ToSet
    <3> HIDE DEF c
    <3> QED
      BY <3>1, <3>2, <3>4, <3>5, <3>6
  <2> QED
    BY <2>1, <2>2
<1>9. \A p \in ToSet(a) : p.local \/ Placed(p)
  <2> SUFFICES ASSUME NEW p \in ToSet(a), ~p.local PROVE Placed(p)
    OBVIOUS
  <2>1. PICK i \in DOMAIN L : p = Source(L[i])
    BY DEF ToSet
  <2>2. p.object = L[i].object /\ p.data = L[i].data
    BY <2>1 DEF Source, LocalPart
  <2>3. L[i] \in ToSet(L)
    BY DEF ToSet
  <2>4. index.saved
    <3>1. index = NoIndex => ToSet(L) = {}
      BY DEF NoIndex, ToSet
    <3> QED
      BY <1>1, <2>3, <3>1 DEF LogInv
  <2> QED
    BY <2>2, <2>3, <2>4 DEF Placed
<1> HIDE DEF a, b, c, L
<1>10. a \o b \in Seq(ReadPart) /\ Data(a \o b) = Data(a) \o Data(b)
  BY <1>6, <1>7, ConcatProperties, ReadData, DataConcat
<1>11. Data((a \o b) \o c) = Data(a \o b) \o Data(c)
  BY <1>8, <1>10, ReadData, DataConcat
<1>12. Tiles(Data(a \o b), 0, m)
  <2>1. Data(a) \in Seq(Segment) /\ Data(b) \in Seq(Segment)
    BY <1>6, <1>7, ReadData, DataType
  <2>2. Tiles(Data(a), 0, e) /\ Tiles(Data(b), e, m)
    BY <1>4, <1>5, <1>6, <1>7
  <2>3. Tiles(Data(a) \o Data(b), 0, m)
    BY <2>1, <2>2, TilesConcat
  <2> QED
    BY <1>10, <2>3
<1>13. Tiles(Data((a \o b) \o c), 0, written)
  <2>1. Data(a \o b) \in Seq(Segment) /\ Data(c) \in Seq(Segment)
    BY <1>8, <1>10, ReadData, DataType
  <2>2. Tiles(Data(a \o b) \o Data(c), 0, written)
    BY <1>8, <1>12, <2>1, TilesConcat
  <2> QED
    BY <1>11, <2>2
<1>14. ToSet((a \o b) \o c) = (ToSet(a) \cup ToSet(b)) \cup ToSet(c)
  <2>1. ToSet(a \o b) = ToSet(a) \cup ToSet(b)
    BY <1>6, <1>7, ToSetConcat
  <2> DEFINE d == a \o b
  <2>d. d \in Seq(ReadPart) /\ c \in Seq(ReadPart)
    BY <1>8, <1>10
  <2> HIDE DEF d
  <2>e. ToSet(d \o c) = ToSet(d) \cup ToSet(c)
    BY <2>d, ToSetConcat
  <2>2. ToSet((a \o b) \o c) = ToSet(a \o b) \cup ToSet(c)
    BY <2>e DEF d
  <2> QED
    BY <2>1, <2>2
<1>15. \A p \in ToSet((a \o b) \o c) : p.local \/ Placed(p)
  BY <1>7, <1>8, <1>9, <1>14
<1> QED
  BY <1>s, <1>13, <1>15

(* There is no capture at the start.                                       *)
LEMMA InitReader == Init => ReaderInv
<1> SUFFICES ASSUME Init PROVE ReaderInv
  OBVIOUS
<1>1. \A r \in Readers : reader[r] = IdleReader
  BY DEF Init
<1>2. IdleReader.pc = "idle"
  BY DEF IdleReader
<1> QED
  BY <1>1, <1>2 DEF ReaderInv, Right

(* Steps beside the captures: indexes only grow while the run exists, and  *)
(* it is not deleted under a pinned capture.                               *)
LEMMA SameReaders ==
  ASSUME ReaderInv, UNCHANGED reader,
         deleted' => deleted \/ \A r \in Readers : reader[r].pc # "pinned",
         ~deleted' =>
           /\ ~deleted
           /\ files["experiment.json"] > 0 => files'["experiment.json"] > 0
           /\ index.saved /\ ~importing =>
                index'.saved /\ ~importing' /\ ToSet(index.logs) \subseteq ToSet(index'.logs)
  PROVE  ReaderInv'
<1> SUFFICES ASSUME NEW r \in Readers PROVE Right(reader[r])'
  BY DEF ReaderInv
<1>1. Right(reader[r]) /\ reader'[r] = reader[r]
  BY DEF ReaderInv
<1>2. ASSUME ~deleted', Ready(reader[r]) PROVE Ready(reader[r])'
  <2>1. ASSUME NEW p \in ToSet(reader[r].parts), ~p.local
        PROVE  index'.saved /\ ~importing' /\
                 \E q \in ToSet(index'.logs) : q.object = p.object /\ q.data = p.data
    BY <1>2, <2>1 DEF Ready, Placed
  <2> QED
    BY <1>1, <1>2, <2>1 DEF Ready, Placed
<1>3. reader[r].pc = "pinned" => ~deleted'
  BY <1>1 DEF Right
<1> QED
  BY <1>1, <1>2, <1>3 DEF Right

(* Every other step leaves what was captured in its place.                 *)
LEMMA OtherReaders ==
  BaseInv /\ CopyInv /\ ReaderInv /\ [Next]_vars /\ ~(\E r \in Readers : Read(r)) => ReaderInv'
<1> SUFFICES ASSUME BaseInv, CopyInv, ReaderInv, [Next]_vars, ~(\E r \in Readers : Read(r))
             PROVE  ReaderInv'
  OBVIOUS
<1> USE DEF BaseInv
<1>t. files \in [Names -> Nat] /\ version \in [Names -> Nat] /\ worker \in WorkerType
  BY FileTypes
<1>a. ASSUME UNCHANGED <<reader, deleted, index, importing>>,
             files["experiment.json"] > 0 => files'["experiment.json"] > 0
      PROVE  ReaderInv'
  BY <1>a, SameReaders
<1>1. CASE UNCHANGED vars
  BY <1>1, <1>a DEF vars, disk
<1>2. CASE persistEvents \/ persistExperiment \/ saveAnalysisJob
  <2>1. UNCHANGED <<reader, deleted, index, importing>>
    BY <1>2 DEF persistEvents, persistExperiment, saveAnalysisJob, saveFile
  <2>2. files["experiment.json"] > 0 => files'["experiment.json"] > 0
    <3>1. CASE persistEvents
      BY <3>1 DEF persistEvents
    <3>2. CASE persistExperiment
      <4>1. files' = [files EXCEPT !["experiment.json"] = version["experiment.json"] + 1]
        BY <3>2 DEF persistExperiment, saveFile
      <4> QED
        BY <1>t, <4>1
    <3>3. CASE saveAnalysisJob
      <4>1. files' = [files EXCEPT !["analysis-result.json"] = version["analysis-result.json"] + 1]
        BY <3>3 DEF saveAnalysisJob, saveFile
      <4> QED
        BY <1>t, <4>1
    <3> QED
      BY <1>2, <3>1, <3>2, <3>3
  <2> QED
    BY <1>a, <2>1, <2>2
<1>3. CASE StartCycle \/ Clean \/ workerFails
  BY <1>3, <1>a DEF StartCycle, Clean, workerFails, cleanDeletedArchives, removeArchive,
                    noteRemoval, disk
<1>4. CASE Import
  <2>1. CASE importArchivedRuns \/ readArchivedRun
    BY <2>1, <1>a DEF importArchivedRuns, readArchivedRun, disk
  <2>2. CASE markImport
    <3>1. UNCHANGED <<reader, deleted, index, files>> /\ ~(index.saved /\ ~importing)
      BY <2>2 DEF markImport, ControlInv, Indexed
    <3> QED
      BY <3>1, SameReaders
  <2>3. CASE importFiles
    <3>1. UNCHANGED <<reader, deleted, index, importing>>
      BY <2>3 DEF importFiles
    <3>2. files["experiment.json"] > 0 => files'["experiment.json"] > 0
      BY <1>t, <2>3 DEF importFiles
    <3> QED
      BY <1>a, <3>1, <3>2
  <2>4. CASE importIndex \/ importDone
    <3>1. UNCHANGED <<reader, deleted, files>> /\ importing
      BY <2>4 DEF importIndex, importDone, ControlInv, Importing
    <3> QED
      BY <3>1, SameReaders
  <2> QED
    BY <1>4, <2>1, <2>2, <2>3, <2>4 DEF Import
<1>5. CASE Archive
  <2>1. CASE takePending \/ sealLogs \/ sealBusy \/ sealNotFound
    BY <2>1, <1>a DEF takePending, sealLogs, sealBusy, sealNotFound, disk
  <2>2. CASE \/ openRemote \/ copySegment \/ (\E f \in Names : copyFile(f)) \/ publishRemote
             \/ renameRemote
    BY <2>2, <1>a DEF openRemote, copySegment, copyFile, publishRemote, renameRemote, disk
  <2>3. CASE recordIndex
    <3>1. UNCHANGED <<reader, deleted, files, importing>> /\ worker.pc = "record"
      BY <2>3 DEF recordIndex
    <3>2. CASE deleted \/ ~dir
      <4>1. index' = index
        BY <2>3, <3>2 DEF recordIndex
      <4> QED
        BY <1>a, <3>1, <4>1
    <3>3. CASE ~(deleted \/ ~dir)
      <4>1. index' = Work /\ index'.saved /\ index'.logs = worker.logs
        BY <2>3, <3>3 DEF recordIndex, Work
      <4>2. Stable /\ LogInv /\ remote.index = Work
        BY <3>1, <3>3 DEF ControlInv, Copying, CopyInv, Stable
      <4>3. Published = worker.logs
        BY <4>2 DEF Published, Work
      <4>4. PICK R \in Seq(PartType) : worker.logs = index.logs \o R
        BY <4>2, <4>3 DEF LogInv, Extends
      <4>5. index.logs \in Seq(PartType)
        BY LogTypes
      <4>6. ToSet(index.logs \o R) = ToSet(index.logs) \cup ToSet(R)
        BY <4>5, ToSetConcat
      <4>7. ToSet(index.logs) \subseteq ToSet(index'.logs)
        BY <4>1, <4>4, <4>6
      <4> QED
        BY <3>1, <3>3, <4>1, <4>7, SameReaders
    <3> QED
      BY <3>2, <3>3
  <2>4. CASE unlinkCopied
    <3>1. UNCHANGED <<reader, deleted, index, importing>>
      BY <2>4 DEF unlinkCopied
    <3>2. files["experiment.json"] > 0 => files'["experiment.json"] > 0
      BY <1>t, <2>4, FileTypes DEF unlinkCopied, Artifact
    <3> QED
      BY <1>a, <3>1, <3>2
  <2>5. CASE allUnlinked \/ dequeue
    BY <2>5, <1>a DEF allUnlinked, dequeue, disk
  <2> QED
    BY <1>5, <2>1, <2>2, <2>3, <2>4, <2>5 DEF Archive
<1>6. CASE deleteSavedResult
  <2>1. UNCHANGED reader /\ deleted' /\ \A r \in Readers : reader[r].pc # "pinned"
    BY <1>6 DEF deleteSavedResult, resultDeletionBusy
  <2> QED
    BY <2>1, SameReaders
<1>7. CASE controllerRestarts
  <2>1. \A r \in Readers : reader'[r] = IdleReader
    BY <1>7 DEF controllerRestarts
  <2>2. IdleReader.pc = "idle"
    BY DEF IdleReader
  <2> QED
    BY <2>1, <2>2 DEF ReaderInv, Right
<1> QED
  BY <1>1, <1>2, <1>3, <1>4, <1>5, <1>6, <1>7 DEF Next

(* A capture takes the whole log and the last artifact.                    *)
LEMMA CaptureReader ==
  ASSUME BaseInv, CopyInv, FileInv, ReaderInv, NEW r \in Readers, NEW download \in BOOLEAN,
         captureResultFiles(r, download)
  PROVE  Right(reader[r])'
<1> DEFINE parts    == captureRunSource
           artifact == IF files[Artifact] > 0 THEN files[Artifact] ELSE index.files[Artifact]
           distant  == \/ \E i \in DOMAIN parts : ~parts[i].local
                       \/ artifact > 0 /\ files[Artifact] = 0
           new == [pc |-> IF distant THEN "captured" ELSE "open", lease |-> download,
                   parts |-> parts, artifact |-> artifact,
                   remote |-> files[Artifact] = 0,
                   log |-> IF distant THEN <<>> ELSE Content(parts),
                   expected |-> written, latest |-> version[Artifact],
                   indexed |-> ~importing]
<1>1. /\ ~deleted /\ files["experiment.json"] > 0
      /\ reader' = [reader EXCEPT ![r] = new]
      /\ UNCHANGED <<files, index, importing, deleted>>
  BY DEF captureResultFiles, Artifact, disk
<1>2. reader'[r] = new
  BY <1>1 DEF BaseInv, TypeOK
<1>3. /\ new.pc = (IF distant THEN "captured" ELSE "open") /\ new.parts = parts
      /\ new.artifact = artifact /\ new.log = (IF distant THEN <<>> ELSE Content(parts))
      /\ new.expected = written /\ new.latest = version[Artifact] /\ new.indexed = ~importing
  OBVIOUS
<1> HIDE DEF new
<1>4. CASE importing
  BY <1>2, <1>3, <1>4 DEF Right
<1>5. CASE ~importing
  <2>1. Tiles(Data(parts), 0, written)
    BY <1>1, <1>5, CaptureIsWhole
  <2>2. \A p \in ToSet(parts) : p.local \/ Placed(p)
    BY <1>1, <1>5, CaptureIsWhole
  <2>3. artifact = version[Artifact]
    BY <1>1, <1>5 DEF FileInv, Latest, Stable
  <2>4. parts \in Seq(ReadPart)
    BY CaptureType DEF BaseInv
  <2>5. Content(parts) = Chunk(0, written)
    <3>1. Content(parts) = FlattenSeq(Data(parts))
      <4>1. DOMAIN parts = 1 .. Len(parts)
        BY <2>4, LenProperties
      <4> QED
        BY <4>1 DEF Content, Data
    <3>2. Data(parts) \in Seq(Seq(Events))
      BY <2>4, ReadData, DataType
    <3>3. FlattenSeq(Data(parts)) = Chunk(0, written)
      BY <2>1, <3>2, FlattenTiles
    <3> QED
      BY <3>1, <3>3
  <2> HIDE DEF parts, artifact, distant
  <2> QED
    BY <1>1, <1>2, <1>3, <2>1, <2>2, <2>3, <2>5 DEF Right, Ready, Placed
<1> QED
  BY <1>4, <1>5

(* What was captured is still there when it is resolved.                   *)
LEMMA ResolveReader ==
  ASSUME BaseInv, CopyInv, ReaderInv, NEW r \in Readers, resolveArchivedFiles(r)
  PROVE  Right(reader[r])'
<1> DEFINE parts == reader[r].parts
           q == [i \in DOMAIN parts |-> Stored(parts[i])]
<1>t. reader \in [Readers -> ReaderType] /\ reader[r] \in ReaderType
  BY DEF BaseInv, TypeOK
<1>1. /\ reader[r].pc = "pinned"
      /\ reader' = [reader EXCEPT ![r] = [reader[r] EXCEPT !.pc = "open", !.log = FlattenSeq(q)]]
  <2>1. reader' = [reader EXCEPT ![r].pc = "open", ![r].log = FlattenSeq(q)]
    BY DEF resolveArchivedFiles
  <2> HIDE DEF q
  <2> QED
    BY <1>t, <2>1 DEF resolveArchivedFiles
<1>2. parts \in Seq(ReadPart)
  BY <1>t DEF ReaderType
<1> HIDE DEF q
<1>3. /\ reader'[r].pc = "open" /\ reader'[r].log = FlattenSeq(q)
      /\ reader'[r].expected = reader[r].expected /\ reader'[r].artifact = reader[r].artifact
      /\ reader'[r].latest = reader[r].latest /\ reader'[r].indexed = reader[r].indexed
  BY <1>t, <1>1 DEF ReaderType
<1>4. ASSUME reader[r].indexed
      PROVE  FlattenSeq(q) = Chunk(0, reader[r].expected) /\ reader[r].artifact = reader[r].latest
  <2>1. ~deleted /\ Ready(reader[r])
    BY <1>1, <1>4 DEF ReaderInv, Right
  <2>2. ASSUME NEW p \in ToSet(parts) PROVE Stored(p) = p.data
    <3>1. CASE p.local
      BY <3>1 DEF Stored
    <3>2. CASE ~p.local
      <4>1. Placed(p) /\ LogInv /\ Stable
        BY <2>1, <2>2, <3>2 DEF Ready, Placed, CopyInv, Stable
      <4>2. PICK l \in ToSet(index.logs) : l.object = p.object /\ l.data = p.data
        BY <4>1 DEF Placed
      <4>3. PICK R \in Seq(PartType) : Published = index.logs \o R
        BY <4>1 DEF LogInv, Extends
      <4>4. ToSet(index.logs \o R) = ToSet(index.logs) \cup ToSet(R)
        <5>1. index.logs \in Seq(PartType)
          BY LogTypes DEF BaseInv
        <5> QED
          BY <5>1, ToSetConcat
      <4>5. remote.objects[l.object] = l.data
        BY <4>1, <4>3, <4>4 DEF LogInv, Sound, Held
      <4> QED
        BY <3>2, <4>2, <4>5 DEF Stored
    <3> QED
      BY <3>1, <3>2
  <2>3. q = Data(parts)
    <3>1. DOMAIN parts = 1 .. Len(parts)
      BY <1>2, LenProperties
    <3>2. \A i \in 1 .. Len(parts) : parts[i] \in ToSet(parts)
      BY <3>1 DEF ToSet
    <3> QED
      BY <2>2, <3>1, <3>2 DEF q, Data
  <2>4. Data(parts) \in Seq(Seq(Events)) /\ Tiles(Data(parts), 0, reader[r].expected)
    BY <1>2, <2>1, ReadData, DataType DEF Ready
  <2>5. FlattenSeq(Data(parts)) = Chunk(0, reader[r].expected)
    BY <2>4, FlattenTiles
  <2> QED
    BY <2>1, <2>3, <2>5 DEF Ready
<1> QED
  BY <1>3, <1>4 DEF Right

(* Captures keep what they took, and what they read is right.              *)
LEMMA ReadReader ==
  BaseInv /\ CopyInv /\ FileInv /\ ReaderInv /\ (\E r \in Readers : Read(r)) => ReaderInv'
<1> SUFFICES ASSUME BaseInv, CopyInv, FileInv, ReaderInv, NEW r \in Readers, Read(r)
             PROVE  ReaderInv'
  OBVIOUS
<1>t. reader \in [Readers -> ReaderType] /\ reader[r] \in ReaderType /\ IdleReader.pc = "idle"
  BY DEF BaseInv, TypeOK, IdleReader
<1>1. UNCHANGED disk /\ \A o \in Readers \ {r} : reader'[o] = reader[o]
  BY <1>t DEF Read, captureResultFiles, pinArchive, resolveArchivedFiles, closeSnapshot
<1>2. Right(reader[r])'
  <2>1. ASSUME NEW download \in BOOLEAN, captureResultFiles(r, download)
        PROVE  Right(reader[r])'
    BY <2>1, CaptureReader
  <2>2. CASE pinArchive(r)
    <3>1. /\ reader[r].pc = "captured"
          /\ reader'[r] = IF deleted THEN IdleReader ELSE [reader[r] EXCEPT !.pc = "pinned"]
      BY <1>t, <2>2 DEF pinArchive
    <3>2. CASE deleted
      BY <1>t, <3>1, <3>2 DEF Right
    <3>3. CASE ~deleted
      <4>1. /\ reader'[r].pc = "pinned" /\ reader'[r].indexed = reader[r].indexed
            /\ reader'[r].parts = reader[r].parts /\ reader'[r].expected = reader[r].expected
            /\ reader'[r].artifact = reader[r].artifact /\ reader'[r].latest = reader[r].latest
        BY <1>t, <3>1, <3>3 DEF ReaderType
      <4>2. reader[r].indexed => Ready(reader[r])
        BY <3>1, <3>3 DEF ReaderInv, Right
      <4>3. UNCHANGED <<files, index, importing, deleted>>
        BY <1>1 DEF disk
      <4>4. reader[r].indexed => Ready(reader[r])'
        BY <4>1, <4>2, <4>3 DEF Ready, Placed
      <4> QED
        BY <3>3, <4>1, <4>3, <4>4 DEF Right
    <3> QED
      BY <3>2, <3>3
  <2>3. CASE resolveArchivedFiles(r)
    BY <2>3, ResolveReader
  <2>4. CASE closeSnapshot(r)
    <3>1. reader'[r] = IdleReader
      BY <1>t, <2>4 DEF closeSnapshot
    <3> QED
      BY <1>t, <3>1 DEF Right
  <2> QED
    BY <2>1, <2>2, <2>3, <2>4 DEF Read
<1>3. ASSUME NEW o \in Readers \ {r} PROVE Right(reader[o])'
  <2>1. Right(reader[o]) /\ reader'[o] = reader[o] /\ UNCHANGED <<files, index, importing, deleted>>
    BY <1>1 DEF ReaderInv, disk
  <2> QED
    BY <2>1 DEF Right, Ready, Placed
<1> QED
  BY <1>2, <1>3 DEF ReaderInv

(* Every capture of an indexed run that is open reads each event that had  *)
(* been persisted when captureResultFiles took it, once and in order, and  *)
(* the artifact that was the last one then.                                *)
THEOREM CapturesExact == Spec => []CapturesAreExact
<1>1. BaseInv /\ CopyInv /\ FileInv /\ ReaderInv /\ [Next]_vars => ReaderInv'
  BY ReadReader, OtherReaders
<1>2. BaseInv /\ ReaderInv => CapturesAreExact
  <2> SUFFICES ASSUME BaseInv, ReaderInv, NEW r \in Readers,
                      reader[r].pc = "open", reader[r].indexed
               PROVE  /\ reader[r].log = [i \in 1 .. reader[r].expected |-> i]
                      /\ reader[r].artifact = reader[r].latest
    BY DEF CapturesAreExact
  <2>1. reader[r].log = Chunk(0, reader[r].expected) /\ reader[r].artifact = reader[r].latest
    BY DEF ReaderInv, Right
  <2>2. reader[r].expected \in Nat
    BY DEF BaseInv, TypeOK, ReaderType
  <2>3. ASSUME NEW n \in Nat PROVE Chunk(0, n) = [i \in 1 .. n |-> i]
    BY DEF Chunk
  <2> QED
    BY <2>1, <2>2, <2>3
<1> QED
  BY <1>1, <1>2, InitReader, Base, Copy, ArtifactIsKept, PTL DEF Spec
=============================================================================
