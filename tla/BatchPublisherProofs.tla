------------------------ MODULE BatchPublisherProofs ------------------------
(***************************************************************************)
(* The publisher thread, for any number of senders and destinations, any   *)
(* size and age of batches and any number of messages.                     *)
(*                                                                         *)
(* The order of the messages is a concatenation of batches, which          *)
(* FlattenSeq computes by recursion over the sequence of batches.  The     *)
(* facts about it are proved by induction in the form of a set of          *)
(* sequences closed under Append.                                          *)
(***************************************************************************)
EXTENDS BatchPublisher, FiniteSetTheorems, SequenceTheorems, WellFoundedInduction, TLAPS

-----------------------------------------------------------------------------
LEMMA SmallestNat ==
    ASSUME NEW T, T \subseteq Nat, T # {}
    PROVE  \E n \in T : \A m \in T : n <= m
<1>1. PICK k \in T : TRUE
  OBVIOUS
<1>2. k \in Nat /\ IsFiniteSet(1..k)
  BY FS_Interval
<1>. DEFINE U == {1..n : n \in T \cap 0..k}
<1>3. IsWellFoundedOn(StrictSubsetOrdering(1..k), SUBSET (1..k))
  <2>1. IsWellFoundedOn(StrictSubsetOrdering(1..k), FiniteSubsetsOf(1..k))
    BY FS_StrictSubsetOrderingWellFounded
  <2>2. FiniteSubsetsOf(1..k) = SUBSET (1..k)
    BY <1>2, FS_FiniteSubsetsOfFinite
  <2>. QED
    BY <2>1, <2>2
<1>4. U \subseteq SUBSET (1..k) /\ U # {}
  BY <1>1, <1>2
<1>5. PICK X \in U : \A Y \in U : <<Y, X>> \notin StrictSubsetOrdering(1..k)
  <2>. HIDE DEF U
  <2>. QED
    BY <1>3, <1>4, WFMin
<1>6. PICK n \in T \cap 0..k : X = 1..n
  OBVIOUS
<1>7. ASSUME NEW m \in T, m < n PROVE FALSE
  <2>1. m \in T \cap 0..k /\ m \in Nat /\ n \in Nat
    BY <1>2, <1>6, <1>7
  <2>2. 1..m \in U /\ 1..m \in SUBSET (1..k)
    BY <2>1
  <2>3. 1..m \subseteq 1..n /\ n \in 1..n /\ n \notin 1..m
    BY <1>7, <2>1
  <2>4. <<1..m, X>> \in StrictSubsetOrdering(1..k)
    BY <1>4, <1>6, <2>2, <2>3 DEF StrictSubsetOrdering
  <2>. QED
    BY <1>5, <2>2, <2>4
<1>. QED
  BY <1>6, <1>7

(* Induction over the sequences of a set.                                    *)
LEMMA SeqInduction ==
    ASSUME NEW S, NEW T, <<>> \in T, \A t \in Seq(S), x \in S : t \in T => Append(t, x) \in T
    PROVE  \A s \in Seq(S) : s \in T
<1> SUFFICES ASSUME NEW s0 \in Seq(S), s0 \notin T
             PROVE  FALSE
  OBVIOUS
<1>. DEFINE L == {Len(s) : s \in Seq(S) \ T}
<1>1. L \subseteq Nat /\ L # {}
  BY LenProperties
<1>2. PICK n \in L : \A m \in L : n <= m
  <2>. HIDE DEF L
  <2>. QED
    BY <1>1, SmallestNat
<1>3. PICK s \in Seq(S) : s \notin T /\ n = Len(s)
  OBVIOUS
<1>4. PICK t \in Seq(S), x \in S : s = Append(t, x)
  BY <1>1, <1>3, SequenceEmptyOrAppend
<1>5. t \notin T
  BY <1>3, <1>4
<1>6. Len(t) \in L /\ Len(t) \in Nat /\ Len(s) = Len(t) + 1
  BY <1>4, <1>5, LenProperties, AppendProperties
<1>. QED
  BY <1>2, <1>3, <1>4, <1>6

(* A concatenation holds what its parts hold.                                *)
LEMMA RangeConcat ==
    ASSUME NEW S, NEW s \in Seq(S), NEW t \in Seq(S), NEW m
    PROVE  m \in ToSet(s \o t) <=> m \in ToSet(s) \/ m \in ToSet(t)
<1>1. \A f : ToSet(f) = Range(f)
  BY DEF ToSet, Range
<1>2. Range(s \o t) = Range(s) \cup Range(t)
  BY RangeConcatenation
<1>. QED
  BY <1>1, <1>2

-----------------------------------------------------------------------------
(* FlattenSeq, by its recursion.                                             *)

Concats(s, g) == g = [i \in 1..Len(s) |-> IF i = 1 THEN s[i] ELSE g[i - 1] \o s[i]]
Flat(s) == CHOOSE g : Concats(s, g)

LEMMA FlattenEmpty == FlattenSeq(<<>>) = <<>>
BY DEF FlattenSeq

LEMMA FlattenIs ==
    ASSUME NEW s, Len(s) # 0
    PROVE  FlattenSeq(s) = Flat(s)[Len(s)]
BY DEF FlattenSeq, Flat, Concats

(* The recursion defines a function.                                         *)
LEMMA ConcatsExist ==
    ASSUME NEW S, NEW s0 \in Seq(Seq(S))
    PROVE  Concats(s0, Flat(s0))
<1>. DEFINE T == {s \in Seq(Seq(S)) : \E g : Concats(s, g)}
<1>1. <<>> \in T
  <2>1. Concats(<<>>, [i \in 1..0 |-> 0])
    BY DEF Concats
  <2>. QED
    BY <2>1, EmptySeq
<1>2. ASSUME NEW t \in Seq(Seq(S)), NEW x \in Seq(S), t \in T
      PROVE  Append(t, x) \in T
  <2>. DEFINE n == Len(t)
              u == Append(t, x)
  <2>1. /\ u \in Seq(Seq(S)) /\ n \in Nat /\ Len(u) = n + 1 /\ u[n + 1] = x
        /\ \A i \in 1..n : u[i] = t[i]
    BY AppendProperties, LenProperties
  <2>2. PICK g : Concats(t, g)
    BY <1>2
  <2>3. g = [i \in 1..n |-> IF i = 1 THEN t[i] ELSE g[i - 1] \o t[i]]
    BY <2>2 DEF Concats
  <2>. DEFINE h == [i \in 1..n + 1 |-> IF i \in 1..n THEN g[i] ELSE IF n = 0 THEN x ELSE g[n] \o x]
  <2>. HIDE DEF n, u
  <2>4. ASSUME NEW i \in 1..n + 1
        PROVE  h[i] = IF i = 1 THEN u[i] ELSE h[i - 1] \o u[i]
    <3>1. CASE i \in 1..n
      <4>1. h[i] = g[i] /\ u[i] = t[i] /\ g[i] = IF i = 1 THEN t[i] ELSE g[i - 1] \o t[i]
        BY <2>1, <2>3, <3>1
      <4>2. i # 1 => i - 1 \in 1..n /\ i - 1 \in 1..n + 1
        BY <2>1, <3>1
      <4>3. i # 1 => h[i - 1] = g[i - 1]
        BY <4>2
      <4>. QED
        BY <4>1, <4>3
    <3>2. CASE i = n + 1
      <4>1. i \notin 1..n /\ h[i] = IF n = 0 THEN x ELSE g[n] \o x
        BY <2>1, <3>2
      <4>2. n # 0 => n \in 1..n + 1 /\ n \in 1..n /\ i - 1 = n /\ i # 1
        BY <2>1, <3>2
      <4>3. n # 0 => h[i - 1] = g[n]
        BY <4>2
      <4>. QED
        BY <2>1, <3>2, <4>1, <4>2, <4>3
    <3>. QED
      BY <2>1, <3>1, <3>2
  <2>5. h = [i \in 1..n + 1 |-> IF i = 1 THEN u[i] ELSE h[i - 1] \o u[i]]
    BY <2>4
  <2>6. Concats(u, h)
    BY <2>1, <2>5 DEF Concats
  <2>. QED
    BY <2>1, <2>6 DEF u
<1>. HIDE DEF T
<1>3. s0 \in T
  BY <1>1, <1>2, SeqInduction
<1>. QED
  BY <1>3 DEF T, Flat

LEMMA FlattenAppend ==
    ASSUME NEW S, NEW t \in Seq(Seq(S)), NEW x \in Seq(S)
    PROVE  FlattenSeq(Append(t, x)) = FlattenSeq(t) \o x
<1>. DEFINE n == Len(t)
            u == Append(t, x)
            g == Flat(t)
            h == Flat(u)
<1>1. /\ u \in Seq(Seq(S)) /\ n \in Nat /\ Len(u) = n + 1 /\ u[n + 1] = x
      /\ \A i \in 1..n : u[i] = t[i]
  BY AppendProperties, LenProperties
<1>2. g = [i \in 1..n |-> IF i = 1 THEN t[i] ELSE g[i - 1] \o t[i]]
  BY ConcatsExist DEF Concats
<1>3. h = [i \in 1..n + 1 |-> IF i = 1 THEN u[i] ELSE h[i - 1] \o u[i]]
  BY <1>1, ConcatsExist DEF Concats
<1>4. FlattenSeq(u) = h[n + 1]
  <2>1. Len(u) # 0
    BY <1>1
  <2>2. FlattenSeq(u) = h[Len(u)]
    BY <2>1, FlattenIs
  <2>. QED
    BY <1>1, <2>2
<1>5. n # 0 => FlattenSeq(t) = g[n]
  BY FlattenIs
<1>6. n = 0 => FlattenSeq(t) = <<>>
  BY FlattenEmpty, EmptySeq
<1>. HIDE DEF n, u, g, h
<1>7. ASSUME NEW k \in 1..n, g[k] # h[k]
      PROVE  FALSE
  <2>. DEFINE T == {i \in 1..n : g[i] # h[i]}
  <2>1. T \subseteq Nat /\ T # {}
    <3>1. k \in T
      BY <1>7
    <3>2. \A i \in 1..n : i \in Nat
      BY <1>1
    <3>. QED
      BY <3>1, <3>2
  <2>2. PICK i \in T : \A j \in T : i <= j
    <3>. HIDE DEF T
    <3>. QED
      BY <2>1, SmallestNat
  <2>3. i \in 1..n /\ i \in 1..n + 1 /\ u[i] = t[i]
    BY <1>1
  <2>4. g[i] = IF i = 1 THEN t[i] ELSE g[i - 1] \o t[i]
    BY <1>2, <2>3
  <2>5. h[i] = IF i = 1 THEN u[i] ELSE h[i - 1] \o u[i]
    BY <1>3, <2>3
  <2>6. i # 1 => i - 1 \in 1..n /\ i - 1 < i
    BY <1>1, <2>3
  <2>7. i # 1 => g[i - 1] = h[i - 1]
    BY <2>2, <2>6
  <2>. QED
    BY <2>2, <2>3, <2>4, <2>5, <2>7
<1>8. CASE n = 0
  <2>1. h[1] = x
    BY <1>1, <1>3, <1>8
  <2>2. <<>> \o x = x
    BY ConcatEmptySeq
  <2>. QED
    BY <1>4, <1>6, <1>8, <2>1, <2>2 DEF u
<1>9. CASE n # 0
  <2>1. n + 1 \in 1..n + 1 /\ n + 1 # 1 /\ (n + 1) - 1 = n /\ n \in 1..n
    BY <1>1, <1>9
  <2>2. h[n + 1] = h[n] \o x
    BY <1>1, <1>3, <2>1
  <2>3. h[n] = g[n]
    BY <1>7, <2>1
  <2>. QED
    BY <1>4, <1>5, <1>9, <2>2, <2>3 DEF u
<1>. QED
  BY <1>8, <1>9

LEMMA FlattenType ==
    ASSUME NEW S, NEW s0 \in Seq(Seq(S))
    PROVE  FlattenSeq(s0) \in Seq(S)
<1>. DEFINE T == {s \in Seq(Seq(S)) : FlattenSeq(s) \in Seq(S)}
<1>1. <<>> \in T
  BY FlattenEmpty, EmptySeq
<1>2. ASSUME NEW t \in Seq(Seq(S)), NEW x \in Seq(S), t \in T
      PROVE  Append(t, x) \in T
  BY <1>2, FlattenAppend, ConcatProperties, AppendProperties
<1>. HIDE DEF T
<1>3. s0 \in T
  BY <1>1, <1>2, SeqInduction
<1>. QED
  BY <1>3 DEF T

(* The first sequence comes first.                                           *)
LEMMA FlattenTail ==
    ASSUME NEW S
    PROVE  \A s0 \in Seq(Seq(S)) : s0 # <<>> => FlattenSeq(s0) = Head(s0) \o FlattenSeq(Tail(s0))
<1>. DEFINE T == {s \in Seq(Seq(S)) : s # <<>> => FlattenSeq(s) = Head(s) \o FlattenSeq(Tail(s))}
<1>1. <<>> \in T
  BY EmptySeq
<1>2. ASSUME NEW t \in Seq(Seq(S)), NEW x \in Seq(S), t \in T
      PROVE  Append(t, x) \in T
  <2>1. Append(t, x) \in Seq(Seq(S)) /\ FlattenSeq(Append(t, x)) = FlattenSeq(t) \o x
    BY AppendProperties, FlattenAppend
  <2>2. CASE t = <<>>
    <3>1. Head(Append(t, x)) = x /\ Tail(Append(t, x)) = <<>>
      BY <2>2
    <3>2. <<>> \o x = x /\ x \o <<>> = x
      BY ConcatEmptySeq
    <3>. QED
      BY <2>1, <2>2, <3>1, <3>2, FlattenEmpty
  <2>3. CASE t # <<>>
    <3>1. /\ Head(t) \in Seq(S) /\ Tail(t) \in Seq(Seq(S))
          /\ FlattenSeq(t) = Head(t) \o FlattenSeq(Tail(t))
      BY <1>2, <2>3, HeadTailProperties
    <3>2. Head(Append(t, x)) = Head(t) /\ Tail(Append(t, x)) = Append(Tail(t), x)
      BY <2>3, HeadTailAppend
    <3>3. FlattenSeq(Append(Tail(t), x)) = FlattenSeq(Tail(t)) \o x /\ FlattenSeq(Tail(t)) \in Seq(S)
      BY <3>1, FlattenAppend, FlattenType
    <3>4. FlattenSeq(t) \o x = Head(t) \o (FlattenSeq(Tail(t)) \o x)
      <4>1. PICK a \in Seq(S), b \in Seq(S) : a = Head(t) /\ b = FlattenSeq(Tail(t))
        BY <3>1, <3>3
      <4>. HIDE DEF T
      <4>2. (a \o b) \o x = a \o (b \o x)
        BY ConcatAssociative
      <4>. QED
        BY <3>1, <4>1, <4>2
    <3>. QED
      BY <2>1, <3>2, <3>3, <3>4
  <2>. QED
    BY <2>2, <2>3
<1>. HIDE DEF T
<1>3. \A s0 \in Seq(Seq(S)) : s0 \in T
  BY <1>1, <1>2, SeqInduction
<1>. QED
  BY <1>3 DEF T

(* It holds what its sequences hold.                                         *)
LEMMA FlattenRange ==
    ASSUME NEW S, NEW s0 \in Seq(Seq(S)), NEW m
    PROVE  m \in ToSet(FlattenSeq(s0)) <=> \E i \in 1..Len(s0) : m \in ToSet(s0[i])
<1>. DEFINE Holds(s) == \E i \in 1..Len(s) : m \in ToSet(s[i])
            T == {s \in Seq(Seq(S)) : m \in ToSet(FlattenSeq(s)) <=> Holds(s)}
<1>1. <<>> \in T
  <2>1. ToSet(<<>>) = {}
    BY DEF ToSet
  <2>. QED
    BY <2>1, FlattenEmpty, EmptySeq
<1>2. ASSUME NEW t \in Seq(Seq(S)), NEW x \in Seq(S), t \in T
      PROVE  Append(t, x) \in T
  <2>. DEFINE f == FlattenSeq(t)
  <2>1. /\ Append(t, x) \in Seq(Seq(S)) /\ FlattenSeq(Append(t, x)) = f \o x
        /\ Len(t) \in Nat /\ Len(Append(t, x)) = Len(t) + 1 /\ Append(t, x)[Len(t) + 1] = x
        /\ \A i \in 1..Len(t) : Append(t, x)[i] = t[i]
    BY AppendProperties, FlattenAppend, LenProperties
  <2>2. m \in ToSet(f \o x) <=> m \in ToSet(f) \/ m \in ToSet(x)
    BY FlattenType, RangeConcat
  <2>3. Holds(Append(t, x)) <=> Holds(t) \/ m \in ToSet(x)
    <3>. PICK u \in Seq(Seq(S)), n \in Nat : u = Append(t, x) /\ n = Len(t)
      BY <2>1
    <3>1. Len(u) = n + 1 /\ u[n + 1] = x /\ \A i \in 1..n : u[i] = t[i]
      BY <2>1
    <3>2. /\ \A i \in 1..n + 1 : i \in 1..n \/ i = n + 1
          /\ \A i \in 1..n : i \in 1..n + 1
          /\ n + 1 \in 1..n + 1
      OBVIOUS
    <3>3. Holds(u) <=> Holds(t) \/ m \in ToSet(x)
      BY <3>1, <3>2
    <3>. QED
      BY <3>3
  <2>. QED
    BY <1>2, <2>1, <2>2, <2>3
<1>. HIDE DEF T
<1>3. s0 \in T
  BY <1>1, <1>2, SeqInduction
<1>. QED
  BY <1>3 DEF T

-----------------------------------------------------------------------------
Messages == [dest : Destinations, msg : Nat]
Items == Messages \cup {Sentinel}

\* The thread never waits on a message or on a full buffer with work left over.
PublisherTypes ==
    /\ sending \in [Senders -> Destinations \cup {NoDest}]
    /\ inputQueue \in Seq(Items)
    /\ buffers \in [Destinations -> Seq(Nat)]
    /\ age \in [Destinations -> {None} \cup 0..MaxAge]
    /\ thread \in {"get", "full", "expire", "drain", "stopped"}
    /\ flushing \subseteq Destinations
    /\ error \in BOOLEAN
    /\ closer \in {"open", "closing", "joining", "returned", "raised"}
    /\ published \in [Destinations -> Seq(Seq(Nat))]
    /\ sent \in [Destinations -> Nat]
    /\ late \subseteq Destinations \X Nat

LEMMA SentinelIsNone == \A d \in Destinations : Sentinel.dest # d
BY PublisherConstants DEF Sentinel, NoDest

LEMMA SinglesType ==
    ASSUME NEW q \in Seq(Items), NEW d \in Destinations
    PROVE  /\ Singles(q, d) \in Seq(Seq(Nat)) /\ Len(Singles(q, d)) = Len(q)
           /\ \A i \in 1..Len(q) : Singles(q, d)[i] = Single(q[i], d)
<1>1. Len(q) \in Nat /\ \A i \in 1..Len(q) : q[i] \in Items
  BY LenProperties, ElementOfSeq
<1>2. ASSUME NEW i \in 1..Len(q) PROVE Single(q[i], d) \in Seq(Nat)
  <2>1. CASE q[i].dest = d
    <3>1. q[i].msg \in Nat
      BY <1>1, <2>1, SentinelIsNone DEF Items, Messages
    <3>2. <<q[i].msg>> \in Seq(Nat)
      BY <3>1
    <3>. QED
      BY <2>1, <3>2 DEF Single
  <2>2. CASE q[i].dest # d
    BY <2>2, EmptySeq DEF Single
  <2>. QED
    BY <2>1, <2>2
<1>3. Singles(q, d) \in [1..Len(q) -> Seq(Nat)] /\ \A i \in 1..Len(q) : Singles(q, d)[i] = Single(q[i], d)
  BY <1>2 DEF Singles
<1>. HIDE DEF Singles
<1>. QED
  BY <1>1, <1>3

LEMMA QueuedType ==
    ASSUME inputQueue \in Seq(Items), NEW d \in Destinations
    PROVE  Queued(d) \in Seq(Nat)
BY SinglesType, FlattenType DEF Queued

(* A message that is put comes last among those of its destination.          *)
LEMMA QueuedAppend ==
    ASSUME inputQueue \in Seq(Items), NEW m \in Items, inputQueue' = Append(inputQueue, m),
           NEW d \in Destinations
    PROVE  Queued(d)' = IF m.dest = d THEN Append(Queued(d), m.msg) ELSE Queued(d)
<1>. DEFINE n == Len(inputQueue)
            s == Singles(inputQueue, d)
            t == Singles(inputQueue', d)
            x == Single(m, d)
<1>1. /\ n \in Nat /\ inputQueue' \in Seq(Items) /\ Len(inputQueue') = n + 1
      /\ inputQueue'[n + 1] = m /\ \A i \in 1..n : inputQueue'[i] = inputQueue[i]
  BY AppendProperties, LenProperties
<1>2. /\ s \in Seq(Seq(Nat)) /\ Len(s) = n /\ \A i \in 1..n : s[i] = Single(inputQueue[i], d)
      /\ t \in Seq(Seq(Nat)) /\ Len(t) = n + 1 /\ \A i \in 1..n + 1 : t[i] = Single(inputQueue'[i], d)
  BY <1>1, SinglesType
<1>3. x \in Seq(Nat)
  <2>1. t[n + 1] = x /\ n + 1 \in 1..Len(t)
    BY <1>1, <1>2
  <2>. HIDE DEF t, x
  <2>. QED
    BY <1>2, <2>1, ElementOfSeq
<1>. HIDE DEF n, s, t
<1>4. \A i \in 1..n + 1 : t[i] = IF i = n + 1 THEN x ELSE s[i]
  <2> SUFFICES ASSUME NEW i \in 1..n + 1
               PROVE  t[i] = IF i = n + 1 THEN x ELSE s[i]
    OBVIOUS
  <2>1. CASE i = n + 1
    BY <1>1, <1>2, <2>1
  <2>2. CASE i # n + 1
    <3>1. i \in 1..n
      BY <1>1, <2>2
    <3>. QED
      BY <1>1, <1>2, <2>2, <3>1
  <2>. QED
    BY <2>1, <2>2
<1>. HIDE DEF x
<1>5. t = Append(s, x)
  <2>1. /\ Append(s, x) \in Seq(Seq(Nat)) /\ Len(Append(s, x)) = n + 1
        /\ Append(s, x)[n + 1] = x /\ \A i \in 1..n : Append(s, x)[i] = s[i]
    BY <1>2, <1>3, AppendProperties
  <2>2. \A i \in 1..n + 1 : Append(s, x)[i] = t[i]
    <3>1. \A i \in 1..n + 1 : i = n + 1 \/ i \in 1..n
      BY <1>1
    <3>2. \A i \in 1..n : i # n + 1
      BY <1>1
    <3>. QED
      BY <1>4, <2>1, <3>1, <3>2
  <2>. QED
    BY <1>2, <2>1, <2>2, SeqEqual
<1>6. FlattenSeq(t) = FlattenSeq(s) \o x /\ FlattenSeq(s) \in Seq(Nat)
  BY <1>2, <1>3, <1>5, FlattenAppend, FlattenType
<1>7. Queued(d)' = FlattenSeq(t) /\ Queued(d) = FlattenSeq(s)
  BY DEF Queued, s, t
<1>8. CASE m.dest = d
  <2>1. x = <<m.msg>> /\ m.msg \in Nat
    BY <1>8, SentinelIsNone DEF x, Single, Items, Messages
  <2>2. FlattenSeq(s) \o <<m.msg>> = Append(FlattenSeq(s), m.msg)
    BY <1>6, <2>1, AppendIsConcat
  <2>. QED
    BY <1>6, <1>7, <1>8, <2>1, <2>2
<1>9. CASE m.dest # d
  <2>1. x = <<>>
    BY <1>9 DEF x, Single
  <2>2. FlattenSeq(s) \o <<>> = FlattenSeq(s)
    BY <1>6, ConcatEmptySeq
  <2>. QED
    BY <1>6, <1>7, <1>9, <2>1, <2>2
<1>. QED
  BY <1>8, <1>9

(* The first item of the queue is the first message of its destination.      *)
LEMMA QueuedTail ==
    ASSUME inputQueue \in Seq(Items), inputQueue # <<>>, inputQueue' = Tail(inputQueue),
           NEW d \in Destinations
    PROVE  Queued(d) = Single(Head(inputQueue), d) \o Queued(d)'
<1>. DEFINE n == Len(inputQueue)
            s == Singles(inputQueue, d)
            t == Singles(inputQueue', d)
<1>1. /\ n \in Nat \ {0} /\ inputQueue' \in Seq(Items) /\ Len(inputQueue') = n - 1
      /\ Head(inputQueue) = inputQueue[1] /\ \A i \in 1..n - 1 : inputQueue'[i] = inputQueue[i + 1]
  BY HeadTailProperties, EmptySeq
<1>2. /\ s \in Seq(Seq(Nat)) /\ Len(s) = n /\ \A i \in 1..n : s[i] = Single(inputQueue[i], d)
      /\ t \in Seq(Seq(Nat)) /\ Len(t) = n - 1 /\ \A i \in 1..n - 1 : t[i] = Single(inputQueue'[i], d)
  BY <1>1, SinglesType
<1>. HIDE DEF n, s, t
<1>3. s # <<>>
  BY <1>1, <1>2, EmptySeq
<1>4. /\ Tail(s) \in Seq(Seq(Nat)) /\ Len(Tail(s)) = n - 1 /\ Head(s) = s[1]
      /\ \A i \in 1..n - 1 : Tail(s)[i] = s[i + 1]
  BY <1>2, <1>3, HeadTailProperties
<1>5. \A i \in 1..n - 1 : Tail(s)[i] = t[i]
  <2> SUFFICES ASSUME NEW i \in 1..n - 1
               PROVE  Tail(s)[i] = t[i]
    OBVIOUS
  <2>1. i + 1 \in 1..n
    BY <1>1
  <2>. QED
    BY <1>1, <1>2, <1>4, <2>1
<1>6. Tail(s) = t
  BY <1>2, <1>4, <1>5, SeqEqual
<1>7. Head(s) = Single(Head(inputQueue), d)
  BY <1>1, <1>2, <1>4
<1>8. FlattenSeq(s) = Head(s) \o FlattenSeq(Tail(s))
  BY <1>2, <1>3, FlattenTail
<1>. QED
  BY <1>6, <1>7, <1>8 DEF Queued, s, t

LEMMA QueuedRange ==
    ASSUME inputQueue \in Seq(Items), NEW d \in Destinations, NEW n
    PROVE  n \in ToSet(Queued(d)) <=>
              \E i \in 1..Len(inputQueue) : inputQueue[i].dest = d /\ inputQueue[i].msg = n
<1>1. n \in ToSet(Queued(d)) <=>
         \E i \in 1..Len(inputQueue) : n \in ToSet(Single(inputQueue[i], d))
  BY SinglesType, FlattenRange DEF Queued
<1>2. ToSet(<<>>) = {} /\ \A m : ToSet(<<m>>) = {m}
  BY DEF ToSet
<1>3. \A i \in 1..Len(inputQueue) :
         n \in ToSet(Single(inputQueue[i], d)) <=> inputQueue[i].dest = d /\ inputQueue[i].msg = n
  BY <1>2 DEF Single
<1>. QED
  BY <1>1, <1>3

-----------------------------------------------------------------------------
(* Batches and deadlines.                                                    *)

BatchInv ==
    /\ \A d \in Destinations : age[d] # None <=> buffers[d] # <<>>
    /\ \A d \in flushing : buffers[d] # <<>>
    /\ \A d \in Destinations :
          /\ Len(buffers[d]) <= BatchMax
          /\ Len(buffers[d]) = BatchMax =>
                (thread = "full" /\ d \in flushing) \/ thread = "stopped"
    /\ \A d \in Destinations : \A i \in 1..Len(published[d]) : Len(published[d][i]) \in 1..BatchMax
    /\ thread \in {"get", "stopped"} => flushing = {}

PublisherInv == PublisherTypes /\ BatchInv

LEMMA Bounds == /\ BatchMax \in Nat \ {0} /\ MaxAge \in Nat \ {0} /\ None = -1
                /\ \A a \in {None} \cup 0..MaxAge : a >= MaxAge => a # None
BY PublisherConstants DEF None

LEMMA InitPublisher == Init => PublisherInv
<1> SUFFICES ASSUME Init
             PROVE  PublisherInv
  OBVIOUS
<1>1. /\ sending = [s \in Senders |-> NoDest] /\ inputQueue = <<>> /\ late = {}
      /\ buffers = [d \in Destinations |-> <<>>] /\ age = [d \in Destinations |-> None]
      /\ thread = "get" /\ flushing = {} /\ error = FALSE /\ closer = "open"
      /\ published = [d \in Destinations |-> <<>>] /\ sent = [d \in Destinations |-> 0]
  BY DEF Init
<1>2. PublisherTypes
  BY <1>1, EmptySeq DEF PublisherTypes
<1>3. Len(<<>>) = 0
  OBVIOUS
<1>4. BatchInv
  BY <1>1, <1>3, Bounds DEF BatchInv
<1>. QED
  BY <1>2, <1>4 DEF PublisherInv

LEMMA TakePublisher ==
    ASSUME PublisherInv, TakeMessage
    PROVE  /\ PublisherInv'
           /\ Head(inputQueue) \in Messages
           /\ \A d \in Destinations : buffers'[d] = IF d = Head(inputQueue).dest
                 THEN Append(buffers[d], Head(inputQueue).msg) ELSE buffers[d]
<1>. DEFINE h == Head(inputQueue)
<1>1. /\ thread = "get" /\ inputQueue # <<>> /\ h # Sentinel /\ inputQueue' = Tail(inputQueue)
      /\ buffers' = [buffers EXCEPT ![h.dest] = Append(@, h.msg)] /\ age' = Aged(h.dest)
      /\ IF FullWith(h.dest) THEN thread' = "full" /\ flushing' = {h.dest}
                             ELSE thread' = "expire" /\ flushing' = Expired(age')
      /\ UNCHANGED <<sending, error, closer, published, sent, late>>
  BY DEF TakeMessage
<1>2. h \in Messages /\ inputQueue' \in Seq(Items)
  BY <1>1, HeadTailProperties DEF PublisherInv, PublisherTypes, Items
<1>0. PICK e \in Destinations, m \in Nat : e = h.dest /\ m = h.msg
  BY <1>2 DEF Messages
<1>3. /\ buffers \in [Destinations -> Seq(Nat)] /\ age \in [Destinations -> {None} \cup 0..MaxAge]
      /\ published \in [Destinations -> Seq(Seq(Nat))]
  BY DEF PublisherInv, PublisherTypes
<1>4. /\ buffers'[e] = Append(buffers[e], m) /\ age'[e] = IF buffers[e] = <<>> THEN 0 ELSE age[e]
      /\ \A d \in Destinations : d # e => buffers'[d] = buffers[d] /\ age'[d] = age[d]
  BY <1>0, <1>1, <1>3 DEF Aged
<1>. PICK k \in Nat : k = Len(buffers[e])
  BY <1>3, LenProperties
<1>5. buffers'[e] \in Seq(Nat) /\ buffers'[e] # <<>> /\ Len(buffers'[e]) = k + 1
  <2>1. buffers[e] \in Seq(Nat)
    BY <1>3
  <2>2. /\ Append(buffers[e], m) \in Seq(Nat) /\ Append(buffers[e], m) # <<>>
        /\ Len(Append(buffers[e], m)) = Len(buffers[e]) + 1
    BY <2>1, AppendProperties
  <2>. QED
    BY <1>4, <2>2
<1>6. buffers' \in [Destinations -> Seq(Nat)] /\ age' \in [Destinations -> {None} \cup 0..MaxAge]
  <2>1. buffers' \in [Destinations -> Seq(Nat)]
    BY <1>0, <1>1, <1>3, <1>5
  <2>2. 0 \in 0..MaxAge
    BY Bounds
  <2>3. age' \in [Destinations -> {None} \cup 0..MaxAge]
    BY <1>0, <1>1, <1>3, <2>2 DEF Aged
  <2>. QED
    BY <2>1, <2>3
<1>7. PublisherTypes'
  <2>1. flushing' \subseteq Destinations /\ thread' \in {"get", "full", "expire", "drain", "stopped"}
    BY <1>0, <1>1 DEF Expired
  <2>. QED
    BY <1>1, <1>2, <1>6, <2>1 DEF PublisherInv, PublisherTypes
<1>8. \A d \in Destinations : age'[d] # None <=> buffers'[d] # <<>>
  BY <1>4, <1>5, Bounds DEF PublisherInv, BatchInv
<1>9. \A d \in flushing' : buffers'[d] # <<>>
  <2>1. \A d \in Expired(age') : d \in Destinations /\ age'[d] # None
    BY <1>6, Bounds DEF Expired
  <2>. QED
    BY <1>0, <1>1, <1>5, <1>8, <2>1
<1>10. FullWith(e) <=> k + 1 >= BatchMax
  BY DEF FullWith
<1>11. ASSUME NEW d \in Destinations
       PROVE  /\ Len(buffers'[d]) <= BatchMax
              /\ Len(buffers'[d]) = BatchMax =>
                    (thread' = "full" /\ d \in flushing') \/ thread' = "stopped"
  <2>1. CASE d = e
    <3>1. k <= BatchMax /\ k # BatchMax
      BY <1>1, <2>1 DEF PublisherInv, BatchInv
    <3>2. k + 1 <= BatchMax /\ (k + 1 = BatchMax => FullWith(e))
      BY <1>10, <3>1, Bounds
    <3>. QED
      BY <1>0, <1>1, <1>5, <2>1, <3>2
  <2>2. CASE d # e
    BY <1>1, <1>4, <2>2 DEF PublisherInv, BatchInv
  <2>. QED
    BY <2>1, <2>2
<1>12. thread' \notin {"get", "stopped"} /\ published' = published
  BY <1>1
<1>13. BatchInv'
  BY <1>8, <1>9, <1>11, <1>12 DEF PublisherInv, BatchInv
<1>. QED
  BY <1>0, <1>2, <1>4, <1>7, <1>13 DEF PublisherInv

LEMMA FlushPublisher ==
    ASSUME PublisherInv, NEW e \in Destinations, Flush(e)
    PROVE  PublisherInv'
<1>1. /\ e \in flushing /\ published' = [published EXCEPT ![e] = Append(@, buffers[e])]
      /\ buffers' = [buffers EXCEPT ![e] = <<>>] /\ age' = [age EXCEPT ![e] = None]
      /\ flushing' = flushing \ {e}
      /\ UNCHANGED <<sending, inputQueue, thread, error, closer, sent, late>>
  BY DEF Flush
<1>2. /\ buffers \in [Destinations -> Seq(Nat)] /\ age \in [Destinations -> {None} \cup 0..MaxAge]
      /\ published \in [Destinations -> Seq(Seq(Nat))]
  BY DEF PublisherInv, PublisherTypes
<1>3. /\ buffers'[e] = <<>> /\ age'[e] = None /\ published'[e] = Append(published[e], buffers[e])
      /\ \A d \in Destinations : d # e =>
            buffers'[d] = buffers[d] /\ age'[d] = age[d] /\ published'[d] = published[d]
  BY <1>1, <1>2
<1>. PICK p \in Seq(Seq(Nat)), b \in Seq(Nat) : p = published[e] /\ b = buffers[e]
  BY <1>2
<1>4. /\ Append(p, b) \in Seq(Seq(Nat)) /\ Len(p) \in Nat /\ Len(Append(p, b)) = Len(p) + 1
      /\ Append(p, b)[Len(p) + 1] = b /\ \A i \in 1..Len(p) : Append(p, b)[i] = p[i]
  BY AppendProperties, LenProperties
<1>5. PublisherTypes'
  <2>1. published' \in [Destinations -> Seq(Seq(Nat))]
    BY <1>1, <1>2, <1>4
  <2>2. buffers' \in [Destinations -> Seq(Nat)]
    BY <1>1, <1>2, EmptySeq
  <2>3. age' \in [Destinations -> {None} \cup 0..MaxAge]
    BY <1>1, <1>2
  <2>. QED
    BY <1>1, <2>1, <2>2, <2>3 DEF PublisherInv, PublisherTypes
<1>6. Len(b) \in 1..BatchMax
  <2>1. b # <<>> /\ Len(b) <= BatchMax
    BY <1>1 DEF PublisherInv, BatchInv
  <2>2. Len(b) \in Nat \ {0}
    BY <2>1, EmptySeq
  <2>. QED
    BY <2>1, <2>2, Bounds
<1>7. ASSUME NEW d \in Destinations
      PROVE  \A i \in 1..Len(published'[d]) : Len(published'[d][i]) \in 1..BatchMax
  <2>1. CASE d = e
    <3>1. \A i \in 1..Len(p) : Len(p[i]) \in 1..BatchMax
      BY DEF PublisherInv, BatchInv
    <3>2. \A i \in 1..Len(p) + 1 : i \in 1..Len(p) \/ i = Len(p) + 1
      BY <1>4
    <3>3. \A i \in 1..Len(Append(p, b)) : Len(Append(p, b)[i]) \in 1..BatchMax
      BY <1>4, <1>6, <3>1, <3>2
    <3>. QED
      BY <1>3, <2>1, <3>3
  <2>2. CASE d # e
    BY <1>3, <2>2 DEF PublisherInv, BatchInv
  <2>. QED
    BY <2>1, <2>2
<1>8. Len(buffers'[e]) = 0
  BY <1>3
<1>9. BatchInv'
  <2>1. \A d \in Destinations : age'[d] # None <=> buffers'[d] # <<>>
    BY <1>3 DEF PublisherInv, BatchInv
  <2>2. \A d \in flushing' : buffers'[d] # <<>>
    BY <1>1, <1>3 DEF PublisherInv, PublisherTypes, BatchInv
  <2>3. ASSUME NEW d \in Destinations
        PROVE  /\ Len(buffers'[d]) <= BatchMax
               /\ Len(buffers'[d]) = BatchMax =>
                     (thread' = "full" /\ d \in flushing') \/ thread' = "stopped"
    <3>1. CASE d = e
      BY <1>8, <3>1, Bounds
    <3>2. CASE d # e
      BY <1>1, <1>3, <3>2 DEF PublisherInv, BatchInv
    <3>. QED
      BY <3>1, <3>2
  <2>4. thread' \in {"get", "stopped"} => flushing' = {}
    BY <1>1 DEF PublisherInv, BatchInv
  <2>. QED
    BY <1>7, <2>1, <2>2, <2>3, <2>4 DEF BatchInv
<1>. QED
  BY <1>5, <1>9 DEF PublisherInv

(* A pass: what it takes up is not empty.                                    *)
LEMMA PassPublisher ==
    ASSUME PublisherInv,
           TimeOut \/ EndPass \/ FlushFails \/ TakeSentinel
    PROVE  PublisherInv'
<1>1. /\ UNCHANGED <<sending, buffers, age, closer, published, sent, late>>
      /\ error' \in BOOLEAN /\ inputQueue' \in Seq(Items)
  <2>1. inputQueue # <<>> => Tail(inputQueue) \in Seq(Items)
    BY HeadTailProperties DEF PublisherInv, PublisherTypes
  <2>. QED
    BY <2>1 DEF PublisherInv, PublisherTypes, TimeOut, EndPass, FlushFails, TakeSentinel
<1>2. /\ \A d \in Expired(age) : d \in Destinations /\ buffers[d] # <<>>
      /\ \A d \in Buffered : d \in Destinations /\ buffers[d] # <<>>
  BY Bounds DEF Expired, Buffered, PublisherInv, PublisherTypes, BatchInv
<1>3. /\ thread' \in {"get", "full", "expire", "drain", "stopped"}
      /\ flushing' = {} \/ flushing' = Expired(age) \/ flushing' = Buffered
      /\ thread' \in {"get", "stopped"} => flushing' = {}
  BY DEF PublisherInv, BatchInv, TimeOut, EndPass, FlushFails, TakeSentinel
<1>4. PublisherTypes'
  BY <1>1, <1>2, <1>3 DEF PublisherInv, PublisherTypes
<1>5. ASSUME NEW d \in Destinations, Len(buffers[d]) = BatchMax
      PROVE  thread' = "stopped"
  BY <1>5 DEF PublisherInv, BatchInv, TimeOut, EndPass, FlushFails, TakeSentinel
<1>6. BatchInv'
  BY <1>1, <1>2, <1>3, <1>5 DEF PublisherInv, BatchInv
<1>. QED
  BY <1>4, <1>6 DEF PublisherInv

(* Whoever sends or closes leaves the thread's state alone.                  *)
LEMMA CallPublisher ==
    ASSUME PublisherInv,
           \/ \E s \in Senders, d \in Destinations : EnqueueCheck(s, d)
           \/ \E s \in Senders : EnqueuePut(s)
           \/ CloseStart \/ CloseEnqueue \/ CloseJoined \/ UNCHANGED vars
    PROVE  PublisherInv'
<1>1. UNCHANGED <<buffers, age, thread, flushing, error, published>>
  BY DEF EnqueueCheck, EnqueuePut, CloseStart, CloseEnqueue, CloseJoined, vars
<1>2. BatchInv'
  BY <1>1 DEF PublisherInv, BatchInv
<1>3. ASSUME NEW s \in Senders, EnqueuePut(s)
      PROVE  PublisherTypes'
  <2>. PICK d \in Destinations, n \in Nat : d = sending[s] /\ n = sent[d] + 1
    BY <1>3 DEF EnqueuePut, PublisherInv, PublisherTypes
  <2>1. /\ inputQueue' = Append(inputQueue, [dest |-> d, msg |-> n])
        /\ sent' = [sent EXCEPT ![d] = n] /\ sending' = [sending EXCEPT ![s] = NoDest]
        /\ late' \subseteq late \cup {<<d, n>>} /\ closer' = closer
    BY <1>3 DEF EnqueuePut
  <2>2. [dest |-> d, msg |-> n] \in Items
    BY DEF Items, Messages
  <2>3. inputQueue' \in Seq(Items)
    BY <2>1, <2>2, AppendProperties DEF PublisherInv, PublisherTypes
  <2>. QED
    BY <1>1, <2>1, <2>3 DEF PublisherInv, PublisherTypes
<1>4. CASE CloseEnqueue
  <2>1. inputQueue' \in Seq(Items)
    BY <1>4, AppendProperties DEF CloseEnqueue, PublisherInv, PublisherTypes, Items
  <2>. QED
    BY <1>1, <1>2, <1>4, <2>1 DEF CloseEnqueue, PublisherInv, PublisherTypes
<1>5. CASE \E s \in Senders, d \in Destinations : EnqueueCheck(s, d)
  BY <1>1, <1>2, <1>5 DEF EnqueueCheck, PublisherInv, PublisherTypes
<1>6. CASE CloseStart \/ CloseJoined \/ UNCHANGED vars
  BY <1>1, <1>2, <1>6 DEF CloseStart, CloseJoined, vars, PublisherInv, PublisherTypes
<1>. QED
  BY <1>2, <1>3, <1>4, <1>5, <1>6 DEF PublisherInv

LEMMA TickPublisher ==
    ASSUME PublisherInv, Tick
    PROVE  PublisherInv'
<1>1. /\ age' = [d \in Destinations |-> Older(age[d])]
      /\ UNCHANGED <<sending, inputQueue, buffers, thread, flushing, error, closer, published,
                     sent, late>>
  BY DEF Tick
<1>2. \A a \in {None} \cup 0..MaxAge : Older(a) \in {None} \cup 0..MaxAge /\ (Older(a) = None <=> a = None)
  BY Bounds DEF Older
<1>3. \A d \in Destinations : age'[d] \in {None} \cup 0..MaxAge /\ (age'[d] = None <=> age[d] = None)
  BY <1>1, <1>2 DEF PublisherInv, PublisherTypes
<1>4. PublisherTypes'
  BY <1>1, <1>3 DEF PublisherInv, PublisherTypes
<1>5. BatchInv'
  BY <1>1, <1>3 DEF PublisherInv, BatchInv
<1>. QED
  BY <1>4, <1>5 DEF PublisherInv

LEMMA NextPublisher == PublisherInv /\ [Next]_vars => PublisherInv'
BY TakePublisher, FlushPublisher, PassPublisher, CallPublisher, TickPublisher
   DEF Next, ThreadStep, CloseStep

LEMMA SpecPublisher == Spec => []PublisherInv
BY InitPublisher, NextPublisher, PTL DEF Spec

(* A destination has a deadline exactly while messages of it wait.           *)
THEOREM DeadlineHolds == Spec => []DeadlineWhileWaiting
<1>1. PublisherInv => DeadlineWhileWaiting
  BY DEF PublisherInv, BatchInv, DeadlineWhileWaiting
<1>. QED
  BY <1>1, SpecPublisher, PTL

(* No batch is empty or larger than BatchMax, also those that a deadline or  *)
(* close() cuts short.                                                       *)
THEOREM BatchesBoundedHolds == Spec => []BatchesBounded
<1>1. PublisherInv => BatchesBounded
  <2> SUFFICES ASSUME PublisherInv, NEW d \in Destinations, NEW b \in ToSet(published[d])
               PROVE  Len(b) \in 1..BatchMax
    BY DEF BatchesBounded
  <2>1. published[d] \in Seq(Seq(Nat))
    BY DEF PublisherInv, PublisherTypes
  <2>2. DOMAIN published[d] = 1..Len(published[d])
    BY <2>1, LenProperties
  <2>. QED
    BY <2>2 DEF ToSet, PublisherInv, BatchInv
<1>. QED
  BY <1>1, SpecPublisher, PTL

-----------------------------------------------------------------------------
(* Order: what was published, buffered and queued is what was sent.          *)

LEMMA NatAssociative ==
    ASSUME NEW a \in Seq(Nat), NEW b \in Seq(Nat), NEW c \in Seq(Nat)
    PROVE  a \o (b \o c) = (a \o b) \o c
<1>1. PICK S : S = Nat
  OBVIOUS
<1>2. a \in Seq(S) /\ b \in Seq(S) /\ c \in Seq(S)
  BY <1>1
<1>. QED
  BY <1>2, ConcatAssociative

LEMMA AppendNat ==
    ASSUME NEW b \in Seq(Nat), NEW m \in Nat
    PROVE  \E x \in Seq(Nat) : x = <<m>> /\ Append(b, m) = b \o x
<1>1. <<m>> \in Seq(Nat) /\ Append(b, m) = b \o <<m>>
  BY AppendIsConcat
<1>. QED
  BY <1>1, Zenon

LEMMA PutLast ==
    ASSUME NEW a \in Seq(Nat), NEW q \in Seq(Nat), NEW m \in Nat
    PROVE  a \o Append(q, m) = Append(a \o q, m)
<1>1. PICK x \in Seq(Nat) : x = <<m>> /\ Append(q, m) = q \o x
  BY AppendNat
<1>2. PICK y \in Seq(Nat) : y = a \o q
  BY ConcatProperties
<1>3. PICK z \in Seq(Nat) : z = <<m>> /\ Append(y, m) = y \o z
  BY AppendNat
<1>4. a \o (q \o x) = (a \o q) \o x
  BY NatAssociative
<1>. QED
  BY <1>1, <1>2, <1>3, <1>4

LEMMA UpToType ==
    ASSUME NEW n \in Nat
    PROVE  UpTo(n) \in Seq(Nat) /\ Len(UpTo(n)) = n /\ \A i \in 1..n : UpTo(n)[i] = i
<1>1. UpTo(n) \in [1..n -> Nat] /\ \A i \in 1..n : UpTo(n)[i] = i
  BY DEF UpTo
<1>. HIDE DEF UpTo
<1>. QED
  BY <1>1

LEMMA UpToAppend ==
    ASSUME NEW n \in Nat
    PROVE  UpTo(n + 1) = Append(UpTo(n), n + 1)
<1>1. /\ UpTo(n) \in Seq(Nat) /\ Len(UpTo(n)) = n /\ \A i \in 1..n : UpTo(n)[i] = i
      /\ UpTo(n + 1) \in Seq(Nat) /\ Len(UpTo(n + 1)) = n + 1 /\ \A i \in 1..n + 1 : UpTo(n + 1)[i] = i
  BY UpToType
<1>2. /\ Append(UpTo(n), n + 1) \in Seq(Nat) /\ Len(Append(UpTo(n), n + 1)) = n + 1
      /\ Append(UpTo(n), n + 1)[n + 1] = n + 1
      /\ \A i \in 1..n : Append(UpTo(n), n + 1)[i] = UpTo(n)[i]
  BY <1>1, AppendProperties
<1>3. \A i \in 1..n + 1 : i \in 1..n \/ i = n + 1
  OBVIOUS
<1>4. \A i \in 1..n + 1 : UpTo(n + 1)[i] = Append(UpTo(n), n + 1)[i]
  BY <1>1, <1>2, <1>3
<1>. QED
  BY <1>1, <1>2, <1>4, SeqEqual

LEMMA DeliveredType ==
    ASSUME PublisherTypes, NEW d \in Destinations
    PROVE  /\ Delivered(d) \in Seq(Nat) /\ buffers[d] \in Seq(Nat) /\ Queued(d) \in Seq(Nat)
           /\ sent[d] \in Nat /\ published[d] \in Seq(Seq(Nat))
BY FlattenType, QueuedType DEF PublisherTypes, Delivered

LEMMA TakeInOrder ==
    ASSUME PublisherInv, SentInOrder, TakeMessage
    PROVE  SentInOrder'
<1> SUFFICES ASSUME NEW d \in Destinations
             PROVE  (Delivered(d) \o buffers[d] \o Queued(d) = UpTo(sent[d]))'
  BY DEF SentInOrder
<1>1. /\ Head(inputQueue) \in Messages
      /\ buffers'[d] = IF d = Head(inputQueue).dest THEN Append(buffers[d], Head(inputQueue).msg)
                                                    ELSE buffers[d]
  BY TakePublisher
<1>2. inputQueue # <<>> /\ inputQueue' = Tail(inputQueue) /\ published' = published /\ sent' = sent
  BY DEF TakeMessage
<1>3. Queued(d) = Single(Head(inputQueue), d) \o Queued(d)'
  BY <1>2, QueuedTail DEF PublisherInv, PublisherTypes
<1>4. Delivered(d)' = Delivered(d) /\ UpTo(sent[d])' = UpTo(sent[d])
  BY <1>2 DEF Delivered, UpTo
<1>5. inputQueue' \in Seq(Items)
  BY <1>2, HeadTailProperties DEF PublisherInv, PublisherTypes
<1>6. /\ Delivered(d) \in Seq(Nat) /\ buffers[d] \in Seq(Nat) /\ Queued(d)' \in Seq(Nat)
      /\ Delivered(d) \o buffers[d] \o Queued(d) = UpTo(sent[d])
  <2>1. FlattenSeq(Singles(inputQueue', d)) \in Seq(Nat)
    BY <1>5, SinglesType, FlattenType
  <2>2. Queued(d)' \in Seq(Nat)
    BY <2>1 DEF Queued
  <2>. QED
    BY <2>2, DeliveredType DEF PublisherInv, SentInOrder
<1>7. PICK S, a, b, q :
         /\ S = Nat /\ a \in Seq(S) /\ b \in Seq(S) /\ q \in Seq(S)
         /\ a = Delivered(d) /\ b = buffers[d] /\ q = Queued(d)'
  BY <1>6
<1>8. ASSUME NEW x \in Seq(S)
      PROVE  a \o (b \o x) \o q = a \o b \o (x \o q)
  <2>1. a \in Seq(S) /\ b \in Seq(S) /\ q \in Seq(S)
    BY <1>7
  <2>2. a \o (b \o x) = (a \o b) \o x
    BY <2>1, ConcatAssociative
  <2>3. PICK y \in Seq(S) : y = a \o b
    BY <2>1, ConcatProperties
  <2>4. (y \o x) \o q = y \o (x \o q)
    BY <2>1, ConcatAssociative
  <2>. QED
    BY <2>2, <2>3, <2>4
<1>9. CASE Head(inputQueue).dest = d
  <2>1. PICK m : m \in Nat /\ m = Head(inputQueue).msg
    BY <1>1 DEF Messages
  <2>2. Queued(d) = <<m>> \o q
    BY <1>3, <1>7, <1>9, <2>1 DEF Single
  <2>3. buffers'[d] = Append(b, m)
    BY <1>1, <1>7, <1>9, <2>1
  <2>4. PICK x : x \in Seq(Nat) /\ x = <<m>> /\ Append(b, m) = b \o x
    BY <1>7, <2>1, AppendNat
  <2>5. x \in Seq(S)
    BY <1>7, <2>4
  <2>6. a \o (b \o x) \o q = a \o b \o (x \o q)
    BY <1>8, <2>5
  <2>. QED
    BY <1>4, <1>6, <1>7, <2>2, <2>3, <2>4, <2>6
<1>10. CASE Head(inputQueue).dest # d
  <2>1. Queued(d) = <<>> \o q
    BY <1>3, <1>7, <1>10 DEF Single
  <2>2. <<>> \o q = q
    BY ConcatEmptySeq
  <2>3. buffers'[d] = buffers[d]
    BY <1>1, <1>10
  <2>. QED
    BY <1>4, <1>6, <1>7, <2>1, <2>2, <2>3
<1>. QED
  BY <1>9, <1>10

LEMMA FlushInOrder ==
    ASSUME PublisherInv, SentInOrder, NEW e \in Destinations, Flush(e)
    PROVE  SentInOrder'
<1> SUFFICES ASSUME NEW d \in Destinations
             PROVE  (Delivered(d) \o buffers[d] \o Queued(d) = UpTo(sent[d]))'
  BY DEF SentInOrder
<1>1. /\ published' = [published EXCEPT ![e] = Append(@, buffers[e])]
      /\ buffers' = [buffers EXCEPT ![e] = <<>>] /\ UNCHANGED <<inputQueue, sent>>
  BY DEF Flush
<1>2. Queued(d)' = Queued(d) /\ UpTo(sent[d])' = UpTo(sent[d])
  BY <1>1 DEF Queued, Singles, UpTo
<1>3. /\ Delivered(d) \in Seq(Nat) /\ buffers[d] \in Seq(Nat) /\ published[d] \in Seq(Seq(Nat))
      /\ Delivered(d) \o buffers[d] \o Queued(d) = UpTo(sent[d])
  BY DeliveredType DEF PublisherInv, SentInOrder
<1>4. /\ published'[d] = IF d = e THEN Append(published[d], buffers[d]) ELSE published[d]
      /\ buffers'[d] = IF d = e THEN <<>> ELSE buffers[d]
  BY <1>1 DEF PublisherInv, PublisherTypes
<1>5. CASE d = e
  <2>1. FlattenSeq(Append(published[d], buffers[d])) = FlattenSeq(published[d]) \o buffers[d]
    BY <1>3, FlattenAppend
  <2>2. Delivered(d)' = Delivered(d) \o buffers[d]
    BY <1>4, <1>5, <2>1 DEF Delivered
  <2>3. Delivered(d) \o buffers[d] \in Seq(Nat)
    BY <1>3, ConcatProperties
  <2>4. (Delivered(d) \o buffers[d]) \o <<>> = Delivered(d) \o buffers[d]
    BY <2>3, ConcatEmptySeq
  <2>. QED
    BY <1>2, <1>3, <1>4, <1>5, <2>2, <2>4
<1>6. CASE d # e
  <2>1. Delivered(d)' = Delivered(d) /\ buffers'[d] = buffers[d]
    BY <1>4, <1>6 DEF Delivered
  <2>. QED
    BY <1>2, <1>3, <2>1
<1>. QED
  BY <1>5, <1>6

(* What is put is the next number of its destination, or the sentinel.       *)
LEMMA PutInOrder ==
    ASSUME PublisherInv, SentInOrder, CloseEnqueue \/ \E s \in Senders : EnqueuePut(s)
    PROVE  SentInOrder'
<1> SUFFICES ASSUME NEW d \in Destinations
             PROVE  (Delivered(d) \o buffers[d] \o Queued(d) = UpTo(sent[d]))'
  BY DEF SentInOrder
<1>1. PICK m \in Items :
         /\ inputQueue' = Append(inputQueue, m) /\ UNCHANGED <<published, buffers>>
         /\ sent'[d] = IF m.dest = d THEN sent[d] + 1 ELSE sent[d]
         /\ m.dest = d => m.msg = sent[d] + 1
  <2>1. CASE CloseEnqueue
    BY <2>1, SentinelIsNone DEF CloseEnqueue, Items
  <2>2. ASSUME NEW s \in Senders, EnqueuePut(s)
        PROVE  \E m \in Items :
                  /\ inputQueue' = Append(inputQueue, m) /\ UNCHANGED <<published, buffers>>
                  /\ sent'[d] = IF m.dest = d THEN sent[d] + 1 ELSE sent[d]
                  /\ m.dest = d => m.msg = sent[d] + 1
    <3>1. PICK e \in Destinations, n \in Nat : e = sending[s] /\ n = sent[e] + 1
      BY <2>2 DEF EnqueuePut, PublisherInv, PublisherTypes
    <3>2. /\ inputQueue' = Append(inputQueue, [dest |-> e, msg |-> n])
          /\ sent' = [sent EXCEPT ![e] = n] /\ UNCHANGED <<published, buffers>>
      BY <2>2, <3>1 DEF EnqueuePut
    <3>3. [dest |-> e, msg |-> n] \in Items
      BY DEF Items, Messages
    <3>. QED
      BY <3>1, <3>2, <3>3 DEF PublisherInv, PublisherTypes
  <2>. QED
    BY <2>1, <2>2
<1>2. Queued(d)' = IF m.dest = d THEN Append(Queued(d), m.msg) ELSE Queued(d)
  BY <1>1, QueuedAppend DEF PublisherInv, PublisherTypes
<1>3. /\ Delivered(d) \in Seq(Nat) /\ buffers[d] \in Seq(Nat) /\ Queued(d) \in Seq(Nat)
      /\ sent[d] \in Nat /\ Delivered(d) \o buffers[d] \o Queued(d) = UpTo(sent[d])
  BY DeliveredType DEF PublisherInv, SentInOrder
<1>4. Delivered(d)' = Delivered(d) /\ buffers'[d] = buffers[d]
  BY <1>1 DEF Delivered
<1>5. CASE m.dest = d
  <2>1. PICK a \in Seq(Nat), q \in Seq(Nat), n \in Nat :
           a = Delivered(d) \o buffers[d] /\ q = Queued(d) /\ n = sent[d]
    BY <1>3, ConcatProperties
  <2>2. a \o Append(q, n + 1) = Append(a \o q, n + 1)
    BY PutLast
  <2>3. Queued(d)' = Append(q, n + 1) /\ UpTo(sent[d])' = UpTo(n + 1) /\ a \o q = UpTo(n)
    BY <1>1, <1>2, <1>3, <1>5, <2>1 DEF UpTo
  <2>4. UpTo(n + 1) = Append(UpTo(n), n + 1)
    BY UpToAppend
  <2>. QED
    BY <1>4, <2>1, <2>2, <2>3, <2>4
<1>6. CASE m.dest # d
  <2>1. Queued(d)' = Queued(d) /\ UpTo(sent[d])' = UpTo(sent[d])
    BY <1>1, <1>2, <1>6 DEF UpTo
  <2>. QED
    BY <1>3, <1>4, <2>1
<1>. QED
  BY <1>5, <1>6

(* What takes nothing from one place and puts nothing in another.            *)
LEMMA RestInOrder ==
    ASSUME PublisherInv, SentInOrder,
           \/ TimeOut \/ EndPass \/ FlushFails \/ TakeSentinel \/ CloseStart \/ CloseJoined
           \/ Tick \/ UNCHANGED vars \/ \E s \in Senders, d \in Destinations : EnqueueCheck(s, d)
    PROVE  SentInOrder'
<1> SUFFICES ASSUME NEW d \in Destinations
             PROVE  (Delivered(d) \o buffers[d] \o Queued(d) = UpTo(sent[d]))'
  BY DEF SentInOrder
<1>1. UNCHANGED <<published, buffers, sent>> /\ (UNCHANGED inputQueue \/ TakeSentinel)
  BY DEF TimeOut, EndPass, FlushFails, TakeSentinel, CloseStart, CloseJoined, Tick, vars,
         EnqueueCheck
<1>2. Delivered(d)' = Delivered(d) /\ buffers'[d] = buffers[d] /\ UpTo(sent[d])' = UpTo(sent[d])
  BY <1>1 DEF Delivered, UpTo
<1>3. Queued(d)' = Queued(d)
  <2>1. CASE UNCHANGED inputQueue
    BY <2>1 DEF Queued, Singles
  <2>2. CASE TakeSentinel
    <3>1. inputQueue # <<>> /\ inputQueue' = Tail(inputQueue) /\ Head(inputQueue) = Sentinel
      BY <2>2 DEF TakeSentinel
    <3>2. Queued(d) = Single(Head(inputQueue), d) \o Queued(d)'
      BY <3>1, QueuedTail DEF PublisherInv, PublisherTypes
    <3>3. Single(Head(inputQueue), d) = <<>>
      BY <3>1, SentinelIsNone DEF Single
    <3>4. Queued(d)' \in Seq(Nat)
      <4>1. inputQueue' \in Seq(Items)
        BY <3>1, HeadTailProperties DEF PublisherInv, PublisherTypes
      <4>2. FlattenSeq(Singles(inputQueue', d)) \in Seq(Nat)
        BY <4>1, SinglesType, FlattenType
      <4>. QED
        BY <4>2 DEF Queued
    <3>5. <<>> \o Queued(d)' = Queued(d)'
      BY <3>4, ConcatEmptySeq
    <3>. QED
      BY <3>2, <3>3, <3>5
  <2>. QED
    BY <1>1, <2>1, <2>2
<1>. QED
  BY <1>2, <1>3 DEF SentInOrder

LEMMA InitInOrder == Init => SentInOrder
<1> SUFFICES ASSUME Init, NEW d \in Destinations
             PROVE  Delivered(d) \o buffers[d] \o Queued(d) = UpTo(sent[d])
  BY DEF SentInOrder
<1>1. published[d] = <<>> /\ buffers[d] = <<>> /\ inputQueue = <<>> /\ sent[d] = 0
  BY DEF Init
<1>2. Delivered(d) = <<>>
  BY <1>1, FlattenEmpty DEF Delivered
<1>3. Singles(inputQueue, d) = <<>>
  BY <1>1 DEF Singles
<1>4. Queued(d) = <<>>
  BY <1>3, FlattenEmpty DEF Queued
<1>5. UpTo(0) = <<>> /\ <<>> \o <<>> = <<>>
  BY DEF UpTo
<1>. QED
  BY <1>1, <1>2, <1>4, <1>5

LEMMA NextInOrder == PublisherInv /\ SentInOrder /\ [Next]_vars => SentInOrder'
BY TakeInOrder, FlushInOrder, PutInOrder, RestInOrder DEF Next, ThreadStep, CloseStep

(* Between send() and the broker no message is lost, repeated or overtaken.  *)
THEOREM SentInOrderHolds == Spec => []SentInOrder
<1>1. PublisherInv /\ SentInOrder /\ [Next]_vars => SentInOrder'
  BY NextInOrder
<1>. QED
  BY <1>1, InitInOrder, SpecPublisher, PTL DEF Spec

-----------------------------------------------------------------------------
(* close(): the sentinel is at p, past the end of the queue before it is put *)
(* and at 0 once the thread has taken it; the messages behind it are late.   *)

At(i) == <<inputQueue[i].dest, inputQueue[i].msg>>

SentinelAt(p) ==
    /\ closer \in {"open", "closing"} <=> p = Len(inputQueue) + 1
    /\ \A i \in 1..Len(inputQueue) : inputQueue[i] = Sentinel <=> i = p
    /\ p = 0 => thread \in {"drain", "stopped"}
    /\ p # 0 => thread # "drain" /\ (thread = "stopped" => error)
    /\ late = {At(i) : i \in p + 1..Len(inputQueue)}

StopInv ==
    /\ error => thread = "stopped"
    /\ closer = "returned" => thread = "stopped" /\ ~error
    /\ thread = "drain" => Buffered \subseteq flushing
    /\ thread = "stopped" /\ ~error => Buffered = {}

CloseInv ==
    /\ StopInv
    /\ \E p \in 0..Len(inputQueue) + 1 : SentinelAt(p)

LEMMA QueueLength ==
    ASSUME PublisherInv
    PROVE  Len(inputQueue) \in Nat /\ \A i \in 1..Len(inputQueue) : inputQueue[i] \in Items
BY LenProperties, ElementOfSeq DEF PublisherInv, PublisherTypes

LEMMA MessageIsNoSentinel == \A m \in Messages : m # Sentinel
BY SentinelIsNone DEF Messages

LEMMA InitClose == Init => CloseInv
<1> SUFFICES ASSUME Init
             PROVE  CloseInv
  OBVIOUS
<1>1. /\ inputQueue = <<>> /\ late = {} /\ buffers = [d \in Destinations |-> <<>>]
      /\ thread = "get" /\ error = FALSE /\ closer = "open"
  BY DEF Init
<1>2. Len(inputQueue) = 0
  BY <1>1
<1>3. SentinelAt(1)
  BY <1>1, <1>2 DEF SentinelAt
<1>. QED
  BY <1>1, <1>2, <1>3 DEF CloseInv, StopInv

(* The thread takes what is before the sentinel, and the sentinel last.      *)
LEMMA TakeClose ==
    ASSUME PublisherInv, CloseInv, TakeMessage \/ TakeSentinel
    PROVE  CloseInv'
<1>1. /\ thread = "get" /\ inputQueue # <<>> /\ inputQueue' = Tail(inputQueue)
      /\ UNCHANGED <<error, closer, late>>
  BY DEF TakeMessage, TakeSentinel
<1>2. PICK p \in 0..Len(inputQueue) + 1 : SentinelAt(p)
  BY DEF CloseInv
<1>3. PICK n \in Nat \ {0} : n = Len(inputQueue)
  BY <1>1, EmptySeq DEF PublisherInv, PublisherTypes
<1>4. /\ Len(inputQueue') = n - 1 /\ Head(inputQueue) = inputQueue[1]
      /\ \A i \in 1..n - 1 : inputQueue'[i] = inputQueue[i + 1]
  BY <1>1, <1>3, HeadTailProperties DEF PublisherInv, PublisherTypes
<1>5. p \in 1..n + 1 /\ (p = 1 <=> Head(inputQueue) = Sentinel)
  <2>1. p # 0
    BY <1>1, <1>2 DEF SentinelAt
  <2>2. 1 \in 1..n /\ (inputQueue[1] = Sentinel <=> 1 = p)
    BY <1>2, <1>3 DEF SentinelAt
  <2>. QED
    BY <1>2, <1>3, <1>4, <2>1, <2>2
<1>6. ~error
  BY <1>1 DEF CloseInv, StopInv
<1>7. /\ p = 1 => thread' = "drain" /\ flushing' = Buffered /\ buffers' = buffers
      /\ p # 1 => thread' \in {"full", "expire"}
  BY <1>5 DEF TakeMessage, TakeSentinel
<1>8. StopInv'
  <2>1. Buffered' = {d \in Destinations : buffers'[d] # <<>>}
    BY DEF Buffered
  <2>. QED
    BY <1>1, <1>6, <1>7, <2>1 DEF CloseInv, StopInv, Buffered
<1>9. SentinelAt(p - 1)'
  <2>1. closer' \in {"open", "closing"} <=> p - 1 = Len(inputQueue') + 1
    BY <1>1, <1>2, <1>3, <1>4, <1>5 DEF SentinelAt
  <2>2. ASSUME NEW i \in 1..Len(inputQueue')
        PROVE  inputQueue'[i] = Sentinel <=> i = p - 1
    <3>1. i \in 1..n - 1 /\ i + 1 \in 1..n
      BY <1>3, <1>4
    <3>2. inputQueue[i + 1] = Sentinel <=> i + 1 = p
      BY <1>2, <1>3, <3>1 DEF SentinelAt
    <3>. QED
      BY <1>4, <1>5, <3>1, <3>2
  <2>3. late' = {At(i)' : i \in (p - 1) + 1..Len(inputQueue')}
    <3>1. late = {At(i) : i \in p + 1..n}
      BY <1>2, <1>3 DEF SentinelAt
    <3>2. \A i \in p..n - 1 : At(i)' = At(i + 1) /\ i + 1 \in p + 1..n
      <4>1. \A i \in p..n - 1 : i \in 1..n - 1 /\ i + 1 \in p + 1..n
        BY <1>5
      <4>. QED
        BY <1>4, <4>1 DEF At
    <3>3. \A i \in p + 1..n : i - 1 \in p..n - 1 /\ (i - 1) + 1 = i
      BY <1>5
    <3>4. (p - 1) + 1..Len(inputQueue') = p..n - 1
      BY <1>4, <1>5
    <3>5. \A i \in p + 1..n : \E j \in p..n - 1 : At(j)' = At(i)
      BY <3>2, <3>3
    <3>6. \A i \in p..n - 1 : \E j \in p + 1..n : At(i)' = At(j)
      BY <3>2
    <3>7. {At(i) : i \in p + 1..n} = {At(i)' : i \in p..n - 1}
      BY <3>5, <3>6
    <3>. QED
      BY <1>1, <3>1, <3>4, <3>7
  <2>4. /\ p - 1 = 0 => thread' \in {"drain", "stopped"}
        /\ p - 1 # 0 => thread' # "drain" /\ (thread' = "stopped" => error')
    BY <1>5, <1>7
  <2>. QED
    BY <2>1, <2>2, <2>3, <2>4 DEF SentinelAt
<1>10. p - 1 \in 0..Len(inputQueue') + 1
  BY <1>4, <1>5
<1>. QED
  BY <1>8, <1>9, <1>10 DEF CloseInv

(* A message goes behind what is in the queue; so does the sentinel, once.   *)
LEMMA PutClose ==
    ASSUME PublisherInv, CloseInv, CloseEnqueue \/ \E s \in Senders : EnqueuePut(s)
    PROVE  CloseInv'
<1>1. UNCHANGED <<buffers, thread, flushing, error>>
  BY DEF CloseEnqueue, EnqueuePut
<1>2. PICK p \in 0..Len(inputQueue) + 1 : SentinelAt(p)
  BY DEF CloseInv
<1>3. PICK n \in Nat : n = Len(inputQueue)
  BY QueueLength
<1>4. PICK m \in Items :
         /\ inputQueue' = Append(inputQueue, m)
         /\ \/ /\ m = Sentinel /\ closer = "closing" /\ closer' = "joining" /\ late' = late
            \/ /\ m # Sentinel /\ closer' = closer
               /\ late' = IF closer \in {"open", "closing"} THEN late ELSE late \cup {<<m.dest, m.msg>>}
  <2>1. CASE CloseEnqueue
    BY <2>1 DEF CloseEnqueue, Items
  <2>2. ASSUME NEW s \in Senders, EnqueuePut(s)
        PROVE  \E m \in Messages :
                  /\ inputQueue' = Append(inputQueue, m) /\ closer' = closer
                  /\ late' = IF closer \in {"open", "closing"} THEN late ELSE late \cup {<<m.dest, m.msg>>}
    <3>1. PICK d \in Destinations, k \in Nat : d = sending[s] /\ k = sent[d] + 1
      BY <2>2 DEF EnqueuePut, PublisherInv, PublisherTypes
    <3>2. PICK m \in Messages : m = [dest |-> d, msg |-> k]
      BY DEF Messages
    <3>3. m.dest = d /\ m.msg = k
      BY <3>2
    <3>. QED
      BY <2>2, <3>1, <3>2, <3>3 DEF EnqueuePut
  <2>. QED
    BY <2>1, <2>2, MessageIsNoSentinel DEF Items
<1>5. /\ Len(inputQueue') = n + 1 /\ inputQueue'[n + 1] = m
      /\ \A i \in 1..n : inputQueue'[i] = inputQueue[i]
  BY <1>3, <1>4, AppendProperties DEF PublisherInv, PublisherTypes
<1>6. StopInv'
  BY <1>1, <1>4 DEF CloseInv, StopInv, Buffered
<1>7. \A i \in 1..n : At(i)' = At(i)
  BY <1>5 DEF At
<1>8. At(n + 1)' = <<m.dest, m.msg>>
  BY <1>5 DEF At
<1>9. \A i \in 1..n + 1 : i \in 1..n \/ i = n + 1
  OBVIOUS
<1>10. /\ closer \in {"open", "closing"} <=> p = n + 1
       /\ \A i \in 1..n : inputQueue[i] = Sentinel <=> i = p
       /\ p = 0 => thread \in {"drain", "stopped"}
       /\ p # 0 => thread # "drain" /\ (thread = "stopped" => error)
       /\ late = {At(i) : i \in p + 1..n}
  BY <1>2, <1>3 DEF SentinelAt
<1>11. CASE p = n + 1 /\ m = Sentinel
  <2>1. closer' = "joining" /\ late' = late
    BY <1>4, <1>11
  <2>2. n + 2..n = {} /\ n + 2..n + 1 = {}
    OBVIOUS
  <2>3. late' = {At(i)' : i \in p + 1..n + 1}
    BY <1>10, <1>11, <2>1, <2>2
  <2>4. SentinelAt(p)'
    BY <1>1, <1>5, <1>9, <1>10, <1>11, <2>1, <2>3 DEF SentinelAt
  <2>. QED
    BY <1>5, <1>6, <1>11, <2>4 DEF CloseInv
<1>12. CASE p = n + 1 /\ m # Sentinel
  <2>1. closer' = closer /\ late' = late /\ closer \in {"open", "closing"}
    BY <1>4, <1>10, <1>12
  <2>2. n + 2..n = {} /\ n + 3..n + 1 = {}
    OBVIOUS
  <2>3. late' = {At(i)' : i \in (n + 2) + 1..n + 1}
    BY <1>10, <1>12, <2>1, <2>2
  <2>4. SentinelAt(n + 2)'
    BY <1>1, <1>5, <1>9, <1>10, <1>12, <2>1, <2>3 DEF SentinelAt
  <2>. QED
    BY <1>5, <1>6, <1>12, <2>4 DEF CloseInv
<1>13. CASE p # n + 1
  <2>1. /\ m # Sentinel /\ closer' = closer /\ closer \notin {"open", "closing"}
        /\ late' = late \cup {<<m.dest, m.msg>>} /\ p \in 0..n
    BY <1>2, <1>3, <1>4, <1>10, <1>13
  <2>2. p + 1..n + 1 = (p + 1..n) \cup {n + 1}
    BY <2>1
  <2>3. {At(i)' : i \in p + 1..n + 1} = {At(i)' : i \in p + 1..n} \cup {At(n + 1)'}
    BY <2>2
  <2>4. {At(i)' : i \in p + 1..n} = {At(i) : i \in p + 1..n}
    <3>1. \A i \in p + 1..n : i \in 1..n
      BY <2>1
    <3>2. \A i \in p + 1..n : At(i)' = At(i)
      BY <1>7, <3>1
    <3>. QED
      BY <3>2
  <2>5. late' = {At(i)' : i \in p + 1..n + 1}
    BY <1>8, <1>10, <2>1, <2>3, <2>4
  <2>6. \A i \in 1..n + 1 : inputQueue'[i] = Sentinel <=> i = p
    BY <1>5, <1>9, <1>10, <1>13, <2>1
  <2>7. closer' \notin {"open", "closing"} /\ p # Len(inputQueue') + 1
    BY <1>5, <2>1
  <2>8. SentinelAt(p)'
    BY <1>1, <1>5, <1>10, <2>5, <2>6, <2>7 DEF SentinelAt
  <2>. QED
    BY <1>5, <1>6, <2>1, <2>8 DEF CloseInv
<1>. QED
  BY <1>11, <1>12, <1>13

LEMMA RestClose ==
    ASSUME PublisherInv, CloseInv,
           \/ \E d \in Destinations : Flush(d)
           \/ TimeOut \/ EndPass \/ FlushFails \/ CloseStart \/ CloseJoined
           \/ Tick \/ UNCHANGED vars \/ \E s \in Senders, d \in Destinations : EnqueueCheck(s, d)
    PROVE  CloseInv'
<1>1. UNCHANGED <<inputQueue, late>>
  BY DEF Flush, TimeOut, EndPass, FlushFails, CloseStart, CloseJoined, Tick, vars, EnqueueCheck
<1>2. PICK p \in 0..Len(inputQueue) + 1 : SentinelAt(p)
  BY DEF CloseInv
<1>3. thread = "stopped" => flushing = {}
  BY DEF PublisherInv, BatchInv
<1>4. ASSUME NEW d \in Destinations, Flush(d)
      PROVE  StopInv' /\ UNCHANGED <<closer, thread, error>>
  <2>1. /\ d \in flushing /\ buffers' = [buffers EXCEPT ![d] = <<>>] /\ flushing' = flushing \ {d}
        /\ UNCHANGED <<closer, thread, error>>
    BY <1>4 DEF Flush
  <2>2. buffers'[d] = <<>> /\ \A e \in Destinations : e # d => buffers'[e] = buffers[e]
    BY <2>1 DEF PublisherInv, PublisherTypes
  <2>. QED
    BY <1>3, <2>1, <2>2 DEF CloseInv, StopInv, Buffered
<1>5. UNCHANGED buffers => Buffered' = Buffered
  BY DEF Buffered
<1>6. StopInv'
  <2>1. CASE \E d \in Destinations : Flush(d)
    BY <1>4, <2>1
  <2>2. CASE TimeOut \/ EndPass
    BY <1>5, <2>2 DEF TimeOut, EndPass, CloseInv, StopInv
  <2>3. CASE FlushFails
    BY <1>3, <1>5, <2>3 DEF FlushFails, CloseInv, StopInv
  <2>4. CASE CloseStart \/ CloseJoined
    BY <1>5, <2>4 DEF CloseStart, CloseJoined, CloseInv, StopInv
  <2>5. CASE Tick \/ UNCHANGED vars \/ \E s \in Senders, d \in Destinations : EnqueueCheck(s, d)
    BY <1>5, <2>5 DEF Tick, vars, EnqueueCheck, CloseInv, StopInv
  <2>. QED
    BY <2>1, <2>2, <2>3, <2>4, <2>5
<1>7. /\ closer' \in {"open", "closing"} <=> closer \in {"open", "closing"}
      /\ thread \in {"drain", "stopped"} => thread' \in {"drain", "stopped"}
      /\ thread # "drain" /\ (thread = "stopped" => error) =>
            thread' # "drain" /\ (thread' = "stopped" => error')
  <2>1. ASSUME NEW d \in Destinations, Flush(d)
        PROVE  UNCHANGED <<closer, thread, error>>
    BY <1>4, <2>1
  <2>2. CASE TimeOut
    BY <2>2 DEF TimeOut
  <2>3. CASE EndPass
    BY <2>3 DEF EndPass
  <2>4. CASE FlushFails
    BY <2>4 DEF FlushFails
  <2>5. CASE CloseStart \/ CloseJoined
    BY <2>5 DEF CloseStart, CloseJoined
  <2>6. CASE Tick \/ UNCHANGED vars \/ \E s \in Senders, d \in Destinations : EnqueueCheck(s, d)
    BY <2>6 DEF Tick, vars, EnqueueCheck
  <2>. QED
    BY <2>1, <2>2, <2>3, <2>4, <2>5, <2>6
<1>8. {At(i)' : i \in p + 1..Len(inputQueue')} = {At(i) : i \in p + 1..Len(inputQueue)}
  BY <1>1 DEF At
<1>9. SentinelAt(p)'
  BY <1>1, <1>2, <1>7, <1>8 DEF SentinelAt
<1>. QED
  BY <1>1, <1>2, <1>6, <1>9 DEF CloseInv

LEMMA NextClose == PublisherInv /\ CloseInv /\ [Next]_vars => CloseInv'
BY TakeClose, PutClose, RestClose DEF Next, ThreadStep, CloseStep

(* A number of 1..k is in exactly one of two sequences that make up 1..k.    *)
LEMMA InOneOf ==
    ASSUME NEW k \in Nat, NEW s \in Seq(Nat), NEW t \in Seq(Nat), s \o t = UpTo(k), NEW n \in 1..k
    PROVE  n \in ToSet(s) <=> n \notin ToSet(t)
<1>. PICK i \in Nat, j \in Nat : i = Len(s) /\ j = Len(t)
  BY LenProperties
<1>1. /\ \A h \in 1..i : (s \o t)[h] = s[h]
      /\ \A h \in 1..j : (s \o t)[i + h] = t[h]
      /\ Len(s \o t) = i + j
  <2>1. \A h \in 1..i + j : (s \o t)[h] = IF h <= i THEN s[h] ELSE t[h - i]
    BY ConcatProperties
  <2>2. \A h \in 1..i : h \in 1..i + j /\ h <= i
    OBVIOUS
  <2>3. \A h \in 1..j : i + h \in 1..i + j /\ ~(i + h <= i) /\ (i + h) - i = h
    OBVIOUS
  <2>. QED
    BY <2>1, <2>2, <2>3, ConcatProperties
<1>2. i + j = k /\ \A h \in 1..k : UpTo(k)[h] = h
  BY <1>1, UpToType
<1>3. (\A h \in 1..i : s[h] = h) /\ (\A h \in 1..j : t[h] = i + h)
  <2>1. \A h \in 1..i : h \in 1..k
    BY <1>2
  <2>2. \A h \in 1..j : i + h \in 1..k
    BY <1>2
  <2>. QED
    BY <1>1, <1>2, <2>1, <2>2
<1>4. ToSet(s) = {s[h] : h \in 1..i} /\ ToSet(t) = {t[h] : h \in 1..j}
  BY LenProperties DEF ToSet
<1>5. n \in ToSet(s) <=> n \in 1..i
  BY <1>3, <1>4
<1>6. n \in ToSet(t) <=> n - i \in 1..j
  <2>1. n \in ToSet(t) <=> \E h \in 1..j : n = i + h
    BY <1>3, <1>4
  <2>. QED
    BY <2>1
<1>. QED
  BY <1>2, <1>5, <1>6

(* close() that returns has published every message, save the late ones.     *)
LEMMA ClosedInOrder ==
    ASSUME PublisherInv, CloseInv, SentInOrder
    PROVE  CloseTellsTheTruth
<1> SUFFICES ASSUME closer = "returned", NEW d \in Destinations, NEW n \in 1..sent[d]
             PROVE  n \in ToSet(Delivered(d)) <=> <<d, n>> \notin late
  BY DEF CloseTellsTheTruth
<1>1. thread = "stopped" /\ ~error /\ buffers[d] = <<>>
  BY DEF CloseInv, StopInv, Buffered
<1>2. /\ \A i \in 1..Len(inputQueue) : inputQueue[i] # Sentinel
      /\ late = {At(i) : i \in 1..Len(inputQueue)}
  <2>1. PICK p \in 0..Len(inputQueue) + 1 : SentinelAt(p)
    BY DEF CloseInv
  <2>2. p = 0
    BY <1>1, <2>1 DEF SentinelAt
  <2>3. p + 1 = 1
    BY <2>2
  <2>. QED
    BY <2>1, <2>2, <2>3 DEF SentinelAt
<1>3. n \in ToSet(Queued(d)) <=>
         \E i \in 1..Len(inputQueue) : inputQueue[i].dest = d /\ inputQueue[i].msg = n
  BY QueuedRange DEF PublisherInv, PublisherTypes
<1>4. n \in ToSet(Queued(d)) <=> <<d, n>> \in late
  BY <1>2, <1>3 DEF At
<1>5. /\ Delivered(d) \in Seq(Nat) /\ Queued(d) \in Seq(Nat) /\ sent[d] \in Nat
      /\ Delivered(d) \o buffers[d] \o Queued(d) = UpTo(sent[d])
  BY DeliveredType DEF PublisherInv, SentInOrder
<1>6. Delivered(d) \o <<>> = Delivered(d)
  BY <1>5, ConcatEmptySeq
<1>7. Delivered(d) \o Queued(d) = UpTo(sent[d])
  BY <1>1, <1>5, <1>6
<1>8. n \in ToSet(Delivered(d)) <=> n \notin ToSet(Queued(d))
  BY <1>5, <1>7, InOneOf
<1>. QED
  BY <1>4, <1>8

(* If close() returns, every message whose send() returned was published,    *)
(* save those of a send() that close() overtook.                             *)
THEOREM CloseTellsTheTruthHolds == Spec => []CloseTellsTheTruth
<1>1. Spec => []CloseInv
  <2>1. PublisherInv /\ CloseInv /\ [Next]_vars => CloseInv'
    BY NextClose
  <2>. QED
    BY <2>1, InitClose, SpecPublisher, PTL DEF Spec
<1>2. PublisherInv /\ CloseInv /\ SentInOrder => CloseTellsTheTruth
  BY ClosedInOrder
<1>. QED
  BY <1>1, <1>2, SpecPublisher, SentInOrderHolds, PTL
=============================================================================
