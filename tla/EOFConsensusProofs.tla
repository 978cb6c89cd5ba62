------------------------- MODULE EOFConsensusProofs -------------------------
(***************************************************************************)
(* Theorems about the end-of-stream consensus, for every number of workers,*)
(* fluxes, packets and redelivered messages: the types of its state, that  *)
(* each worker runs its post-process callback at most once and the EOF     *)
(* leaves once, after all of them; and then its sums: what the leader is   *)
(* told never exceeds what was processed, no packet is lost between the    *)
(* queues and the counters, and a stage of several workers that share one  *)
(* flux implements the barrier that EofBarrier specifies: the sums that    *)
(* agree prove that no packet is left, and the totals that the workers     *)
(* report add up to what the stage has emitted.                            *)
(***************************************************************************)
EXTENDS EOFConsensus, FiniteSetTheorems, SequenceTheorems, TLAPS

-----------------------------------------------------------------------------
(***************************************************************************)
(* What the sums of Tally do when a counter of the table changes.          *)
(***************************************************************************)
\* The units of a finite table of counters are a finite set.
LEMMA UnitsFinite ==
  ASSUME NEW S, IsFiniteSet(S), NEW g \in [S -> Int]
  PROVE  IsFiniteSet(Units(g))
<1>. DEFINE Column == [x \in S |-> {x} \X (1 .. g[x])]
            Columns == {Column[x] : x \in S}
<1>1. \A C \in Columns : IsFiniteSet(C)
  <2>. SUFFICES ASSUME NEW x \in S PROVE IsFiniteSet(Column[x])
    OBVIOUS
  <2>1. g[x] \in Int
    OBVIOUS
  <2>2. IsFiniteSet(1 .. g[x])
    BY <2>1, FS_Interval
  <2>3. IsFiniteSet({x})
    BY FS_Singleton
  <2>. QED
    BY <2>2, <2>3, FS_Product
<1>2. IsFiniteSet(Columns)
  <2>1. Column \in Surjection(S, Columns)
    BY DEF Surjection
  <2>. QED
    BY <2>1, FS_Surjection
<1>3. Units(g) = UNION Columns
  BY DEF Units
<1>. QED
  BY <1>1, <1>2, <1>3, FS_UNION

\* A sum is a natural number.
LEMMA TallyNat ==
  ASSUME NEW S, IsFiniteSet(S), NEW g \in [S -> Int]
  PROVE  Tally(g) \in Nat
BY UnitsFinite, FS_CardinalityType DEF Tally

\* A pair is a unit of the table when its number is within the counter.
LEMMA InUnits ==
  ASSUME NEW S, NEW g \in [S -> Int], NEW x, NEW n
  PROVE  <<x, n>> \in Units(g) <=> x \in S /\ n \in 1 .. g[x]
BY DEF Units

\* A unit is a pair.
LEMMA UnitsArePairs ==
  ASSUME NEW S, NEW g \in [S -> Int], NEW u \in Units(g)
  PROVE  u = <<u[1], u[2]>>
BY DEF Units

\* Counters that are not smaller have a sum that is not smaller.
LEMMA TallyMonotone ==
  ASSUME NEW S, IsFiniteSet(S), NEW g \in [S -> Int], NEW h \in [S -> Int],
         \A x \in S : g[x] <= h[x]
  PROVE  Tally(g) <= Tally(h)
<1>1. Units(g) \subseteq Units(h)
  <2>. SUFFICES ASSUME NEW u \in Units(g) PROVE u \in Units(h)
    OBVIOUS
  <2>1. u = <<u[1], u[2]>> /\ u[1] \in S /\ u[2] \in 1 .. g[u[1]]
    BY UnitsArePairs, InUnits
  <2>2. u[2] \in 1 .. h[u[1]]
    BY <2>1
  <2>. QED
    BY <2>1, <2>2, InUnits
<1>. QED
  BY <1>1, UnitsFinite, FS_Subset DEF Tally

\* Counting one more: from a counter, or from an absent one.
LEMMA TallyIncrement ==
  ASSUME NEW S, IsFiniteSet(S), NEW g \in [S -> Int], NEW y \in S, NEW n \in Int,
         n = IF g[y] < 0 THEN 1 ELSE g[y] + 1
  PROVE  Tally([g EXCEPT ![y] = n]) = Tally(g) + 1
<1>. DEFINE h == [g EXCEPT ![y] = n]
<1>1. h \in [S -> Int]
  OBVIOUS
<1>2. \A x \in S, k \in Int :
        k \in 1 .. h[x] <=> k \in 1 .. g[x] \/ (x = y /\ k = n)
  OBVIOUS
<1>3. n \notin 1 .. g[y] /\ n \in 1 .. h[y]
  OBVIOUS
<1>. HIDE DEF h
<1>4. Units(h) = Units(g) \cup {<<y, n>>}
  <2>1. ASSUME NEW u \in Units(h) PROVE u \in Units(g) \cup {<<y, n>>}
    <3>1. u = <<u[1], u[2]>> /\ u[1] \in S /\ u[2] \in 1 .. h[u[1]]
      BY <1>1, UnitsArePairs, InUnits
    <3>2. u[2] \in 1 .. g[u[1]] \/ (u[1] = y /\ u[2] = n)
      BY <3>1, <1>2
    <3>. QED
      BY <3>1, <3>2, InUnits
  <2>2. ASSUME NEW u \in Units(g) PROVE u \in Units(h)
    <3>1. u = <<u[1], u[2]>> /\ u[1] \in S /\ u[2] \in 1 .. g[u[1]]
      BY UnitsArePairs, InUnits
    <3>2. u[2] \in 1 .. h[u[1]]
      BY <3>1, <1>2
    <3>. QED
      BY <3>1, <3>2, <1>1, InUnits
  <2>3. <<y, n>> \in Units(h)
    BY <1>1, <1>3, InUnits
  <2>. QED
    BY <2>1, <2>2, <2>3
<1>5. <<y, n>> \notin Units(g)
  BY <1>3, InUnits
<1>. QED
  BY <1>4, <1>5, UnitsFinite, FS_AddElement DEF Tally, h

\* Taking one from a positive counter.
LEMMA TallyDecrement ==
  ASSUME NEW S, IsFiniteSet(S), NEW g \in [S -> Int], NEW y \in S, g[y] > 0
  PROVE  Tally([g EXCEPT ![y] = @ - 1]) = Tally(g) - 1
<1>. DEFINE h == [g EXCEPT ![y] = @ - 1]
<1>1. h \in [S -> Int] /\ [h EXCEPT ![y] = g[y]] = g
  <2>1. h \in [S -> Int]
    OBVIOUS
  <2>2. \A x \in S : [h EXCEPT ![y] = g[y]][x] = g[x]
    OBVIOUS
  <2>3. [h EXCEPT ![y] = g[y]] \in [S -> Int]
    BY <2>1
  <2>. HIDE DEF h
  <2>. QED
    BY <2>1, <2>2, <2>3
<1>2. g[y] = IF h[y] < 0 THEN 1 ELSE h[y] + 1
  OBVIOUS
<1>3. Tally(g) = Tally(h) + 1
  BY <1>1, <1>2, TallyIncrement
<1>. QED
  BY <1>1, <1>3, TallyNat

\* The sum only depends on the positive counters.
LEMMA TallySame ==
  ASSUME NEW S, IsFiniteSet(S), NEW g \in [S -> Int], NEW h \in [S -> Int],
         \A x \in S : g[x] = h[x] \/ (g[x] <= 0 /\ h[x] <= 0)
  PROVE  Tally(g) = Tally(h)
<1>1. \A x \in S, k \in Int : k \in 1 .. g[x] <=> k \in 1 .. h[x]
  OBVIOUS
<1>2. Units(g) = Units(h)
  <2>1. ASSUME NEW u \in Units(g) PROVE u \in Units(h)
    <3>1. u = <<u[1], u[2]>> /\ u[1] \in S /\ u[2] \in 1 .. g[u[1]]
      BY UnitsArePairs, InUnits
    <3>. QED
      BY <3>1, <1>1, InUnits
  <2>2. ASSUME NEW u \in Units(h) PROVE u \in Units(g)
    <3>1. u = <<u[1], u[2]>> /\ u[1] \in S /\ u[2] \in 1 .. h[u[1]]
      BY UnitsArePairs, InUnits
    <3>. QED
      BY <3>1, <1>1, InUnits
  <2>. QED
    BY <2>1, <2>2
<1>. QED
  BY <1>2 DEF Tally

\* A sum is zero only when no counter is positive.
LEMMA TallyZero ==
  ASSUME NEW S, IsFiniteSet(S), NEW g \in [S -> Int], Tally(g) = 0, NEW x \in S
  PROVE  g[x] <= 0
<1>1. Units(g) = {}
  BY UnitsFinite, FS_EmptySet DEF Tally
<1>2. <<x, 1>> \notin Units(g)
  BY <1>1
<1>. QED
  BY <1>2, InUnits

\* Without a positive counter the sum is zero.
LEMMA TallyNone ==
  ASSUME NEW S, NEW g \in [S -> Int], \A x \in S : g[x] <= 0
  PROVE  Tally(g) = 0
<1>1. \A x \in S, k \in Int : k \notin 1 .. g[x]
  OBVIOUS
<1>2. Units(g) = {}
  <2>. SUFFICES ASSUME NEW u \in Units(g) PROVE FALSE
    OBVIOUS
  <2>1. u[1] \in S /\ u[2] \in 1 .. g[u[1]]
    BY UnitsArePairs, InUnits
  <2>. QED
    BY <1>1, <2>1
<1>. QED
  BY <1>2, FS_EmptySet DEF Tally

\* The sum of one counter is the counter.
LEMMA TallyOne ==
  ASSUME NEW y, NEW g \in [{y} -> Nat]
  PROVE  Tally(g) = g[y]
<1>. DEFINE Unit == [k \in 1 .. g[y] |-> <<y, k>>]
<1>1. g[y] \in Nat
  OBVIOUS
<1>2. Unit \in Bijection(1 .. g[y], Units(g))
  <2>1. Unit \in [1 .. g[y] -> Units(g)]
    BY DEF Units
  <2>2. \A u \in Units(g) : \E k \in 1 .. g[y] : u = <<y, k>>
    BY DEF Units
  <2>3. \A j, k \in 1 .. g[y] : Unit[j] = Unit[k] => j = k
    OBVIOUS
  <2>4. \A u \in Units(g) : \E k \in 1 .. g[y] : Unit[k] = u
    BY <2>2
  <2>. HIDE DEF Unit
  <2>. QED
    BY <2>1, <2>3, <2>4 DEF Bijection, Injection, IsInjective, Surjection
<1>. HIDE DEF Unit
<1>3. IsFiniteSet(1 .. g[y]) /\ Cardinality(1 .. g[y]) = g[y]
  BY <1>1, FS_Interval
<1>4. ExistsBijection(1 .. g[y], Units(g))
  BY <1>2 DEF ExistsBijection
<1>5. Cardinality(Units(g)) = g[y]
  BY <1>3, <1>4, FS_Bijection
<1>. QED
  BY <1>5 DEF Tally

-----------------------------------------------------------------------------
(***************************************************************************)
(* Facts about the operators the controller is built from.                 *)
(***************************************************************************)
LEMMA WorkersFinite == IsFiniteSet(Workers) /\ Leader \in Workers
BY ConsensusAssumption, FS_Interval DEF Workers, Leader

LEMMA StatesType ==
  {INACTIVE, ACTIVE, PENDING_EOF, REQUEST_SENT, RESPONSE_SENT, ACHIEVED, FINISH_ENABLED}
    \subseteq EOFStates
BY DEF EOFStates, INACTIVE, ACTIVE, PENDING_EOF, REQUEST_SENT, RESPONSE_SENT, ACHIEVED,
       FINISH_ENABLED

\* The state machine of a client stays within its states.
LEMMA AdvanceType ==
  \A s, new \in EOFStates : Advance(s, new) \in EOFStates
BY DEF Advance

LEMMA CountersType ==
  /\ NoCounts \in [Fluxes -> Count]
  /\ \A c \in [Fluxes -> Count], d \in [Fluxes -> Count] : Overwrite(c, d) \in [Fluxes -> Count]
  /\ \A c \in [Fluxes -> Count], fs \in SUBSET Fluxes : WithKeys(c, fs) \in [Fluxes -> Count]
  /\ \A c \in Count : PlusOne(c) \in Count
BY DEF NoCounts, Count, Absent, Overwrite, WithKeys, PlusOne

\* Sending to the peers appends the message to every queue but the sender's own.
LEMMA FanoutType ==
  ASSUME fanout \in [Workers -> [Workers -> Seq(Message)]],
         NEW v \in Workers, NEW m \in Message
  PROVE  Fanout(v, m) \in [Workers -> [Workers -> Seq(Message)]]
BY DEF Fanout

\* The threads that are between two steps of the code, and the messages.
LEMMA MessageType ==
  /\ \A f \in Fluxes : [type |-> "EOF_MESSAGE", flux |-> f] \in Message
  /\ \A fs \in SUBSET Fluxes : [type |-> "REQUEST", awaited |-> fs] \in Message
  /\ [type |-> "OK"] \in Message /\ [type |-> "FAIL"] \in Message
  /\ \A c \in [Fluxes -> Count] : [type |-> "RESPONSE", counts |-> c] \in LeaderMessage
  /\ \A n \in Nat : [type |-> "POST_OK", sent |-> n] \in LeaderMessage
BY DEF Message, LeaderMessage

LEMMA MessageFields ==
  /\ \A m \in Message : m.type = "EOF_MESSAGE" => m.flux \in Fluxes
  /\ \A m \in Message : m.type = "REQUEST" => m.awaited \in SUBSET Fluxes
  /\ \A m \in LeaderMessage : m.type = "RESPONSE" => m.counts \in [Fluxes -> Count]
  /\ \A m \in LeaderMessage : m.type = "POST_OK" => m.sent \in Nat
BY DEF Message, LeaderMessage

-----------------------------------------------------------------------------
(***************************************************************************)
(* Type correctness.                                                       *)
(***************************************************************************)
LEMMA RunCallbackType ==
  ASSUME TypeOK, NEW w \in Workers, NEW k \in Nat, RunCallback(w, k)
  PROVE  emitted' \in [Workers -> Nat] /\ ran' \in [Workers -> Nat]
<1>1. emitted' \in [Workers -> Nat]
  BY DEF TypeOK, RunCallback
<1>2. ran' \in [Workers -> Nat]
  BY DEF TypeOK, RunCallback
<1>. QED
  BY <1>1, <1>2

LEMMA InputThreadType ==
  ASSUME TypeOK, NEW w \in Workers, NEW f \in Fluxes, InputThread(w, f)
  PROVE  TypeOK'
<1>. USE DEF TypeOK, inputVars, countVars, leaderVars, netVars, sendVars
<1>f. f \in Threads /\ f # Control
  BY ConsensusAssumption DEF Threads
<1>1. CASE ReceivePacket(w, f)
  <2>1. DataQueue(w, f) \in DataQueues
    BY DEF DataQueues
  <2>2. data' \in [DataQueues -> Nat]
    BY <1>1, <2>1 DEF ReceivePacket
  <2>3. emitted' \in [Workers -> Nat] /\ sent' \in [Workers -> Nat]
    BY <1>1, ConsensusAssumption DEF ReceivePacket
  <2>4. pc' \in [Workers -> [Threads -> PC]]
    BY <1>1, <1>f DEF ReceivePacket, PC
  <2>. QED
    BY <1>1, <2>2, <2>3, <2>4 DEF ReceivePacket
<1>2. CASE CountPacket(w, f)
  <2>1. processed' \in [Workers -> [Fluxes -> Count]]
    BY <1>2, CountersType DEF CountPacket
  <2>2. pc' \in [Workers -> [Threads -> PC]]
    BY <1>2, <1>f DEF CountPacket, PC
  <2>. QED
    BY <1>2, <2>1, <2>2 DEF CountPacket
<1>3. CASE AdmitEof(w, f)
  <2>1. state' \in [Workers -> EOFStates]
    BY <1>3, AdvanceType, StatesType DEF AdmitEof
  <2>2. pc' \in [Workers -> [Threads -> PC]]
    BY <1>3, <1>f DEF AdmitEof, PC
  <2>. QED
    BY <1>3, <2>1, <2>2 DEF AdmitEof, TakeEof
<1>4. CASE DiscardEof(w, f)
  BY <1>4 DEF DiscardEof, TakeEof
<1>5. CASE AddPrefix(w, f)
  BY <1>5, <1>f DEF AddPrefix, PC
<1>6. CASE Broadcast(w, f)
  <2>1. fanout' \in [Workers -> [Workers -> Seq(Message)]]
    BY <1>6, FanoutType, MessageType DEF Broadcast
  <2>. QED
    BY <1>6, <1>f, <2>1 DEF Broadcast, PC
<1>. QED
  BY <1>1, <1>2, <1>3, <1>4, <1>5, <1>6 DEF InputThread

LEMMA RegistrationType ==
  ASSUME TypeOK, NEW w \in Workers, NEW t \in Threads, Registration(w, t)
  PROVE  TypeOK'
<1>. USE DEF TypeOK, inputVars, countVars, leaderVars, netVars, sendVars
<1>1. CASE AddCounter(w, t)
  <2>1. processed' = [processed EXCEPT ![w] =
          WithKeys(processed[w], {EofOf(w, t)} \cap Fluxes)]
    BY <1>1 DEF AddCounter, WithKeys
  <2>2. processed' \in [Workers -> [Fluxes -> Count]]
    BY <2>1, CountersType
  <2>. QED
    BY <1>1, <2>2 DEF AddCounter, PC
<1>2. CASE AddTotal(w, t)
  <2>1. totals' \in [Workers -> [Fluxes -> Count]]
    <3>1. CASE EofOf(w, t) \in Fluxes
      <4>1. Total[EofOf(w, t)] \in Count
        BY <3>1, ConsensusAssumption DEF Count
      <4>. QED
        BY <1>2, <3>1, <4>1 DEF AddTotal
    <3>2. CASE EofOf(w, t) \notin Fluxes
      <4>1. \A c \in [Fluxes -> Count] : \A x : [c EXCEPT ![EofOf(w, t)] = x] \in [Fluxes -> Count]
        BY <3>2
      <4>. QED
        BY <1>2, <4>1 DEF AddTotal
    <3>. QED
      BY <3>1, <3>2
  <2>. QED
    BY <1>2, <2>1 DEF AddTotal, PC
<1>3. CASE CheckEofs(w, t)
  <2>1. state' \in [Workers -> EOFStates]
    BY <1>3, StatesType DEF CheckEofs
  <2>. QED
    BY <1>3, <2>1 DEF CheckEofs, PC
<1>. QED
  BY <1>1, <1>2, <1>3 DEF Registration

LEMMA LeaderThreadType ==
  ASSUME TypeOK, NEW t \in Threads, LeaderThread(t)
  PROVE  TypeOK'
<1>. USE DEF TypeOK, inputVars, countVars, leaderVars, netVars, sendVars
<1>1. CASE SendRequest(t)
  <2>1. fanout' \in [Workers -> [Workers -> Seq(Message)]]
    BY <1>1, WorkersFinite, FanoutType, MessageType DEF SendRequest
  <2>2. partials' \in [Workers -> [Fluxes -> Count]]
    BY <1>1, WorkersFinite, CountersType DEF SendRequest
  <2>. QED
    BY <1>1, <2>1, <2>2, WorkersFinite DEF SendRequest, PC
<1>2. CASE MarkRequestSent(t)
  <2>1. state' \in [Workers -> EOFStates]
    BY <1>2, AdvanceType, StatesType DEF MarkRequestSent
  <2>. QED
    BY <1>2, <2>1, WorkersFinite DEF MarkRequestSent, PC
<1>. QED
  BY <1>1, <1>2 DEF LeaderThread

LEMMA FinishAloneType ==
  ASSUME TypeOK, NEW f \in Fluxes, FinishAlone(f)
  PROVE  TypeOK'
<1>. USE DEF TypeOK, inputVars, countVars, leaderVars, netVars, sendVars, FinishAlone
<1>1. emitted' \in [Workers -> Nat] /\ ran' \in [Workers -> Nat]
  BY WorkersFinite, ConsensusAssumption DEF RunCallback
<1>2. totalSent' \in [Workers -> Nat]
  BY WorkersFinite, ConsensusAssumption DEF RunCallback
<1>3. out' \in Seq(Nat)
  <2>1. Tally(totalSent') \in Nat
    <3>1. totalSent' \in [Workers -> Int]
      BY <1>2
    <3>. QED
      BY ONLY <3>1, WorkersFinite, TallyNat
  <2>. QED
    BY <2>1
<1>4. state' \in [Workers -> EOFStates] /\ sent' \in [Workers -> Nat]
  BY WorkersFinite, StatesType
<1>5. pc' \in [Workers -> [Threads -> PC]]
  BY WorkersFinite DEF PC, Threads
<1>6. /\ eofs' \in [Workers -> SUBSET Fluxes]
      /\ totals' \in [Workers -> [Fluxes -> Count]]
      /\ processed' \in [Workers -> [Fluxes -> Count]]
      /\ partials' \in [Workers -> [Fluxes -> Count]]
      /\ post' \subseteq Workers
  BY WorkersFinite, CountersType DEF ClearCounts, ClearLeader
<1>. QED
  BY <1>1, <1>2, <1>3, <1>4, <1>5, <1>6

LEMMA FanoutMessageType ==
  ASSUME TypeOK, NEW v \in Workers, NEW w \in Workers, FanoutMessage(v, w)
  PROVE  TypeOK'
<1>. USE DEF TypeOK, inputVars, countVars, leaderVars, netVars, sendVars
<1>c. Control \in Threads
  BY DEF Threads
<1>t. ASSUME fanout[v][w] # <<>>, Consume(v, w)
      PROVE  /\ Head(fanout[v][w]) \in Message
             /\ fanout' \in [Workers -> [Workers -> Seq(Message)]]
  BY <1>t, HeadTailProperties DEF Consume
<1>1. CASE HandleEofMessage(v, w)
  <2>1. Head(fanout[v][w]).flux \in Fluxes /\ fanout' \in [Workers -> [Workers -> Seq(Message)]]
    BY <1>1, <1>t, MessageFields DEF HandleEofMessage, From
  <2>2. handling' \in [Workers -> Fluxes \cup {Control}] /\ eofs' \in [Workers -> SUBSET Fluxes]
    BY <1>1, <2>1 DEF HandleEofMessage
  <2>3. state' \in [Workers -> EOFStates]
    BY <1>1, AdvanceType, StatesType DEF HandleEofMessage
  <2>4. pc' \in [Workers -> [Threads -> PC]]
    BY <1>1, <1>c DEF HandleEofMessage, PC
  <2>. QED
    BY <1>1, <2>1, <2>2, <2>3, <2>4 DEF HandleEofMessage
<1>2. CASE HandleRequest(v, w)
  <2>1. Head(fanout[v][w]).awaited \in SUBSET Fluxes
        /\ fanout' \in [Workers -> [Workers -> Seq(Message)]]
    BY <1>2, <1>t, MessageFields DEF HandleRequest, From
  <2>2. processed' \in [Workers -> [Fluxes -> Count]]
    BY <1>2, <2>1, CountersType DEF HandleRequest
  <2>3. toLeader' \in [Workers -> Seq(LeaderMessage)]
    <3>. DEFINE m == [type |-> "RESPONSE", counts |-> processed'[w]]
    <3>1. m \in LeaderMessage
      BY <2>2, MessageType
    <3>2. toLeader' = [toLeader EXCEPT ![w] = Append(toLeader[w], m)]
      BY <1>2 DEF HandleRequest
    <3>3. toLeader \in [Workers -> Seq(LeaderMessage)]
      OBVIOUS
    <3>. HIDE DEF m
    <3>. QED
      BY ONLY <3>1, <3>2, <3>3
  <2>4. state' \in [Workers -> EOFStates]
    BY <1>2, AdvanceType, StatesType DEF HandleRequest
  <2>. QED
    BY <1>2, <2>1, <2>2, <2>3, <2>4 DEF HandleRequest
<1>3. CASE HandleOk(v, w)
  <2>1. fanout' \in [Workers -> [Workers -> Seq(Message)]]
    BY <1>3, <1>t DEF HandleOk, From
  <2>2. /\ emitted' \in [Workers -> Nat] /\ ran' \in [Workers -> Nat]
        /\ toLeader' \in [Workers -> Seq(LeaderMessage)]
    <3>1. PICK k \in CallbackOutputs :
            /\ RunCallback(w, k)
            /\ toLeader' = [toLeader EXCEPT ![w] =
                 Append(@, [type |-> "POST_OK", sent |-> sent[w] + k])]
      BY <1>3 DEF HandleOk
    <3>2. k \in Nat /\ [type |-> "POST_OK", sent |-> sent[w] + k] \in LeaderMessage
      BY ConsensusAssumption, MessageType
    <3>3. toLeader' \in [Workers -> Seq(LeaderMessage)]
      BY <3>1, <3>2
    <3>. QED
      BY <3>1, <3>2, <3>3, RunCallbackType
  <2>3. sent' \in [Workers -> Nat] /\ state' \in [Workers -> EOFStates]
    BY <1>3, StatesType DEF HandleOk
  <2>4. /\ eofs' \in [Workers -> SUBSET Fluxes]
        /\ totals' \in [Workers -> [Fluxes -> Count]]
        /\ processed' \in [Workers -> [Fluxes -> Count]]
    BY <1>3, CountersType DEF HandleOk, ClearCounts
  <2>. QED
    BY <1>3, <2>1, <2>2, <2>3, <2>4 DEF HandleOk
<1>4. CASE HandleFail(v, w)
  <2>1. fanout' \in [Workers -> [Workers -> Seq(Message)]]
    BY <1>4, <1>t DEF HandleFail, From
  <2>2. state' \in [Workers -> EOFStates]
    BY <1>4, AdvanceType, StatesType DEF HandleFail
  <2>. QED
    BY <1>4, <2>1, <2>2 DEF HandleFail
<1>5. CASE IgnoreFanout(v, w)
  <2>1. fanout' \in [Workers -> [Workers -> Seq(Message)]]
    BY <1>5, <1>t DEF IgnoreFanout, From
  <2>. QED
    BY <1>5, <2>1 DEF IgnoreFanout
<1>. QED
  BY <1>1, <1>2, <1>3, <1>4, <1>5 DEF FanoutMessage

LEMMA WithResponseType ==
  ASSUME TypeOK, NEW v \in Workers, Response(v)
  PROVE  WithResponse(v) \in [Workers -> [Fluxes -> Count]]
<1>1. Head(toLeader[v]) \in LeaderMessage /\ Head(toLeader[v]).type = "RESPONSE"
  BY HeadTailProperties DEF TypeOK, Response, FromWorker
<1>. QED
  BY <1>1, MessageFields, CountersType DEF TypeOK, WithResponse

LEMMA WorkerMessageType ==
  ASSUME TypeOK, NEW v \in Workers, WorkerMessage(v)
  PROVE  TypeOK'
<1>. USE DEF TypeOK, inputVars, countVars, leaderVars, netVars, sendVars
<1>t. ASSUME toLeader[v] # <<>>, ConsumeWorker(v)
      PROVE  /\ Head(toLeader[v]) \in LeaderMessage
             /\ toLeader' \in [Workers -> Seq(LeaderMessage)]
  BY <1>t, HeadTailProperties DEF ConsumeWorker
<1>n. NoCounts \in [Fluxes -> Count]
  BY CountersType
<1>1. CASE Accumulate(v)
  BY <1>1, <1>t, WithResponseType DEF Accumulate, Response, FromWorker
<1>2. CASE Agree(v)
  <2>1. /\ toLeader' \in [Workers -> Seq(LeaderMessage)]
        /\ partials' \in [Workers -> [Fluxes -> Count]]
    BY <1>2, <1>t, WithResponseType DEF Agree, Response, FromWorker
  <2>2. fanout' \in [Workers -> [Workers -> Seq(Message)]]
    BY <1>2, WorkersFinite, FanoutType, MessageType DEF Agree
  <2>3. /\ emitted' \in [Workers -> Nat] /\ ran' \in [Workers -> Nat]
        /\ sent' \in [Workers -> Nat]
    <3>1. PICK k \in CallbackOutputs :
            RunCallback(Leader, k) /\ sent' = [sent EXCEPT ![Leader] = @ + k]
      BY <1>2 DEF Agree
    <3>2. k \in Nat
      BY ConsensusAssumption
    <3>3. sent' \in [Workers -> Nat]
      <4>1. sent \in [Workers -> Nat]
        OBVIOUS
      <4>2. sent[Leader] + k \in Nat
        BY ONLY <3>2, <4>1, WorkersFinite
      <4>3. sent' = [sent EXCEPT ![Leader] = sent[Leader] + k]
        BY <3>1
      <4>. QED
        BY ONLY <4>1, <4>2, <4>3
    <3>. QED
      BY <3>1, <3>2, <3>3, WorkersFinite, RunCallbackType
  <2>4. totalSent' \in [Workers -> Nat]
    BY <1>2, <2>3, WorkersFinite DEF Agree
  <2>5. state' \in [Workers -> EOFStates] /\ post' \subseteq Workers
    BY <1>2, StatesType, WorkersFinite DEF Agree
  <2>. QED
    BY <1>2, <2>1, <2>2, <2>3, <2>4, <2>5 DEF Agree
<1>3. CASE Disagree(v)
  <2>1. toLeader' \in [Workers -> Seq(LeaderMessage)]
    BY <1>3, <1>t DEF Disagree, Response, FromWorker
  <2>2. fanout' \in [Workers -> [Workers -> Seq(Message)]]
    BY <1>3, WorkersFinite, FanoutType, MessageType DEF Disagree
  <2>3. state' \in [Workers -> EOFStates]
    BY <1>3, AdvanceType, StatesType DEF Disagree
  <2>4. pc' \in [Workers -> [Threads -> PC]]
    BY <1>3 DEF Disagree, PC, Threads
  <2>. QED
    BY <1>3, <1>n, <2>1, <2>2, <2>3, <2>4 DEF Disagree
<1>p. ASSUME PostOk(v)
      PROVE  /\ toLeader' \in [Workers -> Seq(LeaderMessage)]
             /\ totalSent' \in [Workers -> Nat]
  <2>1. toLeader[v] # <<>> /\ Head(toLeader[v]).type = "POST_OK" /\ ConsumeWorker(v)
    BY <1>p DEF PostOk, FromWorker
  <2>2. Head(toLeader[v]).sent \in Nat
    BY <2>1, <1>t, MessageFields
  <2>. QED
    BY <1>p, <2>1, <2>2, <1>t DEF PostOk
<1>4. CASE CollectPostOk(v)
  BY <1>4, <1>p DEF CollectPostOk
<1>5. CASE ForwardEof(v)
  <2>1. /\ toLeader' \in [Workers -> Seq(LeaderMessage)]
        /\ totalSent' \in [Workers -> Nat]
    BY <1>5, <1>p DEF ForwardEof
  <2>2. Tally(totalSent') \in Nat
    <3>1. totalSent' \in [Workers -> Int]
      BY <2>1
    <3>. QED
      BY ONLY <3>1, WorkersFinite, TallyNat
  <2>3. out' \in Seq(Nat)
    BY <1>5, <2>2 DEF ForwardEof
  <2>4. /\ eofs' \in [Workers -> SUBSET Fluxes]
        /\ totals' \in [Workers -> [Fluxes -> Count]]
        /\ processed' \in [Workers -> [Fluxes -> Count]]
        /\ partials' \in [Workers -> [Fluxes -> Count]]
        /\ post' \subseteq Workers
    BY <1>5, <1>n DEF ForwardEof, ClearCounts, ClearLeader
  <2>5. state' \in [Workers -> EOFStates] /\ sent' \in [Workers -> Nat]
    BY <1>5, StatesType DEF ForwardEof
  <2>. QED
    BY <1>5, <2>1, <2>3, <2>4, <2>5 DEF ForwardEof
<1>6. CASE IgnoreWorker(v)
  BY <1>6, <1>t DEF IgnoreWorker, FromWorker
<1>. QED
  BY <1>1, <1>2, <1>3, <1>4, <1>5, <1>6 DEF WorkerMessage

LEMMA RedeliverType ==
  ASSUME TypeOK, Redeliver
  PROVE  TypeOK'
<1>. USE DEF TypeOK, inputVars, countVars, leaderVars, netVars, sendVars
<1>1. \A S : \A q \in Seq(S), k \in Nat : k \in DOMAIN q => Again(q, k) \in Seq(S)
  BY SubSeqProperties, ConcatProperties, LenProperties DEF Again
<1>2. redelivered' \in 0 .. MaxRedeliveries
  BY ConsensusAssumption DEF Redeliver
<1>3. /\ toLeader' \in [Workers -> Seq(LeaderMessage)]
      /\ fanout' \in [Workers -> [Workers -> Seq(Message)]]
  <2>1. ASSUME NEW v \in Workers, NEW k \in DOMAIN toLeader[v],
               toLeader' = [toLeader EXCEPT ![v] = Again(@, k)]
        PROVE  toLeader' \in [Workers -> Seq(LeaderMessage)]
    <3>1. toLeader[v] \in Seq(LeaderMessage) /\ k \in Nat
      BY LenProperties
    <3>2. Again(toLeader[v], k) \in Seq(LeaderMessage)
      BY <3>1, <1>1
    <3>. QED
      BY <2>1, <3>2
  <2>2. ASSUME NEW v \in Workers, NEW w \in Workers, NEW k \in DOMAIN fanout[v][w],
               fanout' = [fanout EXCEPT ![v][w] = Again(@, k)]
        PROVE  fanout' \in [Workers -> [Workers -> Seq(Message)]]
    <3>1. fanout[v][w] \in Seq(Message) /\ k \in Nat
      BY LenProperties
    <3>2. Again(fanout[v][w], k) \in Seq(Message)
      BY <3>1, <1>1
    <3>. QED
      BY <2>2, <3>2
  <2>. QED
    BY <2>1, <2>2 DEF Redeliver
<1>. QED
  BY <1>2, <1>3 DEF Redeliver

LEMMA InitType == Init => TypeOK
<1>. SUFFICES ASSUME Init PROVE TypeOK
  OBVIOUS
<1>1. data \in [DataQueues -> Nat]
  BY ConsensusAssumption DEF Init, DataQueues, DataQueue
<1>2. pc \in [Workers -> [Threads -> PC]] /\ state \in [Workers -> EOFStates]
  BY StatesType DEF Init, PC
<1>. QED
  BY <1>1, <1>2, CountersType, ConsensusAssumption DEF Init, TypeOK

LEMMA NextType == TypeOK /\ [Next]_vars => TypeOK'
<1>. SUFFICES ASSUME TypeOK, [Next]_vars PROVE TypeOK'
  OBVIOUS
<1>1. CASE UNCHANGED vars
  BY <1>1 DEF TypeOK, vars, inputVars, countVars, leaderVars, netVars, sendVars
<1>2. CASE Done
  BY <1>1, <1>2 DEF Done
<1>. QED
  BY <1>1, <1>2, InputThreadType, RegistrationType, FinishAloneType, LeaderThreadType,
     FanoutMessageType, WorkerMessageType, RedeliverType DEF Next

\* Every variable keeps its type.
THEOREM TypeCorrect == Spec => []TypeOK
BY InitType, NextType, PTL DEF Spec

-----------------------------------------------------------------------------
(***************************************************************************)
(* The protocol: callbacks and the EOF that leaves.                        *)
(***************************************************************************)
\* The callback has been run exactly by the workers told that the stage is
\* drained; a state never comes back from there.
RanIsAchieved == \A w \in Workers : ran[w] = IF state[w] >= ACHIEVED THEN 1 ELSE 0

\* The EOF has left exactly when the leader has finished.
OutIsFinished == Len(out) = IF state[Leader] = FINISH_ENABLED THEN 1 ELSE 0

\* The leader counts, and is told of, only callbacks that were run.
PostIsAchieved ==
  /\ \A w \in post : state[w] >= ACHIEVED
  /\ \A w \in Workers : \A i \in DOMAIN toLeader[w] :
       toLeader[w][i].type = "POST_OK" => state[w] >= ACHIEVED
  /\ state[Leader] = FINISH_ENABLED => \A w \in Workers : state[w] >= ACHIEVED

\* No one sends to itself, and only the leader sends anything but EOFs.
LeaderDecides ==
  \A v, w \in Workers : \A i \in DOMAIN fanout[v][w] :
    v # w /\ (fanout[v][w][i].type # "EOF_MESSAGE" => v = Leader)

\* The leader is the first to be told, and OK is what it says then.
LeaderFirst ==
  /\ \A w \in Workers : state[w] >= ACHIEVED => state[Leader] >= ACHIEVED
  /\ \A w \in Workers : \A i \in DOMAIN fanout[Leader][w] :
       fanout[Leader][w][i].type = "OK" => state[Leader] >= ACHIEVED

\* One thread at most is starting a consensus, and the state says so.
Starting == {t \in Threads : pc[Leader][t] \in {"start", "mark"}}

OneStarts ==
  /\ \A t \in Starting : state[Leader] = PENDING_EOF
  /\ \A t, u \in Starting : t = u

ProtocolInv ==
  /\ TypeOK
  /\ RanIsAchieved
  /\ OutIsFinished
  /\ PostIsAchieved
  /\ LeaderDecides
  /\ LeaderFirst
  /\ OneStarts

-----------------------------------------------------------------------------
(***************************************************************************)
(* Queues of messages.                                                     *)
(***************************************************************************)
LEMMA TailElements ==
  ASSUME NEW S, NEW q \in Seq(S), q # <<>>
  PROVE  \A i \in DOMAIN Tail(q) : \E j \in DOMAIN q : Tail(q)[i] = q[j]
<1>. SUFFICES ASSUME NEW i \in DOMAIN Tail(q)
              PROVE  \E j \in DOMAIN q : Tail(q)[i] = q[j]
  OBVIOUS
<1>1. /\ Tail(q) \in Seq(S) /\ Len(Tail(q)) = Len(q) - 1
      /\ \A k \in 1 .. Len(Tail(q)) : Tail(q)[k] = q[k + 1]
  BY HeadTailProperties
<1>2. DOMAIN Tail(q) = 1 .. Len(Tail(q)) /\ DOMAIN q = 1 .. Len(q) /\ Len(q) \in Nat
  BY <1>1, LenProperties
<1>3. i + 1 \in DOMAIN q /\ Tail(q)[i] = q[i + 1]
  BY <1>1, <1>2
<1>. QED
  BY <1>3

LEMMA HeadElement ==
  ASSUME NEW S, NEW q \in Seq(S), q # <<>>
  PROVE  1 \in DOMAIN q /\ Head(q) = q[1]
BY EmptySeq, LenProperties

LEMMA AppendElements ==
  ASSUME NEW S, NEW q \in Seq(S), NEW m \in S
  PROVE  \A i \in DOMAIN Append(q, m) :
           Append(q, m)[i] = m \/ \E j \in DOMAIN q : Append(q, m)[i] = q[j]
BY LenProperties

LEMMA AgainElements ==
  ASSUME NEW S, NEW q \in Seq(S), NEW k \in DOMAIN q
  PROVE  \A i \in DOMAIN Again(q, k) : \E j \in DOMAIN q : Again(q, k)[i] = q[j]
<1>. SUFFICES ASSUME NEW i \in DOMAIN Again(q, k)
              PROVE  \E j \in DOMAIN q : Again(q, k)[i] = q[j]
  OBVIOUS
<1>1. DOMAIN q = 1 .. Len(q) /\ Len(q) \in Nat /\ k \in 1 .. Len(q)
  BY LenProperties
<1>2. /\ SubSeq(q, 1, k) \in Seq(S) /\ Len(SubSeq(q, 1, k)) = k
      /\ \A j \in 1 .. k : SubSeq(q, 1, k)[j] = q[j]
  BY <1>1, SubSeqProperties
<1>3. /\ Again(q, k) \in Seq(S) /\ Len(Again(q, k)) = k + Len(q)
      /\ \A j \in 1 .. k + Len(q) :
           Again(q, k)[j] = IF j <= k THEN SubSeq(q, 1, k)[j] ELSE q[j - k]
  BY <1>1, <1>2, ConcatProperties DEF Again
<1>4. DOMAIN Again(q, k) = 1 .. k + Len(q)
  BY <1>3, LenProperties
<1>5. CASE i <= k
  BY <1>1, <1>2, <1>3, <1>4, <1>5
<1>6. CASE i > k
  <2>1. i - k \in DOMAIN q /\ Again(q, k)[i] = q[i - k]
    BY <1>1, <1>3, <1>4, <1>6
  <2>. QED
    BY <2>1
<1>. QED
  BY <1>1, <1>4, <1>5, <1>6

\* After a broadcast a queue holds what it held and, for the peers, the message.
LEMMA FanoutElements ==
  ASSUME fanout \in [Workers -> [Workers -> Seq(Message)]],
         NEW v \in Workers, NEW m \in Message, fanout' = Fanout(v, m),
         NEW x \in Workers, NEW y \in Workers, NEW i \in DOMAIN fanout'[x][y]
  PROVE  \/ \E j \in DOMAIN fanout[x][y] : fanout'[x][y][i] = fanout[x][y][j]
         \/ x = v /\ x # y /\ fanout'[x][y][i] = m
<1>1. \/ fanout'[x][y] = fanout[x][y]
      \/ x = v /\ x # y /\ fanout'[x][y] = Append(fanout[x][y], m)
  BY DEF Fanout
<1>2. fanout[x][y] \in Seq(Message)
  OBVIOUS
<1>3. CASE fanout'[x][y] = fanout[x][y]
  BY <1>3
<1>4. CASE x = v /\ x # y /\ fanout'[x][y] = Append(fanout[x][y], m)
  <2>1. Append(fanout[x][y], m)[i] = m
        \/ \E j \in DOMAIN fanout[x][y] : Append(fanout[x][y], m)[i] = fanout[x][y][j]
    BY <1>2, <1>4, AppendElements
  <2>. QED
    BY <1>4, <2>1
<1>. QED
  BY <1>1, <1>3, <1>4

\* After a message is consumed, a queue holds what it held.
LEMMA ConsumeElements ==
  ASSUME fanout \in [Workers -> [Workers -> Seq(Message)]],
         NEW v \in Workers, NEW w \in Workers, fanout[v][w] # <<>>, Consume(v, w),
         NEW x \in Workers, NEW y \in Workers, NEW i \in DOMAIN fanout'[x][y]
  PROVE  \E j \in DOMAIN fanout[x][y] : fanout'[x][y][i] = fanout[x][y][j]
<1>1. fanout'[x][y] = fanout[x][y] \/ (x = v /\ y = w /\ fanout'[x][y] = Tail(fanout[v][w]))
  BY DEF Consume
<1>2. fanout[v][w] \in Seq(Message)
  OBVIOUS
<1>3. CASE x = v /\ y = w /\ fanout'[x][y] = Tail(fanout[v][w])
  <2>1. \A k \in DOMAIN Tail(fanout[v][w]) :
          \E j \in DOMAIN fanout[v][w] : Tail(fanout[v][w])[k] = fanout[v][w][j]
    BY <1>2, TailElements
  <2>. QED
    BY <1>3, <2>1
<1>. QED
  BY <1>1, <1>3

LEMMA ConsumeWorkerElements ==
  ASSUME toLeader \in [Workers -> Seq(LeaderMessage)],
         NEW v \in Workers, toLeader[v] # <<>>, ConsumeWorker(v),
         NEW x \in Workers, NEW i \in DOMAIN toLeader'[x]
  PROVE  \E j \in DOMAIN toLeader[x] : toLeader'[x][i] = toLeader[x][j]
<1>1. toLeader'[x] = toLeader[x] \/ (x = v /\ toLeader'[x] = Tail(toLeader[v]))
  BY DEF ConsumeWorker
<1>2. toLeader[v] \in Seq(LeaderMessage)
  OBVIOUS
<1>3. CASE x = v /\ toLeader'[x] = Tail(toLeader[v])
  BY <1>2, <1>3, TailElements
<1>. QED
  BY <1>1, <1>3

\* After an answer, the queue to the leader holds what it held and the answer.
LEMMA AnswerElements ==
  ASSUME toLeader \in [Workers -> Seq(LeaderMessage)],
         NEW w \in Workers, NEW m \in LeaderMessage,
         toLeader' = [toLeader EXCEPT ![w] = Append(@, m)],
         NEW x \in Workers, NEW i \in DOMAIN toLeader'[x]
  PROVE  \/ \E j \in DOMAIN toLeader[x] : toLeader'[x][i] = toLeader[x][j]
         \/ x = w /\ toLeader'[x][i] = m
<1>1. toLeader'[x] = toLeader[x] \/ (x = w /\ toLeader'[x] = Append(toLeader[w], m))
  OBVIOUS
<1>2. toLeader[w] \in Seq(LeaderMessage)
  OBVIOUS
<1>3. CASE x = w /\ toLeader'[x] = Append(toLeader[w], m)
  <2>1. Append(toLeader[w], m)[i] = m
        \/ \E j \in DOMAIN toLeader[w] : Append(toLeader[w], m)[i] = toLeader[w][j]
    BY <1>2, <1>3, AppendElements
  <2>. QED
    BY <1>3, <2>1
<1>. QED
  BY <1>1, <1>3

-----------------------------------------------------------------------------
(***************************************************************************)
(* Steps that neither run a callback nor collect one keep the invariant as *)
(* long as they take no worker to ACHIEVED, invent no message and let one  *)
(* thread at most start.                                                   *)
(***************************************************************************)
LEMMA QuietStep ==
  ASSUME ProtocolInv, TypeOK', OneStarts', UNCHANGED <<ran, out, post>>,
         \A w \in Workers : state'[w] >= ACHIEVED <=> state[w] >= ACHIEVED,
         state'[Leader] = FINISH_ENABLED <=> state[Leader] = FINISH_ENABLED,
         \A w \in Workers : \A i \in DOMAIN toLeader'[w] :
           toLeader'[w][i].type = "POST_OK" =>
             \E j \in DOMAIN toLeader[w] : toLeader[w][j].type = "POST_OK",
         \A v, w \in Workers : \A i \in DOMAIN fanout'[v][w] :
           \/ \E j \in DOMAIN fanout[v][w] : fanout'[v][w][i].type = fanout[v][w][j].type
           \/ /\ v # w /\ fanout'[v][w][i].type # "OK"
              /\ fanout'[v][w][i].type # "EOF_MESSAGE" => v = Leader
  PROVE  ProtocolInv'
<1>1. RanIsAchieved' /\ OutIsFinished'
  BY DEF ProtocolInv, RanIsAchieved, OutIsFinished
<1>2. PostIsAchieved'
  <2>1. \A w \in Workers : state[w] >= ACHIEVED => state'[w] >= ACHIEVED
    OBVIOUS
  <2>2. \A w \in post' : state'[w] >= ACHIEVED
    BY <2>1 DEF ProtocolInv, PostIsAchieved, TypeOK
  <2>3. ASSUME NEW w \in Workers, NEW i \in DOMAIN toLeader'[w],
               toLeader'[w][i].type = "POST_OK"
        PROVE  state'[w] >= ACHIEVED
    BY <2>1, <2>3 DEF ProtocolInv, PostIsAchieved
  <2>4. state'[Leader] = FINISH_ENABLED => \A w \in Workers : state'[w] >= ACHIEVED
    BY <2>1 DEF ProtocolInv, PostIsAchieved
  <2>. QED
    BY <2>2, <2>3, <2>4 DEF PostIsAchieved
<1>3. LeaderDecides'
  BY DEF ProtocolInv, LeaderDecides
<1>4. LeaderFirst'
  <2>1. state'[Leader] >= ACHIEVED <=> state[Leader] >= ACHIEVED
    BY WorkersFinite
  <2>2. \A w \in Workers : state'[w] >= ACHIEVED => state'[Leader] >= ACHIEVED
    BY <2>1 DEF ProtocolInv, LeaderFirst
  <2>3. \A w \in Workers : \A i \in DOMAIN fanout'[Leader][w] :
          fanout'[Leader][w][i].type = "OK" => state'[Leader] >= ACHIEVED
    BY <2>1, WorkersFinite DEF ProtocolInv, LeaderFirst
  <2>. QED
    BY <2>2, <2>3 DEF LeaderFirst
<1>. QED
  BY <1>1, <1>2, <1>3, <1>4 DEF ProtocolInv

\* What an early EOF or a round that starts or fails does to a state.
LEMMA AdvanceBelow ==
  ASSUME NEW s \in EOFStates, NEW new \in {ACTIVE, PENDING_EOF, REQUEST_SENT, RESPONSE_SENT}
  PROVE  /\ Advance(s, new) >= ACHIEVED <=> s >= ACHIEVED
         /\ Advance(s, new) = FINISH_ENABLED <=> s = FINISH_ENABLED
         /\ s >= ACHIEVED => Advance(s, new) = s
         /\ s = PENDING_EOF /\ new = ACTIVE => Advance(s, new) = s
BY DEF Advance, ConsensusFailed, EOFStates, INACTIVE, ACTIVE, PENDING_EOF, REQUEST_SENT,
       RESPONSE_SENT, ACHIEVED, FINISH_ENABLED

LEMMA AdvanceStep ==
  ASSUME state \in [Workers -> EOFStates], NEW w \in Workers,
         NEW new \in {ACTIVE, PENDING_EOF, REQUEST_SENT, RESPONSE_SENT},
         state' = [state EXCEPT ![w] = Advance(state[w], new)]
  PROVE  /\ \A x \in Workers : state'[x] >= ACHIEVED <=> state[x] >= ACHIEVED
         /\ state'[Leader] = FINISH_ENABLED <=> state[Leader] = FINISH_ENABLED
         /\ new = ACTIVE /\ state[Leader] = PENDING_EOF => state'[Leader] = PENDING_EOF
<1>1. \A x \in Workers : state'[x] = state[x] \/ state'[x] = Advance(state[x], new)
  OBVIOUS
<1>2. \A x \in Workers : state[x] \in EOFStates
  OBVIOUS
<1>. QED
  BY <1>1, <1>2, WorkersFinite, AdvanceBelow

LEMMA InputThreadSafe ==
  ASSUME ProtocolInv, TypeOK', NEW w \in Workers, NEW f \in Fluxes, InputThread(w, f)
  PROVE  ProtocolInv'
<1>. USE DEF inputVars, countVars, leaderVars, netVars, sendVars
<1>f. f \in Threads /\ Leader \in Workers
  BY WorkersFinite DEF Threads
<1>t. TypeOK
  BY DEF ProtocolInv
<1>s. \A x \in Workers, t \in Threads :
        pc'[x][t] \in {"start", "mark"} => pc[x][t] \in {"start", "mark"}
  <2>1. PICK c \in {"idle", "packet", "prefix", "counter", "check"} :
          pc' = pc \/ pc' = [pc EXCEPT ![w][f] = c]
    BY DEF InputThread, ReceivePacket, CountPacket, AdmitEof, DiscardEof, AddPrefix, Broadcast
  <2>2. pc \in [Workers -> [Threads -> PC]]
    BY <1>t DEF TypeOK
  <2>. QED
    BY <1>f, <2>1, <2>2
<1>1. CASE AdmitEof(w, f)
  <2>1. /\ \A x \in Workers : state'[x] >= ACHIEVED <=> state[x] >= ACHIEVED
        /\ state'[Leader] = FINISH_ENABLED <=> state[Leader] = FINISH_ENABLED
        /\ state[Leader] = PENDING_EOF => state'[Leader] = PENDING_EOF
    <3>1. state' = [state EXCEPT ![w] = Advance(state[w], ACTIVE)]
      BY <1>1 DEF AdmitEof
    <3>2. state \in [Workers -> EOFStates]
      BY <1>t DEF TypeOK
    <3>. QED
      BY <3>1, <3>2, AdvanceStep
  <2>2. OneStarts'
    BY <2>1, <1>s, <1>f DEF ProtocolInv, OneStarts, Starting
  <2>. QED
    BY <1>1, <2>1, <2>2, QuietStep DEF AdmitEof
<1>2. CASE Broadcast(w, f)
  <2>1. OneStarts'
    BY <1>2, <1>s, <1>f DEF ProtocolInv, OneStarts, Starting, Broadcast
  <2>2. ASSUME NEW x \in Workers, NEW y \in Workers, NEW i \in DOMAIN fanout'[x][y]
        PROVE  \/ \E j \in DOMAIN fanout[x][y] : fanout'[x][y][i].type = fanout[x][y][j].type
               \/ x # y /\ fanout'[x][y][i].type = "EOF_MESSAGE"
    <3>1. fanout \in [Workers -> [Workers -> Seq(Message)]]
      BY <1>t DEF TypeOK
    <3>. DEFINE m == [type |-> "EOF_MESSAGE", flux |-> f]
    <3>2. m \in Message /\ m.type = "EOF_MESSAGE" /\ fanout' = Fanout(w, m)
      BY <1>2, MessageType DEF Broadcast
    <3>. HIDE DEF m
    <3>3. \/ \E j \in DOMAIN fanout[x][y] : fanout'[x][y][i] = fanout[x][y][j]
          \/ x = w /\ x # y /\ fanout'[x][y][i] = m
      BY <3>1, <3>2, FanoutElements
    <3>. QED
      BY <3>2, <3>3
  <2>. QED
    BY <1>2, <2>1, <2>2, QuietStep DEF Broadcast
<1>3. CASE UNCHANGED <<ran, out, post, state, toLeader, fanout>>
  <2>1. OneStarts'
    BY <1>3, <1>s, <1>f DEF ProtocolInv, OneStarts, Starting
  <2>. QED
    BY <1>3, <2>1, QuietStep
<1>. QED
  BY <1>1, <1>2, <1>3 DEF InputThread, ReceivePacket, CountPacket, DiscardEof, AddPrefix

LEMMA RegistrationSafe ==
  ASSUME ProtocolInv, TypeOK', NEW w \in Workers, NEW t \in Threads, Registration(w, t)
  PROVE  ProtocolInv'
<1>. USE DEF inputVars, countVars, leaderVars, netVars, sendVars
<1>p. Leader \in Workers /\ pc \in [Workers -> [Threads -> PC]] /\ state \in [Workers -> EOFStates]
  BY WorkersFinite DEF ProtocolInv, TypeOK
<1>1. CASE AddCounter(w, t) \/ AddTotal(w, t)
  <2>1. PICK c \in {"total", "check", "broadcast"} : pc' = [pc EXCEPT ![w][t] = c]
    BY <1>1 DEF AddCounter, AddTotal
  <2>2. \A u \in Threads :
          pc'[Leader][u] \in {"start", "mark"} => pc[Leader][u] \in {"start", "mark"}
    BY <1>p, <2>1
  <2>3. UNCHANGED <<ran, out, post, state, toLeader, fanout>>
    BY <1>1 DEF AddCounter, AddTotal
  <2>4. OneStarts'
    BY <2>2, <2>3 DEF ProtocolInv, OneStarts, Starting
  <2>. QED
    BY <2>3, <2>4, QuietStep
<1>2. CASE CheckEofs(w, t)
  <2>1. UNCHANGED <<ran, out, post, toLeader, fanout>>
    BY <1>2 DEF CheckEofs
  <2>2. /\ \A x \in Workers : state'[x] >= ACHIEVED <=> state[x] >= ACHIEVED
        /\ state'[Leader] = FINISH_ENABLED <=> state[Leader] = FINISH_ENABLED
    BY <1>2, <1>p DEF CheckEofs, Starts, ACTIVE, PENDING_EOF, ACHIEVED, FINISH_ENABLED
  <2>3. OneStarts'
    <3>1. CASE Starts(w) /\ w = Leader
      <4>1. Starting = {}
        BY <3>1 DEF Starts, ProtocolInv, OneStarts, ACTIVE, PENDING_EOF
      <4>2. \A u \in Threads : u # t => pc'[Leader][u] = pc[Leader][u]
        BY <1>2, <1>p, <3>1 DEF CheckEofs
      <4>3. \A u \in Starting' : u = t
        BY <4>1, <4>2 DEF Starting
      <4>4. state'[Leader] = PENDING_EOF
        BY <1>2, <1>p, <3>1 DEF CheckEofs
      <4>. QED
        BY <4>3, <4>4 DEF OneStarts
    <3>2. CASE ~(Starts(w) /\ w = Leader)
      <4>1. state'[Leader] = state[Leader]
        BY <1>2, <1>p, <3>2 DEF CheckEofs
      <4>2. pc' = [pc EXCEPT ![w][t] = "idle"]
        BY <1>2, <3>2 DEF CheckEofs
      <4>3. \A u \in Threads :
              pc'[Leader][u] \in {"start", "mark"} => pc[Leader][u] \in {"start", "mark"}
        BY <1>p, <4>2
      <4>. QED
        BY <4>1, <4>3 DEF ProtocolInv, OneStarts, Starting
    <3>. QED
      BY <3>1, <3>2
  <2>. QED
    BY <2>1, <2>2, <2>3, QuietStep
<1>. QED
  BY <1>1, <1>2 DEF Registration

LEMMA LeaderThreadSafe ==
  ASSUME ProtocolInv, TypeOK', NEW t \in Threads, LeaderThread(t)
  PROVE  ProtocolInv'
<1>. USE DEF inputVars, countVars, leaderVars, netVars, sendVars
<1>p. Leader \in Workers /\ pc \in [Workers -> [Threads -> PC]] /\ state \in [Workers -> EOFStates]
  BY WorkersFinite DEF ProtocolInv, TypeOK
<1>s. t \in Starting
  BY DEF LeaderThread, SendRequest, MarkRequestSent, Starting
<1>1. CASE SendRequest(t)
  <2>1. UNCHANGED <<ran, out, post, toLeader, state>>
    BY <1>1 DEF SendRequest
  <2>2. \A u \in Threads : u # t => pc'[Leader][u] = pc[Leader][u]
    BY <1>1, <1>p DEF SendRequest
  <2>3. OneStarts'
    BY <1>s, <2>1, <2>2 DEF ProtocolInv, OneStarts, Starting
  <2>4. ASSUME NEW x \in Workers, NEW y \in Workers, NEW i \in DOMAIN fanout'[x][y]
        PROVE  \/ \E j \in DOMAIN fanout[x][y] : fanout'[x][y][i].type = fanout[x][y][j].type
               \/ x # y /\ x = Leader /\ fanout'[x][y][i].type # "OK"
    <3>. DEFINE m == [type |-> "REQUEST", awaited |-> eofs[Leader]]
    <3>1. fanout \in [Workers -> [Workers -> Seq(Message)]] /\ eofs[Leader] \in SUBSET Fluxes
      BY <1>p DEF ProtocolInv, TypeOK
    <3>2. m \in Message /\ m.type # "OK" /\ fanout' = Fanout(Leader, m)
      BY <1>1, <3>1, MessageType DEF SendRequest
    <3>. HIDE DEF m
    <3>3. \/ \E j \in DOMAIN fanout[x][y] : fanout'[x][y][i] = fanout[x][y][j]
          \/ x = Leader /\ x # y /\ fanout'[x][y][i] = m
      BY <1>p, <3>1, <3>2, FanoutElements
    <3>. QED
      BY <3>2, <3>3
  <2>. QED
    BY <2>1, <2>3, <2>4, QuietStep
<1>2. CASE MarkRequestSent(t)
  <2>1. UNCHANGED <<ran, out, post, toLeader, fanout>>
    BY <1>2 DEF MarkRequestSent
  <2>2. state' = [state EXCEPT ![Leader] = Advance(state[Leader], REQUEST_SENT)]
    BY <1>2 DEF MarkRequestSent
  <2>3. /\ \A x \in Workers : state'[x] >= ACHIEVED <=> state[x] >= ACHIEVED
        /\ state'[Leader] = FINISH_ENABLED <=> state[Leader] = FINISH_ENABLED
    BY <1>p, <2>2, AdvanceBelow
  <2>4. Starting' = {}
    <3>1. pc' = [pc EXCEPT ![Leader][t] = "idle"]
      BY <1>2 DEF MarkRequestSent
    <3>2. \A u \in Threads : u # t => pc'[Leader][u] = pc[Leader][u]
      BY <3>1, <1>p
    <3>3. pc'[Leader][t] = "idle"
      BY <3>1, <1>p
    <3>4. \A u \in Starting : u = t
      BY <1>s DEF ProtocolInv, OneStarts
    <3>. QED
      BY <3>2, <3>3, <3>4 DEF Starting
  <2>5. OneStarts'
    BY <2>4 DEF OneStarts
  <2>. QED
    BY <2>1, <2>3, <2>5, QuietStep
<1>. QED
  BY <1>1, <1>2 DEF LeaderThread

LEMMA FinishAloneSafe ==
  ASSUME ProtocolInv, TypeOK', NEW f \in Fluxes, FinishAlone(f)
  PROVE  ProtocolInv'
<1>p. /\ Leader \in Workers /\ f \in Threads
      /\ pc \in [Workers -> [Threads -> PC]] /\ state \in [Workers -> EOFStates]
      /\ ran \in [Workers -> Nat] /\ out \in Seq(Nat)
  BY WorkersFinite DEF ProtocolInv, TypeOK, Threads
<1>1. \A w \in Workers : w = Leader
  BY DEF FinishAlone, Workers, Leader
<1>2. f \in Starting /\ state[Leader] = PENDING_EOF
  BY <1>p DEF FinishAlone, Starting, ProtocolInv, OneStarts
<1>3. state'[Leader] = FINISH_ENABLED /\ ran'[Leader] = ran[Leader] + 1
  BY <1>p DEF FinishAlone, RunCallback
<1>4. ran[Leader] = 0
  BY <1>p, <1>2 DEF ProtocolInv, RanIsAchieved, PENDING_EOF, ACHIEVED
<1>5. RanIsAchieved'
  BY <1>1, <1>3, <1>4 DEF RanIsAchieved, FINISH_ENABLED, ACHIEVED
<1>6. OutIsFinished'
  <2>1. Len(out) = 0
    BY <1>2 DEF ProtocolInv, OutIsFinished, PENDING_EOF, FINISH_ENABLED
  <2>2. out' = Append(out, Tally(totalSent'))
    BY DEF FinishAlone
  <2>3. Len(out') = 1
    BY ONLY <1>p, <2>1, <2>2
  <2>. QED
    BY <1>3, <2>3 DEF OutIsFinished
<1>7. PostIsAchieved'
  <2>1. \A w \in Workers : state'[w] >= ACHIEVED
    BY <1>1, <1>3 DEF FINISH_ENABLED, ACHIEVED
  <2>2. post' = {}
    BY DEF FinishAlone, ClearLeader
  <2>. QED
    BY <2>1, <2>2 DEF PostIsAchieved
<1>8. LeaderDecides'
  BY DEF FinishAlone, netVars, ProtocolInv, LeaderDecides
<1>9. OneStarts'
  <2>1. pc' = [pc EXCEPT ![Leader][f] = "idle"]
    BY DEF FinishAlone
  <2>2. \A u \in Starting : u = f
    BY <1>2 DEF ProtocolInv, OneStarts
  <2>3. Starting' = {}
    BY <1>p, <2>1, <2>2 DEF Starting
  <2>. QED
    BY <2>3 DEF OneStarts
<1>10. LeaderFirst'
  BY <1>3 DEF LeaderFirst, FINISH_ENABLED, ACHIEVED
<1>. QED
  BY <1>5, <1>6, <1>7, <1>8, <1>9, <1>10 DEF ProtocolInv

LEMMA FanoutMessageSafe ==
  ASSUME ProtocolInv, TypeOK', NEW v \in Workers, NEW w \in Workers, FanoutMessage(v, w)
  PROVE  ProtocolInv'
<1>. USE DEF inputVars, countVars, leaderVars, netVars, sendVars
<1>p. /\ Leader \in Workers /\ Control \in Threads
      /\ pc \in [Workers -> [Threads -> PC]] /\ state \in [Workers -> EOFStates]
      /\ ran \in [Workers -> Nat] /\ toLeader \in [Workers -> Seq(LeaderMessage)]
      /\ fanout \in [Workers -> [Workers -> Seq(Message)]]
  BY WorkersFinite DEF ProtocolInv, TypeOK, Threads
<1>c. fanout[v][w] # <<>> /\ Consume(v, w)
  BY DEF FanoutMessage, HandleEofMessage, HandleRequest, HandleOk, HandleFail, IgnoreFanout, From
<1>e. ASSUME NEW x \in Workers, NEW y \in Workers, NEW i \in DOMAIN fanout'[x][y]
      PROVE  \E j \in DOMAIN fanout[x][y] : fanout'[x][y][i] = fanout[x][y][j]
  BY <1>p, <1>c, ConsumeElements
<1>h. Head(fanout[v][w]).type # "EOF_MESSAGE" => w # Leader
  <2>1. fanout[v][w] \in Seq(Message)
    BY <1>p
  <2>2. 1 \in DOMAIN fanout[v][w] /\ Head(fanout[v][w]) = fanout[v][w][1]
    BY <1>c, <2>1, HeadElement
  <2>. QED
    BY <2>2 DEF ProtocolInv, LeaderDecides
<1>1. CASE HandleEofMessage(v, w)
  <2>1. UNCHANGED <<ran, out, post, toLeader>>
    BY <1>1 DEF HandleEofMessage
  <2>2. /\ \A x \in Workers : state'[x] >= ACHIEVED <=> state[x] >= ACHIEVED
        /\ state'[Leader] = FINISH_ENABLED <=> state[Leader] = FINISH_ENABLED
        /\ state[Leader] = PENDING_EOF => state'[Leader] = PENDING_EOF
    <3>1. state' = [state EXCEPT ![w] = Advance(state[w], ACTIVE)]
      BY <1>1 DEF HandleEofMessage
    <3>2. state \in [Workers -> EOFStates]
      BY <1>p
    <3>. QED
      BY <3>1, <3>2, AdvanceStep
  <2>3. \A u \in Threads :
          pc'[Leader][u] \in {"start", "mark"} => pc[Leader][u] \in {"start", "mark"}
    <3>1. pc' = [pc EXCEPT ![w][Control] = "counter"]
      BY <1>1 DEF HandleEofMessage
    <3>. QED
      BY <3>1, <1>p
  <2>4. OneStarts'
    BY <2>2, <2>3 DEF ProtocolInv, OneStarts, Starting
  <2>. QED
    BY <1>e, <2>1, <2>2, <2>4, QuietStep
<1>2. CASE HandleRequest(v, w)
  <2>1. UNCHANGED <<ran, out, post, pc>>
    BY <1>2 DEF HandleRequest
  <2>2. /\ \A x \in Workers : state'[x] >= ACHIEVED <=> state[x] >= ACHIEVED
        /\ state'[Leader] = state[Leader]
    <3>1. state' = [state EXCEPT ![w] = Advance(Advance(state[w], REQUEST_SENT), RESPONSE_SENT)]
      BY <1>2 DEF HandleRequest
    <3>2. w # Leader
      BY <1>2, <1>h DEF HandleRequest, From
    <3>3. Advance(state[w], REQUEST_SENT) \in EOFStates
      BY <1>p, AdvanceType, StatesType
    <3>4. Advance(state[w], REQUEST_SENT) >= ACHIEVED <=> state[w] >= ACHIEVED
      BY <1>p, AdvanceBelow
    <3>. DEFINE s == Advance(state[w], REQUEST_SENT)
    <3>5. Advance(s, RESPONSE_SENT) >= ACHIEVED <=> s >= ACHIEVED
      BY <3>3, AdvanceBelow
    <3>. QED
      BY <3>1, <3>2, <3>4, <3>5, <1>p
  <2>3. OneStarts'
    BY <2>1, <2>2 DEF ProtocolInv, OneStarts, Starting
  <2>4. ASSUME NEW x \in Workers, NEW i \in DOMAIN toLeader'[x],
               toLeader'[x][i].type = "POST_OK"
        PROVE  \E j \in DOMAIN toLeader[x] : toLeader[x][j].type = "POST_OK"
    <3>. DEFINE m == [type |-> "RESPONSE", counts |-> processed'[w]]
    <3>1. processed'[w] \in [Fluxes -> Count]
      BY DEF TypeOK
    <3>2. m \in LeaderMessage /\ m.type = "RESPONSE"
      BY <3>1, MessageType
    <3>3. toLeader' = [toLeader EXCEPT ![w] = Append(@, m)]
      BY <1>2 DEF HandleRequest
    <3>. HIDE DEF m
    <3>4. \/ \E j \in DOMAIN toLeader[x] : toLeader'[x][i] = toLeader[x][j]
          \/ x = w /\ toLeader'[x][i] = m
      <4>1. toLeader \in [Workers -> Seq(LeaderMessage)] /\ m \in LeaderMessage
        BY <1>p, <3>2
      <4>. QED
        BY <3>3, <4>1, AnswerElements
    <3>. QED
      BY <2>4, <3>2, <3>4
  <2>. QED
    BY <1>e, <2>1, <2>2, <2>3, <2>4, QuietStep
<1>3. CASE HandleOk(v, w)
  <2>1. w # Leader
    BY <1>3, <1>h DEF HandleOk, From
  <2>2. state' = [state EXCEPT ![w] = FINISH_ENABLED]
    BY <1>3 DEF HandleOk
  <2>3. \A x \in Workers : state[x] >= ACHIEVED => state'[x] >= ACHIEVED
    BY <1>p, <2>2 DEF FINISH_ENABLED, ACHIEVED
  <2>4. RanIsAchieved'
    <3>r. \A x \in Workers : ran[x] = IF state[x] >= ACHIEVED THEN 1 ELSE 0
      BY DEF ProtocolInv, RanIsAchieved
    <3>1. state[w] = RESPONSE_SENT
      <4>1. state[w] \in EOFStates /\ ValidTransition(state[w], ACHIEVED)
        BY <1>3, <1>p DEF HandleOk
      <4>. QED
        BY <4>1 DEF EOFStates, ValidTransition, ConsensusFailed, INACTIVE, ACTIVE, PENDING_EOF,
                    RESPONSE_SENT, ACHIEVED, FINISH_ENABLED
    <3>2. ran[w] = 0
      BY <3>r, <3>1 DEF ACHIEVED, RESPONSE_SENT
    <3>3. ran' = [ran EXCEPT ![w] = ran[w] + 1]
      BY <1>3 DEF HandleOk, RunCallback
    <3>4. ran'[w] = 1 /\ state'[w] = FINISH_ENABLED
      BY <1>p, <2>2, <3>2, <3>3
    <3>5. \A x \in Workers \ {w} : ran'[x] = ran[x] /\ state'[x] = state[x]
      BY <1>p, <2>2, <3>3
    <3>6. FINISH_ENABLED >= ACHIEVED
      BY DEF FINISH_ENABLED, ACHIEVED
    <3>. QED
      BY <3>r, <3>4, <3>5, <3>6 DEF RanIsAchieved
  <2>5. OutIsFinished'
    BY <1>3, <1>p, <2>1, <2>2 DEF HandleOk, ProtocolInv, OutIsFinished
  <2>6. PostIsAchieved'
    <3>1. post' = post /\ state'[Leader] = state[Leader]
      BY <1>3, <1>p, <2>1, <2>2 DEF HandleOk
    <3>2. PICK k \in CallbackOutputs :
            toLeader' = [toLeader EXCEPT ![w] =
                           Append(@, [type |-> "POST_OK", sent |-> sent[w] + k])]
      BY <1>3 DEF HandleOk
    <3>. DEFINE m == [type |-> "POST_OK", sent |-> sent[w] + k]
    <3>3. m \in LeaderMessage
      <4>1. sent[w] \in Nat /\ k \in Nat
        BY ConsensusAssumption DEF ProtocolInv, TypeOK
      <4>. QED
        BY <4>1, MessageType
    <3>4. toLeader' = [toLeader EXCEPT ![w] = Append(@, m)]
      BY <3>2
    <3>. HIDE DEF m
    <3>5. ASSUME NEW x \in Workers, NEW i \in DOMAIN toLeader'[x],
                 toLeader'[x][i].type = "POST_OK"
          PROVE  state'[x] >= ACHIEVED
      <4>1. \/ \E j \in DOMAIN toLeader[x] : toLeader'[x][i] = toLeader[x][j]
            \/ x = w
        BY <1>p, <3>3, <3>4, AnswerElements
      <4>2. state'[w] >= ACHIEVED
        BY <1>p, <2>2 DEF FINISH_ENABLED, ACHIEVED
      <4>. QED
        BY <2>3, <3>5, <4>1, <4>2 DEF ProtocolInv, PostIsAchieved
    <3>6. \A x \in post' : state'[x] >= ACHIEVED
      BY <2>3, <3>1 DEF ProtocolInv, PostIsAchieved, TypeOK
    <3>7. state'[Leader] = FINISH_ENABLED => \A x \in Workers : state'[x] >= ACHIEVED
      BY <2>3, <3>1 DEF ProtocolInv, PostIsAchieved
    <3>. QED
      BY <3>5, <3>6, <3>7 DEF PostIsAchieved
  <2>7. LeaderDecides'
    BY <1>e DEF ProtocolInv, LeaderDecides
  <2>8. OneStarts'
    <3>1. pc' = pc /\ state'[Leader] = state[Leader]
      BY <1>3, <1>p, <2>1, <2>2 DEF HandleOk
    <3>. QED
      BY <3>1 DEF ProtocolInv, OneStarts, Starting
  <2>9. LeaderFirst'
    <3>1. fanout[v][w] \in Seq(Message) /\ Head(fanout[v][w]).type = "OK"
      BY <1>3, <1>p DEF HandleOk, From
    <3>2. 1 \in DOMAIN fanout[v][w] /\ Head(fanout[v][w]) = fanout[v][w][1]
      BY <1>c, <3>1, HeadElement
    <3>3. v = Leader
      BY <3>1, <3>2 DEF ProtocolInv, LeaderDecides
    <3>4. state[Leader] >= ACHIEVED
      BY <3>1, <3>2, <3>3 DEF ProtocolInv, LeaderFirst
    <3>5. state'[Leader] >= ACHIEVED
      BY <1>p, <2>3, <3>4
    <3>. QED
      BY <3>5 DEF LeaderFirst
  <2>. QED
    BY <2>4, <2>5, <2>6, <2>7, <2>8, <2>9 DEF ProtocolInv
<1>4. CASE HandleFail(v, w)
  <2>1. UNCHANGED <<ran, out, post, pc, toLeader>>
    BY <1>4 DEF HandleFail
  <2>2. /\ \A x \in Workers : state'[x] >= ACHIEVED <=> state[x] >= ACHIEVED
        /\ state'[Leader] = state[Leader]
    <3>1. state' = [state EXCEPT ![w] = Advance(state[w], PENDING_EOF)]
      BY <1>4 DEF HandleFail
    <3>2. w # Leader
      BY <1>4, <1>h DEF HandleFail, From
    <3>3. state \in [Workers -> EOFStates]
      BY <1>p
    <3>4. state'[Leader] = state[Leader]
      BY <3>1, <3>2, <3>3
    <3>. QED
      BY <3>1, <3>3, <3>4, AdvanceStep
  <2>3. OneStarts'
    BY <2>1, <2>2 DEF ProtocolInv, OneStarts, Starting
  <2>. QED
    BY <1>e, <2>1, <2>2, <2>3, QuietStep
<1>5. CASE IgnoreFanout(v, w)
  <2>1. UNCHANGED <<ran, out, post, pc, toLeader, state>>
    BY <1>5 DEF IgnoreFanout
  <2>2. OneStarts'
    BY <2>1 DEF ProtocolInv, OneStarts, Starting
  <2>. QED
    BY <1>e, <2>1, <2>2, QuietStep
<1>. QED
  BY <1>1, <1>2, <1>3, <1>4, <1>5 DEF FanoutMessage

\* The two states in which the leader's control thread moves the round on.
LEMMA LeaderWaits ==
  ASSUME NEW s \in EOFStates
  PROVE  /\ ValidTransition(s, RESPONSE_SENT) => s = REQUEST_SENT
         /\ ValidTransition(s, FINISH_ENABLED) => s = ACHIEVED
BY DEF ValidTransition, ConsensusFailed, EOFStates, INACTIVE, ACTIVE, PENDING_EOF, REQUEST_SENT,
       RESPONSE_SENT, ACHIEVED, FINISH_ENABLED

LEMMA WorkerMessageSafe ==
  ASSUME ProtocolInv, TypeOK', NEW v \in Workers, WorkerMessage(v)
  PROVE  ProtocolInv'
<1>. USE DEF inputVars, countVars, leaderVars, netVars, sendVars
<1>p. /\ Leader \in Workers /\ Control \in Threads
      /\ pc \in [Workers -> [Threads -> PC]] /\ state \in [Workers -> EOFStates]
      /\ ran \in [Workers -> Nat] /\ toLeader \in [Workers -> Seq(LeaderMessage)]
      /\ fanout \in [Workers -> [Workers -> Seq(Message)]] /\ post \subseteq Workers
      /\ out \in Seq(Nat)
  BY WorkersFinite DEF ProtocolInv, TypeOK, Threads
<1>c. toLeader[v] # <<>> /\ ConsumeWorker(v)
  BY DEF WorkerMessage, Accumulate, Agree, Disagree, CollectPostOk, ForwardEof, IgnoreWorker,
         Response, PostOk, FromWorker
<1>e. ASSUME NEW x \in Workers, NEW i \in DOMAIN toLeader'[x]
      PROVE  \E j \in DOMAIN toLeader[x] : toLeader'[x][i] = toLeader[x][j]
  BY <1>p, <1>c, ConsumeWorkerElements
<1>s. state[Leader] # PENDING_EOF => Starting = {}
  BY DEF ProtocolInv, OneStarts
<1>w. /\ ValidTransition(state[Leader], RESPONSE_SENT) => state[Leader] = REQUEST_SENT
      /\ ValidTransition(state[Leader], FINISH_ENABLED) => state[Leader] = ACHIEVED
  BY <1>p, LeaderWaits
<1>r. \A x \in Workers : ran[x] = IF state[x] >= ACHIEVED THEN 1 ELSE 0
  BY DEF ProtocolInv, RanIsAchieved
<1>a. /\ \A x \in post : state[x] >= ACHIEVED
      /\ \A x \in Workers : \A i \in DOMAIN toLeader[x] :
           toLeader[x][i].type = "POST_OK" => state[x] >= ACHIEVED
  BY DEF ProtocolInv, PostIsAchieved
<1>1. CASE Accumulate(v) \/ IgnoreWorker(v)
  <2>1. UNCHANGED <<ran, out, post, state, fanout, pc>>
    BY <1>1 DEF Accumulate, IgnoreWorker
  <2>2. OneStarts'
    BY <2>1 DEF ProtocolInv, OneStarts, Starting
  <2>. QED
    BY <1>e, <2>1, <2>2, QuietStep
<1>2. CASE Agree(v)
  <2>1. state[Leader] = REQUEST_SENT
    BY <1>2, <1>w DEF Agree, Response
  <2>2. state' = [state EXCEPT ![Leader] = ACHIEVED] /\ post' = post \cup {Leader}
    BY <1>2 DEF Agree
  <2>3. \A x \in Workers : state[x] >= ACHIEVED => state'[x] >= ACHIEVED
    BY <1>p, <2>2 DEF ACHIEVED
  <2>4. RanIsAchieved'
    <3>1. ran[Leader] = 0
      BY <1>p, <1>r, <2>1 DEF ACHIEVED, REQUEST_SENT
    <3>2. ran' = [ran EXCEPT ![Leader] = ran[Leader] + 1]
      BY <1>2 DEF Agree, RunCallback
    <3>3. ran'[Leader] = 1 /\ state'[Leader] = ACHIEVED
      BY <1>p, <2>2, <3>1, <3>2
    <3>4. \A x \in Workers \ {Leader} : ran'[x] = ran[x] /\ state'[x] = state[x]
      BY <1>p, <2>2, <3>2
    <3>. QED
      BY <1>r, <3>3, <3>4 DEF RanIsAchieved, ACHIEVED
  <2>5. OutIsFinished'
    <3>1. out' = out /\ state'[Leader] = ACHIEVED
      BY <1>2, <1>p, <2>2 DEF Agree
    <3>. QED
      BY <2>1, <3>1 DEF ProtocolInv, OutIsFinished, REQUEST_SENT, ACHIEVED, FINISH_ENABLED
  <2>6. PostIsAchieved'
    <3>1. state'[Leader] = ACHIEVED /\ ACHIEVED >= ACHIEVED /\ ACHIEVED # FINISH_ENABLED
      BY <1>p, <2>2 DEF ACHIEVED, FINISH_ENABLED
    <3>2. \A x \in post' : state'[x] >= ACHIEVED
      BY <1>a, <1>p, <2>2, <2>3, <3>1
    <3>3. \A x \in Workers : \A i \in DOMAIN toLeader'[x] :
            toLeader'[x][i].type = "POST_OK" => state'[x] >= ACHIEVED
      BY <1>a, <1>e, <2>3
    <3>. QED
      BY <3>1, <3>2, <3>3 DEF PostIsAchieved
  <2>7. LeaderDecides'
    <3>. DEFINE m == [type |-> "OK"]
    <3>1. m \in Message /\ fanout' = Fanout(Leader, m)
      BY <1>2, MessageType DEF Agree
    <3>. HIDE DEF m
    <3>2. fanout \in [Workers -> [Workers -> Seq(Message)]] /\ Leader \in Workers
      BY <1>p
    <3>3. ASSUME NEW x \in Workers, NEW y \in Workers, NEW i \in DOMAIN fanout'[x][y]
          PROVE  \/ \E j \in DOMAIN fanout[x][y] : fanout'[x][y][i] = fanout[x][y][j]
                 \/ x = Leader /\ x # y /\ fanout'[x][y][i] = m
      BY <3>1, <3>2, FanoutElements
    <3>. QED
      BY <3>3 DEF ProtocolInv, LeaderDecides
  <2>8. OneStarts'
    <3>1. pc' = pc /\ Starting = {}
      BY <1>2, <1>s, <2>1 DEF Agree, REQUEST_SENT, PENDING_EOF
    <3>. QED
      BY <3>1 DEF OneStarts, Starting
  <2>9. LeaderFirst'
    <3>1. state'[Leader] >= ACHIEVED
      BY <1>p, <2>2 DEF ACHIEVED
    <3>. QED
      BY <3>1 DEF LeaderFirst
  <2>. QED
    BY <2>4, <2>5, <2>6, <2>7, <2>8, <2>9 DEF ProtocolInv
<1>3. CASE Disagree(v)
  <2>1. UNCHANGED <<ran, out, post>>
    BY <1>3 DEF Disagree
  <2>2. state[Leader] = REQUEST_SENT /\ Starting = {}
    BY <1>3, <1>s, <1>w DEF Disagree, Response, REQUEST_SENT, PENDING_EOF
  <2>3. state' = [state EXCEPT ![Leader] = PENDING_EOF]
    BY <1>3, <2>2 DEF Disagree, Advance, ConsensusFailed, REQUEST_SENT, RESPONSE_SENT, PENDING_EOF
  <2>4. /\ \A x \in Workers : state'[x] >= ACHIEVED <=> state[x] >= ACHIEVED
        /\ state'[Leader] = FINISH_ENABLED <=> state[Leader] = FINISH_ENABLED
    BY <1>p, <2>2, <2>3 DEF REQUEST_SENT, PENDING_EOF, ACHIEVED, FINISH_ENABLED
  <2>5. OneStarts'
    <3>1. pc' = [pc EXCEPT ![Leader][Control] = "start"]
      BY <1>3 DEF Disagree
    <3>2. \A u \in Threads : u # Control => pc'[Leader][u] = pc[Leader][u]
      BY <1>p, <3>1
    <3>3. \A u \in Starting' : u = Control
      BY <2>2, <3>2 DEF Starting
    <3>4. state'[Leader] = PENDING_EOF
      BY <1>p, <2>3
    <3>. QED
      BY <3>3, <3>4 DEF OneStarts
  <2>6. ASSUME NEW x \in Workers, NEW y \in Workers, NEW i \in DOMAIN fanout'[x][y]
        PROVE  \/ \E j \in DOMAIN fanout[x][y] : fanout'[x][y][i].type = fanout[x][y][j].type
               \/ x # y /\ x = Leader /\ fanout'[x][y][i].type # "OK"
    <3>. DEFINE m == [type |-> "FAIL"]
    <3>1. m \in Message /\ m.type # "OK" /\ fanout' = Fanout(Leader, m)
      BY <1>3, MessageType DEF Disagree
    <3>. HIDE DEF m
    <3>2. fanout \in [Workers -> [Workers -> Seq(Message)]] /\ Leader \in Workers
      BY <1>p
    <3>3. \/ \E j \in DOMAIN fanout[x][y] : fanout'[x][y][i] = fanout[x][y][j]
          \/ x = Leader /\ x # y /\ fanout'[x][y][i] = m
      BY <3>1, <3>2, FanoutElements
    <3>. QED
      BY <3>1, <3>3
  <2>. QED
    BY <1>e, <2>1, <2>4, <2>5, <2>6, QuietStep
<1>o. ASSUME PostOk(v)
      PROVE  state[Leader] = ACHIEVED /\ \A x \in post \cup {v} : state[x] >= ACHIEVED
  <2>1. Head(toLeader[v]).type = "POST_OK" /\ state[Leader] = ACHIEVED
    BY <1>o, <1>w DEF PostOk, FromWorker
  <2>2. toLeader[v] \in Seq(LeaderMessage)
    BY <1>p
  <2>3. 1 \in DOMAIN toLeader[v] /\ Head(toLeader[v]) = toLeader[v][1]
    BY <1>c, <2>2, HeadElement
  <2>. QED
    BY <1>a, <2>1, <2>3
<1>4. CASE CollectPostOk(v)
  <2>1. UNCHANGED <<ran, out, state, fanout, pc>> /\ post' = post \cup {v}
    BY <1>4 DEF CollectPostOk
  <2>2. state[Leader] = ACHIEVED /\ \A x \in post' : state'[x] >= ACHIEVED
    BY <1>4, <1>o, <2>1 DEF CollectPostOk
  <2>3. PostIsAchieved'
    <3>1. \A x \in Workers : \A i \in DOMAIN toLeader'[x] :
            toLeader'[x][i].type = "POST_OK" => state'[x] >= ACHIEVED
      BY <1>a, <1>e, <2>1
    <3>2. state'[Leader] # FINISH_ENABLED
      BY <2>1, <2>2 DEF ACHIEVED, FINISH_ENABLED
    <3>. QED
      BY <2>2, <3>1, <3>2 DEF PostIsAchieved
  <2>4. RanIsAchieved' /\ OutIsFinished'
    BY <2>1 DEF ProtocolInv, RanIsAchieved, OutIsFinished
  <2>5. LeaderDecides' /\ LeaderFirst' /\ OneStarts'
    BY <2>1 DEF ProtocolInv, LeaderDecides, LeaderFirst, OneStarts, Starting
  <2>. QED
    BY <2>3, <2>4, <2>5 DEF ProtocolInv
<1>5. CASE ForwardEof(v)
  <2>1. UNCHANGED <<ran, fanout, pc>> /\ post' = {}
    BY <1>5 DEF ForwardEof, ClearLeader
  <2>2. state[Leader] = ACHIEVED /\ \A x \in Workers : state[x] >= ACHIEVED
    BY <1>5, <1>o DEF ForwardEof
  <2>3. state' = [state EXCEPT ![Leader] = FINISH_ENABLED]
    BY <1>5 DEF ForwardEof
  <2>4. state'[Leader] = FINISH_ENABLED /\ \A x \in Workers : state'[x] >= ACHIEVED
    BY <1>p, <2>2, <2>3 DEF ACHIEVED, FINISH_ENABLED
  <2>5. RanIsAchieved'
    BY <1>r, <2>1, <2>2, <2>4 DEF RanIsAchieved
  <2>6. OutIsFinished'
    <3>1. Len(out) = 0
      BY <2>2 DEF ProtocolInv, OutIsFinished, ACHIEVED, FINISH_ENABLED
    <3>2. out' = Append(out, Tally(totalSent')) /\ out \in Seq(Nat)
      BY <1>5, <1>p DEF ForwardEof
    <3>3. Len(out') = 1
      BY ONLY <3>1, <3>2
    <3>. QED
      BY <2>4, <3>3 DEF OutIsFinished
  <2>7. PostIsAchieved'
    BY <2>1, <2>4 DEF PostIsAchieved
  <2>8. LeaderDecides' /\ LeaderFirst'
    BY <1>p, <2>1, <2>4 DEF ProtocolInv, LeaderDecides, LeaderFirst
  <2>9. OneStarts'
    <3>1. Starting = {}
      BY <1>s, <2>2 DEF ACHIEVED, PENDING_EOF
    <3>. QED
      BY <2>1, <3>1 DEF OneStarts, Starting
  <2>. QED
    BY <2>5, <2>6, <2>7, <2>8, <2>9 DEF ProtocolInv
<1>. QED
  BY <1>1, <1>2, <1>3, <1>4, <1>5 DEF WorkerMessage

\* A redelivery invents no message.
LEMMA RedeliverElements ==
  ASSUME TypeOK, Redeliver
  PROVE  /\ \A x \in Workers : \A i \in DOMAIN toLeader'[x] :
              \E j \in DOMAIN toLeader[x] : toLeader'[x][i] = toLeader[x][j]
         /\ \A x, y \in Workers : \A i \in DOMAIN fanout'[x][y] :
              \E j \in DOMAIN fanout[x][y] : fanout'[x][y][i] = fanout[x][y][j]
<1>3. /\ toLeader \in [Workers -> Seq(LeaderMessage)]
      /\ fanout \in [Workers -> [Workers -> Seq(Message)]]
  BY DEF TypeOK
<1>4. ASSUME NEW x \in Workers, NEW i \in DOMAIN toLeader'[x]
      PROVE  \E j \in DOMAIN toLeader[x] : toLeader'[x][i] = toLeader[x][j]
  <2>1. CASE UNCHANGED toLeader
    BY <2>1
  <2>2. ASSUME NEW v \in Workers, NEW k \in DOMAIN toLeader[v],
               toLeader' = [toLeader EXCEPT ![v] = Again(toLeader[v], k)]
        PROVE  \E j \in DOMAIN toLeader[x] : toLeader'[x][i] = toLeader[x][j]
    <3>1. toLeader[v] \in Seq(LeaderMessage)
      BY <1>3
    <3>2. \A l \in DOMAIN Again(toLeader[v], k) :
            \E j \in DOMAIN toLeader[v] : Again(toLeader[v], k)[l] = toLeader[v][j]
      BY <3>1, AgainElements
    <3>3. toLeader'[x] = toLeader[x] \/ (x = v /\ toLeader'[x] = Again(toLeader[v], k))
      BY <1>3, <2>2
    <3>. QED
      BY <3>2, <3>3
  <2>. QED
    BY <2>1, <2>2 DEF Redeliver
<1>5. ASSUME NEW x \in Workers, NEW y \in Workers, NEW i \in DOMAIN fanout'[x][y]
      PROVE  \E j \in DOMAIN fanout[x][y] : fanout'[x][y][i] = fanout[x][y][j]
  <2>1. CASE UNCHANGED fanout
    BY <2>1
  <2>2. ASSUME NEW v \in Workers, NEW w \in Workers, NEW k \in DOMAIN fanout[v][w],
               fanout' = [fanout EXCEPT ![v][w] = Again(fanout[v][w], k)]
        PROVE  \E j \in DOMAIN fanout[x][y] : fanout'[x][y][i] = fanout[x][y][j]
    <3>1. fanout[v][w] \in Seq(Message)
      BY <1>3
    <3>2. \A l \in DOMAIN Again(fanout[v][w], k) :
            \E j \in DOMAIN fanout[v][w] : Again(fanout[v][w], k)[l] = fanout[v][w][j]
      BY <3>1, AgainElements
    <3>3. \/ fanout'[x][y] = fanout[x][y]
          \/ x = v /\ y = w /\ fanout'[x][y] = Again(fanout[v][w], k)
      BY <1>3, <2>2
    <3>. QED
      BY <3>2, <3>3
  <2>. QED
    BY <2>1, <2>2 DEF Redeliver
<1>. QED
  BY <1>4, <1>5

LEMMA RedeliverSafe ==
  ASSUME ProtocolInv, TypeOK', Redeliver
  PROVE  ProtocolInv'
<1>1. UNCHANGED <<ran, out, post, state, pc>>
  BY DEF Redeliver, leaderVars, sendVars
<1>2. OneStarts'
  BY <1>1 DEF ProtocolInv, OneStarts, Starting
<1>3. /\ \A x \in Workers : \A i \in DOMAIN toLeader'[x] :
           \E j \in DOMAIN toLeader[x] : toLeader'[x][i] = toLeader[x][j]
      /\ \A x, y \in Workers : \A i \in DOMAIN fanout'[x][y] :
           \E j \in DOMAIN fanout[x][y] : fanout'[x][y][i] = fanout[x][y][j]
  BY RedeliverElements DEF ProtocolInv
<1>. QED
  BY <1>1, <1>2, <1>3, QuietStep

LEMMA InitSafe == Init => ProtocolInv
<1>. SUFFICES ASSUME Init PROVE ProtocolInv
  OBVIOUS
<1>1. TypeOK
  BY InitType
<1>2. RanIsAchieved /\ OutIsFinished
  BY WorkersFinite DEF Init, RanIsAchieved, OutIsFinished, INACTIVE, ACHIEVED, FINISH_ENABLED
<1>3. PostIsAchieved
  BY WorkersFinite DEF Init, PostIsAchieved, INACTIVE, FINISH_ENABLED
<1>4. LeaderDecides /\ LeaderFirst
  BY WorkersFinite DEF Init, LeaderDecides, LeaderFirst, INACTIVE, ACHIEVED
<1>5. OneStarts
  BY WorkersFinite DEF Init, OneStarts, Starting
<1>. QED
  BY <1>1, <1>2, <1>3, <1>4, <1>5 DEF ProtocolInv

LEMMA NextSafe == ProtocolInv /\ [Next]_vars => ProtocolInv'
<1>. SUFFICES ASSUME ProtocolInv, [Next]_vars PROVE ProtocolInv'
  OBVIOUS
<1>t. TypeOK'
  BY NextType DEF ProtocolInv
<1>1. CASE UNCHANGED vars
  <2>1. UNCHANGED <<ran, out, post, state, pc, toLeader, fanout>>
    BY <1>1 DEF vars, leaderVars, netVars, sendVars
  <2>. QED
    BY <1>t, <2>1 DEF ProtocolInv, RanIsAchieved, OutIsFinished, PostIsAchieved, LeaderDecides,
                      LeaderFirst, OneStarts, Starting
<1>2. CASE Done
  BY <1>1, <1>2 DEF Done
<1>. QED
  BY <1>t, <1>1, <1>2, InputThreadSafe, RegistrationSafe, FinishAloneSafe, LeaderThreadSafe,
     FanoutMessageSafe, WorkerMessageSafe, RedeliverSafe DEF Next

-----------------------------------------------------------------------------
\* The protocol's invariant holds in every execution.
THEOREM ProtocolSafe == Spec => []ProtocolInv
BY InitSafe, NextSafe, PTL DEF Spec

\* One EOF per client leaves the stage, after all the workers have run their
\* callback, and none runs it twice, for any number of workers, packets and
\* redelivered control messages.
THEOREM ExactlyOnceHolds == Spec => []ExactlyOnce
<1>1. ProtocolInv => ExactlyOnce
  <2>. SUFFICES ASSUME ProtocolInv PROVE ExactlyOnce
    OBVIOUS
  <2>1. Len(out) <= 1 /\ \A w \in Workers : ran[w] <= 1
    BY DEF ProtocolInv, RanIsAchieved, OutIsFinished
  <2>2. ASSUME out # <<>> PROVE \A w \in Workers : ran[w] = 1
    <3>1. Len(out) # 0
      BY <2>2, EmptySeq DEF ProtocolInv, TypeOK
    <3>2. \A w \in Workers : state[w] >= ACHIEVED
      BY <3>1 DEF ProtocolInv, OutIsFinished, PostIsAchieved
    <3>. QED
      BY <3>2 DEF ProtocolInv, RanIsAchieved
  <2>. QED
    BY <2>1, <2>2 DEF ExactlyOnce
<1>. QED
  BY <1>1, ProtocolSafe, PTL

-----------------------------------------------------------------------------
(***************************************************************************)
(* Counters grow until the worker runs its callback, so a copy of them,    *)
(* however old and however often delivered, is below them.                 *)
(***************************************************************************)
CountsInv == ProtocolInv /\ NeverOverreported

LEMMA CounterOrder ==
  /\ \A c \in Count : c <= PlusOne(c) /\ Absent <= c
  /\ \A c \in [Fluxes -> Count], f \in Fluxes : \A fs : c[f] <= WithKeys(c, fs)[f]
  /\ \A c, d, top \in [Fluxes -> Count] :
       (\A f \in Fluxes : c[f] <= top[f] /\ d[f] <= top[f]) =>
         \A f \in Fluxes : Overwrite(c, d)[f] <= top[f]
<1>1. \A c \in Count : c <= PlusOne(c) /\ Absent <= c
  BY DEF Count, Absent, PlusOne
<1>2. \A c \in [Fluxes -> Count], f \in Fluxes : \A fs : c[f] <= WithKeys(c, fs)[f]
  BY DEF Count, Absent, WithKeys
<1>3. \A c, d, top \in [Fluxes -> Count] :
        (\A f \in Fluxes : c[f] <= top[f] /\ d[f] <= top[f]) =>
          \A f \in Fluxes : Overwrite(c, d)[f] <= top[f]
  BY DEF Overwrite
<1>. QED
  BY <1>1, <1>2, <1>3

\* A step keeps the copies below when the counters of the workers that have not
\* run their callback do not shrink and every new answer is a copy of them.
LEMMA CopiesBelow ==
  ASSUME CountsInv, TypeOK',
         \A w \in Workers : ran'[w] = 0 => ran[w] = 0,
         \A w \in Workers, f \in Fluxes : ran'[w] = 0 =>
           processed[w][f] <= processed'[w][f] /\ partials'[w][f] <= processed'[w][f],
         \A w \in Workers : \A i \in DOMAIN toLeader'[w] :
           \/ \E j \in DOMAIN toLeader[w] : toLeader'[w][i] = toLeader[w][j]
           \/ toLeader'[w][i].type # "RESPONSE"
           \/ toLeader'[w][i].counts = processed'[w]
  PROVE  NeverOverreported'
<1>. SUFFICES ASSUME NEW w \in Workers, NEW f \in Fluxes, ran'[w] = 0,
                     NEW i \in DOMAIN toLeader'[w], toLeader'[w][i].type = "RESPONSE"
              PROVE  toLeader'[w][i].counts[f] <= processed'[w][f]
  BY DEF NeverOverreported
<1>t. processed[w][f] \in Int /\ processed'[w][f] \in Int
  BY DEF CountsInv, ProtocolInv, TypeOK, Count, Absent
<1>1. processed[w][f] <= processed'[w][f] /\ processed'[w][f] <= processed'[w][f]
  BY <1>t
<1>2. CASE toLeader'[w][i].counts = processed'[w]
  BY <1>1, <1>2
<1>3. ASSUME NEW j \in DOMAIN toLeader[w], toLeader'[w][i] = toLeader[w][j]
      PROVE  toLeader'[w][i].counts[f] <= processed'[w][f]
  <2>1. toLeader[w][j].counts[f] <= processed[w][f]
    BY <1>3 DEF CountsInv, NeverOverreported
  <2>2. toLeader[w][j] \in LeaderMessage
    <3>1. toLeader[w] \in Seq(LeaderMessage)
      BY DEF CountsInv, ProtocolInv, TypeOK
    <3>2. j \in 1 .. Len(toLeader[w])
      BY <3>1, LenProperties
    <3>. QED
      BY <3>1, <3>2, ElementOfSeq
  <2>3. toLeader[w][j].counts[f] \in Int
    BY <1>3, <2>2, MessageFields DEF Count, Absent
  <2>. QED
    BY <1>t, <1>1, <1>3, <2>1, <2>3
<1>. QED
  BY <1>2, <1>3

\* What is left alone stays below.
LEMMA PartialsBelow ==
  ASSUME CountsInv, TypeOK', UNCHANGED partials,
         \A w \in Workers : ran'[w] = 0 => ran[w] = 0,
         \A w \in Workers, f \in Fluxes : ran'[w] = 0 => processed[w][f] <= processed'[w][f]
  PROVE  \A w \in Workers, f \in Fluxes : ran'[w] = 0 => partials'[w][f] <= processed'[w][f]
<1>. SUFFICES ASSUME NEW w \in Workers, NEW f \in Fluxes, ran'[w] = 0
              PROVE  partials'[w][f] <= processed'[w][f]
  OBVIOUS
<1>1. partials[w][f] \in Int /\ processed[w][f] \in Int /\ processed'[w][f] \in Int
  BY DEF CountsInv, ProtocolInv, TypeOK, Count, Absent
<1>2. partials[w][f] <= processed[w][f] /\ processed[w][f] <= processed'[w][f]
  BY DEF CountsInv, NeverOverreported
<1>3. partials' = partials
  OBVIOUS
<1>. QED
  BY ONLY <1>1, <1>2, <1>3

\* With the answer of v, the leader's copies are still below.
LEMMA ResponseBelow ==
  ASSUME CountsInv, NEW v \in Workers, Response(v)
  PROVE  \A w \in Workers, f \in Fluxes : ran[w] = 0 =>
           WithResponse(v)[w][f] <= processed[w][f]
<1>. SUFFICES ASSUME NEW w \in Workers, ran[w] = 0
              PROVE  \A f \in Fluxes : WithResponse(v)[w][f] <= processed[w][f]
  OBVIOUS
<1>t. /\ partials \in [Workers -> [Fluxes -> Count]]
      /\ processed \in [Workers -> [Fluxes -> Count]]
      /\ toLeader[v] \in Seq(LeaderMessage) /\ toLeader[v] # <<>>
      /\ Head(toLeader[v]).type = "RESPONSE"
  BY DEF CountsInv, ProtocolInv, TypeOK, Response, FromWorker
<1>h. 1 \in DOMAIN toLeader[v] /\ Head(toLeader[v]) = toLeader[v][1]
      /\ Head(toLeader[v]) \in LeaderMessage
  BY <1>t, HeadElement, HeadTailProperties
<1>c. Head(toLeader[v]).counts \in [Fluxes -> Count]
  BY <1>t, <1>h, MessageFields
<1>b. \A f \in Fluxes : partials[w][f] <= processed[w][f]
  BY DEF CountsInv, NeverOverreported
<1>1. CASE w # v
  <2>1. WithResponse(v)[w] = partials[w]
    BY <1>1, <1>t DEF WithResponse
  <2>. QED
    BY <1>b, <2>1
<1>2. CASE w = v
  <2>1. \A f \in Fluxes : Head(toLeader[v]).counts[f] <= processed[w][f]
    BY <1>2, <1>t, <1>h DEF CountsInv, NeverOverreported
  <2>2. WithResponse(v)[w] = Overwrite(partials[w], Head(toLeader[v]).counts)
    BY <1>2, <1>t DEF WithResponse
  <2>. QED
    BY <1>t, <1>c, <1>b, <2>1, <2>2, CounterOrder
<1>. QED
  BY <1>1, <1>2

\* A callback is added to those that were run, never taken away.
LEMMA RunCallbackRan ==
  ASSUME TypeOK, NEW w \in Workers, NEW k, RunCallback(w, k)
  PROVE  ran'[w] # 0 /\ \A x \in Workers : ran'[x] = 0 => x # w /\ ran[x] = 0
BY DEF TypeOK, RunCallback

LEMMA InputThreadBelow ==
  ASSUME CountsInv, TypeOK', NEW w \in Workers, NEW f \in Fluxes, InputThread(w, f)
  PROVE  NeverOverreported'
<1>. USE DEF inputVars, countVars, leaderVars, netVars, sendVars
<1>t. processed \in [Workers -> [Fluxes -> Count]]
  BY DEF CountsInv, ProtocolInv, TypeOK
<1>1. UNCHANGED <<ran, partials, toLeader>>
  BY DEF InputThread, ReceivePacket, CountPacket, AdmitEof, DiscardEof, AddPrefix, Broadcast
<1>2. \A x \in Workers, g \in Fluxes : processed[x][g] <= processed'[x][g]
  <2>1. CASE CountPacket(w, f)
    <3>1. processed' = [processed EXCEPT ![w][f] = PlusOne(@)]
      BY <2>1 DEF CountPacket
    <3>2. \A x \in Workers, g \in Fluxes :
            processed'[x][g] = processed[x][g] \/ processed'[x][g] = PlusOne(processed[x][g])
      BY <1>t, <3>1
    <3>3. \A x \in Workers, g \in Fluxes : processed[x][g] \in Count
      BY <1>t
    <3>. QED
      BY <3>2, <3>3, CounterOrder DEF Count, Absent
  <2>2. CASE UNCHANGED processed
    BY <1>t, <2>2 DEF Count, Absent
  <2>. QED
    BY <2>1, <2>2 DEF InputThread, ReceivePacket, AdmitEof, DiscardEof, AddPrefix, Broadcast
<1>. QED
  BY <1>1, <1>2, PartialsBelow, CopiesBelow

LEMMA RegistrationBelow ==
  ASSUME CountsInv, TypeOK', NEW w \in Workers, NEW t \in Threads, Registration(w, t)
  PROVE  NeverOverreported'
<1>. USE DEF inputVars, countVars, leaderVars, netVars, sendVars
<1>t. processed \in [Workers -> [Fluxes -> Count]]
  BY DEF CountsInv, ProtocolInv, TypeOK
<1>1. UNCHANGED <<ran, partials, toLeader>>
  BY DEF Registration, AddCounter, AddTotal, CheckEofs
<1>2. \A x \in Workers, g \in Fluxes : processed[x][g] <= processed'[x][g]
  <2>1. CASE AddCounter(w, t)
    <3>1. processed' = [processed EXCEPT ![w] = WithKeys(processed[w], {EofOf(w, t)})]
      BY <2>1 DEF AddCounter
    <3>2. \A x \in Workers, g \in Fluxes :
            \/ processed'[x][g] = processed[x][g]
            \/ processed'[x][g] = WithKeys(processed[x], {EofOf(w, t)})[g]
      BY <1>t, <3>1
    <3>3. \A x \in Workers, g \in Fluxes : processed[x][g] <= processed[x][g]
      BY <1>t DEF Count, Absent
    <3>. QED
      BY <1>t, <3>2, <3>3, CounterOrder
  <2>2. CASE UNCHANGED processed
    BY <1>t, <2>2 DEF Count, Absent
  <2>. QED
    BY <2>1, <2>2 DEF Registration, AddTotal, CheckEofs
<1>. QED
  BY <1>1, <1>2, PartialsBelow, CopiesBelow

LEMMA LeaderThreadBelow ==
  ASSUME CountsInv, TypeOK', NEW t \in Threads, LeaderThread(t)
  PROVE  NeverOverreported'
<1>. USE DEF inputVars, countVars, leaderVars, netVars, sendVars
<1>t. /\ processed \in [Workers -> [Fluxes -> Count]]
      /\ partials \in [Workers -> [Fluxes -> Count]] /\ Leader \in Workers
  BY WorkersFinite DEF CountsInv, ProtocolInv, TypeOK
<1>1. UNCHANGED <<ran, processed, toLeader>>
  BY DEF LeaderThread, SendRequest, MarkRequestSent
<1>2. \A x \in Workers, g \in Fluxes : processed[x][g] <= processed'[x][g]
  BY <1>t, <1>1 DEF Count, Absent
<1>3. \A x \in Workers, g \in Fluxes : ran'[x] = 0 => partials'[x][g] <= processed'[x][g]
  <2>1. CASE SendRequest(t)
    <3>. SUFFICES ASSUME NEW x \in Workers, ran[x] = 0
                  PROVE  \A g \in Fluxes : partials'[x][g] <= processed[x][g]
      BY <1>1
    <3>1. \A g \in Fluxes : partials[x][g] <= processed[x][g]
      BY DEF CountsInv, NeverOverreported
    <3>2. \/ partials'[x] = partials[x]
          \/ partials'[x] = Overwrite(partials[x], processed[x])
      BY <1>t, <2>1 DEF SendRequest
    <3>3. \A g \in Fluxes : processed[x][g] <= processed[x][g]
      BY <1>1, <1>2
    <3>4. partials[x] \in [Fluxes -> Count] /\ processed[x] \in [Fluxes -> Count]
      BY <1>t
    <3>. QED
      BY <3>1, <3>2, <3>3, <3>4, CounterOrder
  <2>2. CASE MarkRequestSent(t)
    <3>1. UNCHANGED partials
      BY <2>2 DEF MarkRequestSent
    <3>. QED
      BY <1>1, <1>2, <3>1, PartialsBelow
  <2>. QED
    BY <2>1, <2>2 DEF LeaderThread
<1>. QED
  BY <1>1, <1>2, <1>3, CopiesBelow

LEMMA FinishAloneBelow ==
  ASSUME CountsInv, TypeOK', NEW f \in Fluxes, FinishAlone(f)
  PROVE  NeverOverreported'
<1>1. \A w \in Workers : w = Leader
  BY DEF FinishAlone, Workers, Leader
<1>2. ran'[Leader] # 0
  BY WorkersFinite, RunCallbackRan DEF FinishAlone, CountsInv, ProtocolInv
<1>. QED
  BY <1>1, <1>2 DEF NeverOverreported

LEMMA FanoutMessageBelow ==
  ASSUME CountsInv, TypeOK', NEW v \in Workers, NEW w \in Workers, FanoutMessage(v, w)
  PROVE  NeverOverreported'
<1>. USE DEF inputVars, countVars, leaderVars, netVars, sendVars
<1>t. /\ processed \in [Workers -> [Fluxes -> Count]]
      /\ toLeader \in [Workers -> Seq(LeaderMessage)]
      /\ TypeOK
  BY DEF CountsInv, ProtocolInv, TypeOK
<1>r. \A x \in Workers, g \in Fluxes : processed[x][g] <= processed[x][g]
  BY <1>t DEF Count, Absent
<1>1. CASE HandleRequest(v, w)
  <2>1. UNCHANGED <<ran, partials>>
    BY <1>1 DEF HandleRequest
  <2>2. \A x \in Workers, g \in Fluxes : processed[x][g] <= processed'[x][g]
    <3>. DEFINE fs == Head(fanout[v][w]).awaited
    <3>1. processed' = [processed EXCEPT ![w] = WithKeys(processed[w], fs)]
      BY <1>1 DEF HandleRequest
    <3>. HIDE DEF fs
    <3>2. \A x \in Workers, g \in Fluxes :
            processed'[x][g] = processed[x][g] \/ processed'[x][g] = WithKeys(processed[x], fs)[g]
      BY <1>t, <3>1
    <3>3. \A x \in Workers, g \in Fluxes : processed[x][g] <= WithKeys(processed[x], fs)[g]
      BY <1>t, CounterOrder
    <3>. QED
      BY <1>r, <3>2, <3>3
  <2>3. ASSUME NEW x \in Workers, NEW i \in DOMAIN toLeader'[x]
        PROVE  \/ \E j \in DOMAIN toLeader[x] : toLeader'[x][i] = toLeader[x][j]
               \/ toLeader'[x][i].counts = processed'[x]
    <3>. DEFINE m == [type |-> "RESPONSE", counts |-> processed'[w]]
    <3>1. processed'[w] \in [Fluxes -> Count]
      BY DEF TypeOK
    <3>2. m \in LeaderMessage /\ m.counts = processed'[w]
      BY <3>1, MessageType
    <3>3. toLeader' = [toLeader EXCEPT ![w] = Append(@, m)]
      BY <1>1 DEF HandleRequest
    <3>. HIDE DEF m
    <3>4. \/ \E j \in DOMAIN toLeader[x] : toLeader'[x][i] = toLeader[x][j]
          \/ x = w /\ toLeader'[x][i] = m
      BY <1>t, <3>2, <3>3, AnswerElements
    <3>. QED
      BY <3>2, <3>4
  <2>. QED
    BY <2>1, <2>2, <2>3, PartialsBelow, CopiesBelow
<1>2. CASE HandleOk(v, w)
  <2>1. PICK k \in CallbackOutputs :
          /\ RunCallback(w, k)
          /\ toLeader' = [toLeader EXCEPT ![w] =
               Append(@, [type |-> "POST_OK", sent |-> sent[w] + k])]
    BY <1>2 DEF HandleOk
  <2>2. UNCHANGED partials /\ processed' = [processed EXCEPT ![w] = NoCounts]
    BY <1>2 DEF HandleOk, ClearCounts
  <2>3. \A x \in Workers : ran'[x] = 0 => x # w /\ ran[x] = 0
    BY <1>t, <2>1, RunCallbackRan
  <2>4. \A x \in Workers, g \in Fluxes : ran'[x] = 0 => processed[x][g] <= processed'[x][g]
    BY <1>t, <1>r, <2>2, <2>3
  <2>5. ASSUME NEW x \in Workers, NEW i \in DOMAIN toLeader'[x]
        PROVE  \/ \E j \in DOMAIN toLeader[x] : toLeader'[x][i] = toLeader[x][j]
               \/ toLeader'[x][i].type # "RESPONSE"
    <3>. DEFINE m == [type |-> "POST_OK", sent |-> sent[w] + k]
    <3>1. m \in LeaderMessage /\ m.type # "RESPONSE"
      <4>1. sent[w] \in Nat /\ k \in Nat
        BY <1>t, ConsensusAssumption DEF TypeOK
      <4>. QED
        BY <4>1, MessageType
    <3>2. toLeader' = [toLeader EXCEPT ![w] = Append(@, m)]
      BY <2>1
    <3>. HIDE DEF m
    <3>3. \/ \E j \in DOMAIN toLeader[x] : toLeader'[x][i] = toLeader[x][j]
          \/ x = w /\ toLeader'[x][i] = m
      BY <1>t, <3>1, <3>2, AnswerElements
    <3>. QED
      BY <3>1, <3>3
  <2>6. \A x \in Workers : ran'[x] = 0 => ran[x] = 0
    BY <2>3
  <2>7. \A x \in Workers, g \in Fluxes : ran'[x] = 0 => partials'[x][g] <= processed'[x][g]
    BY <2>2, <2>4, <2>6, PartialsBelow
  <2>. QED
    BY <2>4, <2>5, <2>6, <2>7, CopiesBelow
<1>3. CASE UNCHANGED <<ran, partials, processed, toLeader>>
  BY <1>r, <1>3, PartialsBelow, CopiesBelow
<1>. QED
  BY <1>1, <1>2, <1>3 DEF FanoutMessage, HandleEofMessage, HandleFail, IgnoreFanout

LEMMA WorkerMessageBelow ==
  ASSUME CountsInv, TypeOK', NEW v \in Workers, WorkerMessage(v)
  PROVE  NeverOverreported'
<1>. USE DEF inputVars, countVars, leaderVars, netVars, sendVars
<1>t. /\ processed \in [Workers -> [Fluxes -> Count]]
      /\ toLeader \in [Workers -> Seq(LeaderMessage)]
      /\ TypeOK /\ Leader \in Workers
  BY WorkersFinite DEF CountsInv, ProtocolInv, TypeOK
<1>r. \A x \in Workers, g \in Fluxes : processed[x][g] <= processed[x][g]
  BY <1>t DEF Count, Absent
<1>c. toLeader[v] # <<>> /\ ConsumeWorker(v)
  BY DEF WorkerMessage, Accumulate, Agree, Disagree, CollectPostOk, ForwardEof, IgnoreWorker,
         Response, PostOk, FromWorker
<1>e. ASSUME NEW x \in Workers, NEW i \in DOMAIN toLeader'[x]
      PROVE  \E j \in DOMAIN toLeader[x] : toLeader'[x][i] = toLeader[x][j]
  BY <1>t, <1>c, ConsumeWorkerElements
<1>1. ASSUME Accumulate(v) \/ Agree(v) PROVE NeverOverreported'
  <2>1. Response(v) /\ partials' = WithResponse(v) /\ UNCHANGED processed
    BY <1>1 DEF Accumulate, Agree
  <2>2. \A x \in Workers : ran'[x] = 0 => ran[x] = 0
    BY <1>1, <1>t, RunCallbackRan DEF Accumulate, Agree
  <2>3. \A x \in Workers, g \in Fluxes : ran[x] = 0 => WithResponse(v)[x][g] <= processed[x][g]
    BY <2>1, ResponseBelow
  <2>. QED
    BY <1>r, <1>e, <2>1, <2>2, <2>3, CopiesBelow
<1>2. ASSUME Disagree(v) \/ ForwardEof(v) PROVE NeverOverreported'
  <2>1. partials' = [x \in Workers |-> NoCounts] /\ UNCHANGED ran
    BY <1>2 DEF Disagree, ForwardEof, ClearLeader
  <2>2. \A x \in Workers : ran'[x] = 0 => processed'[x] = processed[x]
    <3>1. CASE Disagree(v)
      BY <3>1 DEF Disagree
    <3>2. CASE ForwardEof(v)
      <4>1. state[Leader] = ACHIEVED
        BY <3>2, <1>t, LeaderWaits DEF ForwardEof, PostOk, TypeOK
      <4>2. ran[Leader] # 0
        BY <1>t, <4>1 DEF CountsInv, ProtocolInv, RanIsAchieved, ACHIEVED
      <4>3. processed' = [processed EXCEPT ![Leader] = NoCounts]
        BY <3>2 DEF ForwardEof, ClearCounts
      <4>. QED
        BY <1>t, <2>1, <4>2, <4>3
    <3>. QED
      BY <1>2, <3>1, <3>2
  <2>3. \A x \in Workers, g \in Fluxes : Absent <= processed'[x][g]
    <3>1. \A x \in Workers, g \in Fluxes : processed'[x][g] \in Count
      BY DEF TypeOK
    <3>. QED
      BY <3>1, CounterOrder
  <2>4. \A x \in Workers, g \in Fluxes : partials'[x][g] = Absent
    BY <2>1 DEF NoCounts
  <2>. QED
    BY <1>r, <1>e, <2>1, <2>2, <2>3, <2>4, CopiesBelow
<1>3. CASE UNCHANGED <<ran, partials, processed>>
  BY <1>r, <1>e, <1>3, PartialsBelow, CopiesBelow
<1>. QED
  BY <1>1, <1>2, <1>3 DEF WorkerMessage, CollectPostOk, IgnoreWorker

LEMMA InitBelow == Init => NeverOverreported
<1>. SUFFICES ASSUME Init PROVE NeverOverreported
  OBVIOUS
<1>1. \A w \in Workers : \A i \in DOMAIN toLeader[w] : FALSE
  BY DEF Init
<1>2. partials = processed
  BY DEF Init
<1>3. \A w \in Workers, f \in Fluxes : processed[w][f] <= processed[w][f]
  BY DEF Init, NoCounts, Absent
<1>. QED
  BY <1>1, <1>2, <1>3 DEF NeverOverreported

LEMMA NextBelow == CountsInv /\ [Next]_vars => NeverOverreported'
<1>. SUFFICES ASSUME CountsInv, [Next]_vars PROVE NeverOverreported'
  OBVIOUS
<1>t. TypeOK'
  BY NextType DEF CountsInv, ProtocolInv
<1>1. CASE UNCHANGED vars
  BY <1>1 DEF vars, countVars, leaderVars, netVars, sendVars, CountsInv, NeverOverreported
<1>2. CASE Done
  BY <1>1, <1>2 DEF Done
<1>3. CASE Redeliver
  <2>1. UNCHANGED <<ran, partials, processed>>
    BY <1>3 DEF Redeliver, countVars, leaderVars, sendVars
  <2>2. \A x \in Workers : \A i \in DOMAIN toLeader'[x] :
          \E j \in DOMAIN toLeader[x] : toLeader'[x][i] = toLeader[x][j]
    BY <1>3, RedeliverElements DEF CountsInv, ProtocolInv
  <2>3. \A x \in Workers, g \in Fluxes : processed[x][g] <= processed'[x][g]
    <3>1. \A x \in Workers, g \in Fluxes : processed[x][g] \in Int
      BY DEF CountsInv, ProtocolInv, TypeOK, Count, Absent
    <3>. QED
      BY <2>1, <3>1
  <2>. QED
    BY <1>t, <2>1, <2>2, <2>3, PartialsBelow, CopiesBelow
<1>. QED
  BY <1>t, <1>1, <1>2, <1>3, InputThreadBelow, RegistrationBelow, FinishAloneBelow,
     LeaderThreadBelow, FanoutMessageBelow, WorkerMessageBelow DEF Next

\* What the leader holds, or is about to receive, about the counters of a worker
\* never exceeds what the worker has processed, for any number of workers,
\* fluxes, rounds of the consensus and redelivered messages.
THEOREM NeverOverreportedHolds == Spec => []NeverOverreported
<1>1. Init => CountsInv
  BY InitSafe, InitBelow DEF CountsInv
<1>2. CountsInv /\ [Next]_vars => CountsInv'
  BY NextSafe, NextBelow DEF CountsInv
<1>3. CountsInv => NeverOverreported
  BY DEF CountsInv
<1>. QED
  BY <1>1, <1>2, <1>3, PTL DEF Spec

-----------------------------------------------------------------------------
(***************************************************************************)
(* Packets: each is in a queue, in a thread or in a counter, until the     *)
(* counters are cleared.                                                   *)
(***************************************************************************)
Counted == [x \in Workers \X Fluxes |-> processed[x[1]][x[2]]]
Handled == Tally(Counted)

Conservation == (\A w \in Workers : ran[w] = 0) => Pending + Handled = Packets

LEMMA PlacesFinite ==
  IsFiniteSet(Workers \X Fluxes) /\ IsFiniteSet(DataQueues)
<1>. DEFINE queueOf == [x \in Workers \X Fluxes |-> DataQueue(x[1], x[2])]
<1>1. IsFiniteSet(Workers \X Fluxes)
  BY WorkersFinite, ConsensusAssumption, FS_Product
<1>2. queueOf \in [Workers \X Fluxes -> DataQueues]
  BY DEF DataQueues
<1>3. ASSUME NEW q \in DataQueues PROVE \E x \in Workers \X Fluxes : queueOf[x] = q
  <2>1. PICK w \in Workers, f \in Fluxes : q = DataQueue(w, f)
    BY DEF DataQueues
  <2>2. <<w, f>> \in Workers \X Fluxes /\ queueOf[<<w, f>>] = q
    BY <2>1
  <2>. QED
    BY <2>2
<1>. HIDE DEF queueOf
<1>4. queueOf \in Surjection(Workers \X Fluxes, DataQueues)
  BY <1>2, <1>3 DEF Surjection
<1>. QED
  BY <1>1, <1>4, FS_Surjection

LEMMA PendingType ==
  ASSUME TypeOK
  PROVE  /\ data \in [DataQueues -> Int] /\ Tally(data) \in Nat
         /\ IsFiniteSet(InFlight) /\ Cardinality(InFlight) \in Nat
         /\ Pending \in Nat
         /\ Counted \in [Workers \X Fluxes -> Int] /\ Handled \in Nat
<1>1. data \in [DataQueues -> Int] /\ Tally(data) \in Nat
  BY PlacesFinite, TallyNat DEF TypeOK
<1>2. IsFiniteSet(InFlight) /\ Cardinality(InFlight) \in Nat
  <2>1. InFlight \in SUBSET (Workers \X Fluxes)
    BY DEF InFlight
  <2>. QED
    BY <2>1, PlacesFinite, FS_Subset, FS_CardinalityType
<1>3. Counted \in [Workers \X Fluxes -> Int]
  BY DEF TypeOK, Counted, Count, Absent
<1>. QED
  BY <1>1, <1>2, <1>3, PlacesFinite, TallyNat DEF Pending, Handled

LEMMA PendingTypeNext ==
  ASSUME TypeOK'
  PROVE  /\ Tally(data') \in Nat /\ Pending' \in Nat
         /\ Counted' \in [Workers \X Fluxes -> Int] /\ Handled' \in Nat
<1>1. data' \in [DataQueues -> Int] /\ Tally(data') \in Nat
  BY PlacesFinite, TallyNat DEF TypeOK
<1>2. Cardinality(InFlight') \in Nat
  <2>1. InFlight' \in SUBSET (Workers \X Fluxes)
    BY DEF InFlight
  <2>. QED
    BY <2>1, PlacesFinite, FS_Subset, FS_CardinalityType
<1>3. Counted' \in [Workers \X Fluxes -> Int]
  BY DEF TypeOK, Counted, Count, Absent
<1>. QED
  BY <1>1, <1>2, <1>3, PlacesFinite, TallyNat DEF Pending, Handled

\* A received packet goes from its queue to a thread.
LEMMA ReceivePending ==
  ASSUME TypeOK, TypeOK', NEW w \in Workers, NEW f \in Fluxes, ReceivePacket(w, f)
  PROVE  Pending' = Pending /\ Pending > 0
<1>f. f \in Threads /\ pc \in [Workers -> [Threads -> PC]]
  BY DEF TypeOK, Threads
<1>1. Tally(data') = Tally(data) - 1
  <2>1. /\ DataQueue(w, f) \in DataQueues /\ data[DataQueue(w, f)] > 0
        /\ data' = [data EXCEPT ![DataQueue(w, f)] = @ - 1]
    BY DEF DataQueues, ReceivePacket
  <2>. QED
    BY <2>1, PlacesFinite, PendingType, TallyDecrement
<1>2. pc[w][f] = "idle" /\ pc' = [pc EXCEPT ![w][f] = "packet"]
  BY DEF ReceivePacket
<1>3. <<w, f>> \notin InFlight /\ InFlight' = InFlight \cup {<<w, f>>}
  BY <1>f, <1>2 DEF InFlight
<1>4. Cardinality(InFlight') = Cardinality(InFlight) + 1
  BY <1>3, PendingType, FS_AddElement
<1>. QED
  BY <1>1, <1>4, PendingType, PendingTypeNext DEF Pending

\* A counted packet goes from its thread to a counter.
LEMMA CountPending ==
  ASSUME TypeOK, TypeOK', NEW w \in Workers, NEW f \in Fluxes, CountPacket(w, f)
  PROVE  Pending' = Pending - 1 /\ Pending > 0 /\ Handled' = Handled + 1
<1>. USE DEF inputVars
<1>f. f \in Threads /\ pc \in [Workers -> [Threads -> PC]]
  BY DEF TypeOK, Threads
<1>1. pc[w][f] = "packet" /\ pc' = [pc EXCEPT ![w][f] = "idle"] /\ data' = data
  BY DEF CountPacket
<1>2. <<w, f>> \in InFlight /\ InFlight' = InFlight \ {<<w, f>>}
  BY <1>f, <1>1 DEF InFlight
<1>3. Cardinality(InFlight') = Cardinality(InFlight) - 1
  BY <1>2, PendingType, FS_RemoveElement
<1>4. Cardinality(InFlight') \in Nat
  <2>1. InFlight' \in SUBSET InFlight
    BY <1>2
  <2>. QED
    BY <2>1, PendingType, FS_Subset, FS_CardinalityType
<1>5. Handled' = Handled + 1
  <2>. DEFINE y == <<w, f>>
              n == IF Counted[y] < 0 THEN 1 ELSE Counted[y] + 1
  <2>1. /\ y \in Workers \X Fluxes /\ Counted[y] = processed[w][f]
        /\ processed[w][f] \in Count /\ processed \in [Workers -> [Fluxes -> Count]]
    BY DEF Counted, TypeOK
  <2>2. processed' = [processed EXCEPT ![w][f] = PlusOne(processed[w][f])]
    BY DEF CountPacket
  <2>3. PlusOne(processed[w][f]) = n
    BY <2>1 DEF PlusOne, Count, Absent
  <2>4. Counted' = [Counted EXCEPT ![y] = n]
    <3>1. \A x \in Workers \X Fluxes :
            processed'[x[1]][x[2]] = IF x = y THEN n ELSE processed[x[1]][x[2]]
      BY <2>1, <2>2, <2>3
    <3>. HIDE DEF n, y
    <3>. QED
      BY <2>1, <3>1 DEF Counted
  <2>5. n \in Int
    BY <2>1 DEF Count, Absent
  <2>. HIDE DEF n, y
  <2>6. n = IF Counted[y] < 0 THEN 1 ELSE Counted[y] + 1
    BY DEF n
  <2>7. Tally([Counted EXCEPT ![y] = n]) = Tally(Counted) + 1
    BY <2>1, <2>5, <2>6, PlacesFinite, PendingType, TallyIncrement
  <2>. QED
    BY <2>4, <2>7 DEF Handled
<1>. QED
  BY <1>1, <1>3, <1>4, <1>5, PendingType DEF Pending

\* Every other step leaves the packets where they are.
LEMMA SamePending ==
  ASSUME UNCHANGED data,
         \A w \in Workers, f \in Fluxes : pc'[w][f] = "packet" <=> pc[w][f] = "packet"
  PROVE  Pending' = Pending
<1>1. InFlight' = InFlight
  BY DEF InFlight
<1>. QED
  BY <1>1 DEF Pending

LEMMA SameHandled ==
  ASSUME TypeOK, TypeOK',
         \A w \in Workers, f \in Fluxes :
           \/ processed'[w][f] = processed[w][f]
           \/ processed'[w][f] <= 0 /\ processed[w][f] <= 0
  PROVE  Handled' = Handled
<1>. DEFINE g == Counted
            h == Counted'
<1>1. g \in [Workers \X Fluxes -> Int] /\ h \in [Workers \X Fluxes -> Int]
  BY PendingType, PendingTypeNext
<1>2. \A x \in Workers \X Fluxes : h[x] = g[x] \/ (h[x] <= 0 /\ g[x] <= 0)
  BY DEF Counted
<1>. HIDE DEF g, h
<1>3. Tally(h) = Tally(g)
  BY <1>1, <1>2, PlacesFinite, TallySame
<1>. QED
  BY <1>3 DEF g, h, Handled

\* The steps that move packets, and the others.
MovesPackets(w, f) == ReceivePacket(w, f) \/ CountPacket(w, f)

LEMMA ThreadElsewhere ==
  ASSUME TypeOK, NEW w \in Workers, NEW t \in Threads, pc[w][t] # "packet",
         NEW c, c # "packet", pc' = pc \/ pc' = [pc EXCEPT ![w][t] = c]
  PROVE  \A x \in Workers, g \in Fluxes : pc'[x][g] = "packet" <=> pc[x][g] = "packet"
<1>. SUFFICES ASSUME NEW x \in Workers, NEW g \in Fluxes
              PROVE  pc'[x][g] = "packet" <=> pc[x][g] = "packet"
  OBVIOUS
<1>1. pc \in [Workers -> [Threads -> PC]] /\ g \in Threads
  BY DEF TypeOK, Threads
<1>2. pc'[x][g] = pc[x][g] \/ (x = w /\ g = t /\ pc'[x][g] = c)
  BY <1>1
<1>. QED
  BY <1>2

LEMMA OtherStepPending ==
  ASSUME TypeOK, Next, \A w \in Workers, f \in Fluxes : ~MovesPackets(w, f)
  PROVE  Pending' = Pending
<1>. USE DEF inputVars, countVars, leaderVars, netVars, sendVars
<1>c. Control \in Threads /\ Leader \in Workers /\ Fluxes \subseteq Threads
  BY WorkersFinite DEF Threads
<1>1. ASSUME NEW w \in Workers, NEW f \in Fluxes, InputThread(w, f)
      PROVE  Pending' = Pending
  <2>1. AdmitEof(w, f) \/ DiscardEof(w, f) \/ AddPrefix(w, f) \/ Broadcast(w, f)
    BY <1>1 DEF InputThread, MovesPackets
  <2>2. UNCHANGED data
    BY <2>1 DEF AdmitEof, DiscardEof, AddPrefix, Broadcast
  <2>3. PICK c \in {"prefix", "counter", "check"} :
          pc[w][f] # "packet" /\ (pc' = pc \/ pc' = [pc EXCEPT ![w][f] = c])
    BY <2>1 DEF AdmitEof, DiscardEof, AddPrefix, Broadcast, TakeEof
  <2>. QED
    BY <1>c, <2>2, <2>3, ThreadElsewhere, SamePending
<1>2. ASSUME NEW w \in Workers, NEW t \in Threads, Registration(w, t)
      PROVE  Pending' = Pending
  <2>1. UNCHANGED data
    BY <1>2 DEF Registration, AddCounter, AddTotal, CheckEofs
  <2>2. PICK c \in {"total", "check", "broadcast", "start", "idle"} :
          pc[w][t] # "packet" /\ pc' = [pc EXCEPT ![w][t] = c]
    BY <1>2 DEF Registration, AddCounter, AddTotal, CheckEofs
  <2>. QED
    BY <1>2, <2>1, <2>2, ThreadElsewhere, SamePending
<1>3. ASSUME NEW f \in Fluxes, FinishAlone(f)
      PROVE  Pending' = Pending
  BY <1>3, <1>c, ThreadElsewhere, SamePending DEF FinishAlone
<1>4. ASSUME NEW t \in Threads, LeaderThread(t)
      PROVE  Pending' = Pending
  <2>1. UNCHANGED data
    BY <1>4 DEF LeaderThread, SendRequest, MarkRequestSent
  <2>2. PICK c \in {"mark", "idle"} :
          pc[Leader][t] # "packet" /\ pc' = [pc EXCEPT ![Leader][t] = c]
    BY <1>4 DEF LeaderThread, SendRequest, MarkRequestSent
  <2>. QED
    BY <1>4, <1>c, <2>1, <2>2, ThreadElsewhere, SamePending
<1>5. ASSUME NEW v \in Workers, NEW w \in Workers, FanoutMessage(v, w)
      PROVE  Pending' = Pending
  <2>1. UNCHANGED data
    BY <1>5 DEF FanoutMessage, HandleEofMessage, HandleRequest, HandleOk, HandleFail, IgnoreFanout
  <2>2. pc[w][Control] # "packet" /\ (pc' = pc \/ pc' = [pc EXCEPT ![w][Control] = "counter"])
    BY <1>5 DEF FanoutMessage, HandleEofMessage, HandleRequest, HandleOk, HandleFail,
                IgnoreFanout, From
  <2>. QED
    BY <1>5, <1>c, <2>1, <2>2, ThreadElsewhere, SamePending
<1>6. ASSUME NEW v \in Workers, WorkerMessage(v)
      PROVE  Pending' = Pending
  <2>1. UNCHANGED data
    BY <1>6 DEF WorkerMessage, Accumulate, Agree, Disagree, CollectPostOk, ForwardEof, IgnoreWorker
  <2>2. /\ pc[Leader][Control] # "packet"
        /\ pc' = pc \/ pc' = [pc EXCEPT ![Leader][Control] = "start"]
    BY <1>6 DEF WorkerMessage, Accumulate, Agree, Disagree, CollectPostOk, ForwardEof,
                IgnoreWorker, Response, PostOk, FromWorker
  <2>. QED
    BY <1>6, <1>c, <2>1, <2>2, ThreadElsewhere, SamePending
<1>7. ASSUME UNCHANGED <<data, pc>> PROVE Pending' = Pending
  BY <1>7, SamePending
<1>8. Redeliver \/ Done => UNCHANGED <<data, pc>>
  BY DEF Redeliver, Done, vars
<1>. QED
  BY <1>1, <1>2, <1>3, <1>4, <1>5, <1>6, <1>7, <1>8 DEF Next

\* The counters of the workers that have not run their callback keep their sum,
\* whatever keys are created in them.
LEMMA OtherStepHandled ==
  ASSUME ProtocolInv, TypeOK', Next, \A w \in Workers, f \in Fluxes : ~MovesPackets(w, f),
         \A w \in Workers : ran'[w] = 0
  PROVE  Handled' = Handled
<1>. USE DEF inputVars, countVars, leaderVars, netVars, sendVars
<1>t. TypeOK /\ processed \in [Workers -> [Fluxes -> Count]] /\ Leader \in Workers
  BY WorkersFinite DEF ProtocolInv, TypeOK
<1>k. ASSUME NEW w \in Workers, NEW fs, processed' = [processed EXCEPT ![w] = WithKeys(@, fs)]
      PROVE  Handled' = Handled
  <2>1. \A x \in Workers, g \in Fluxes :
          processed'[x][g] = processed[x][g] \/ processed'[x][g] = WithKeys(processed[x], fs)[g]
    BY <1>t, <1>k
  <2>2. \A x \in Workers, g \in Fluxes :
          \/ WithKeys(processed[x], fs)[g] = processed[x][g]
          \/ WithKeys(processed[x], fs)[g] = 0 /\ processed[x][g] <= 0
    BY DEF WithKeys, Absent
  <2>. QED
    BY <1>t, <2>1, <2>2, SameHandled
<1>s. ASSUME UNCHANGED processed PROVE Handled' = Handled
  BY <1>s, <1>t, SameHandled
<1>n. ~ \E w \in Workers, k \in CallbackOutputs : RunCallback(w, k)
  BY <1>t, RunCallbackRan
<1>1. ASSUME NEW w \in Workers, NEW f \in Fluxes, InputThread(w, f)
      PROVE  Handled' = Handled
  BY <1>1, <1>s DEF InputThread, MovesPackets, AdmitEof, DiscardEof, AddPrefix, Broadcast
<1>2. ASSUME NEW w \in Workers, NEW t \in Threads, Registration(w, t)
      PROVE  Handled' = Handled
  <2>1. CASE AddCounter(w, t)
    BY <2>1, <1>k DEF AddCounter
  <2>. QED
    BY <1>2, <1>s, <2>1 DEF Registration, AddTotal, CheckEofs
<1>3. ASSUME NEW f \in Fluxes, FinishAlone(f)
      PROVE  Handled' = Handled
  BY <1>3, <1>n, <1>t DEF FinishAlone
<1>4. ASSUME NEW t \in Threads, LeaderThread(t)
      PROVE  Handled' = Handled
  BY <1>4, <1>s DEF LeaderThread, SendRequest, MarkRequestSent
<1>5. ASSUME NEW v \in Workers, NEW w \in Workers, FanoutMessage(v, w)
      PROVE  Handled' = Handled
  <2>1. CASE HandleRequest(v, w)
    BY <2>1, <1>k DEF HandleRequest
  <2>2. ~HandleOk(v, w)
    BY <1>n DEF HandleOk
  <2>. QED
    BY <1>5, <1>s, <2>1, <2>2 DEF FanoutMessage, HandleEofMessage, HandleFail, IgnoreFanout
<1>6. ASSUME NEW v \in Workers, WorkerMessage(v)
      PROVE  Handled' = Handled
  <2>1. ~ForwardEof(v)
    <3>. SUFFICES ASSUME ForwardEof(v) PROVE FALSE
      OBVIOUS
    <3>1. state[Leader] = ACHIEVED
      BY <1>t, LeaderWaits DEF ForwardEof, PostOk, TypeOK
    <3>2. ran[Leader] = 1 /\ ran' = ran
      BY <1>t, <3>1 DEF ProtocolInv, RanIsAchieved, ACHIEVED, ForwardEof
    <3>. QED
      BY <1>t, <3>2
  <2>. QED
    BY <1>6, <1>s, <2>1 DEF WorkerMessage, Accumulate, Agree, Disagree, CollectPostOk, IgnoreWorker
<1>7. CASE Redeliver
  BY <1>7, <1>s DEF Redeliver
<1>8. CASE Done
  BY <1>8, <1>s DEF Done, vars
<1>. QED
  BY <1>1, <1>2, <1>3, <1>4, <1>5, <1>6, <1>7, <1>8 DEF Next

\* A callback that was run stays run.
LEMMA RanGrows ==
  ASSUME ProtocolInv, Next
  PROVE  \A w \in Workers : ran'[w] = 0 => ran[w] = 0
<1>. USE DEF inputVars, countVars, leaderVars, netVars, sendVars
<1>t. TypeOK /\ Leader \in Workers
  BY WorkersFinite DEF ProtocolInv
<1>1. ASSUME NEW w \in Workers, NEW k \in CallbackOutputs, RunCallback(w, k)
      PROVE  \A x \in Workers : ran'[x] = 0 => ran[x] = 0
  BY <1>1, <1>t, RunCallbackRan
<1>2. \/ \E w \in Workers, k \in CallbackOutputs : RunCallback(w, k)
      \/ UNCHANGED ran
  <2>1. ASSUME NEW w \in Workers, NEW f \in Fluxes, InputThread(w, f) PROVE UNCHANGED ran
    BY <2>1 DEF InputThread, ReceivePacket, CountPacket, AdmitEof, DiscardEof, AddPrefix, Broadcast
  <2>2. ASSUME NEW w \in Workers, NEW t \in Threads, Registration(w, t) PROVE UNCHANGED ran
    BY <2>2 DEF Registration, AddCounter, AddTotal, CheckEofs
  <2>3. ASSUME NEW f \in Fluxes, FinishAlone(f)
        PROVE  \E k \in CallbackOutputs : RunCallback(Leader, k)
    BY <2>3 DEF FinishAlone
  <2>4. ASSUME NEW t \in Threads, LeaderThread(t) PROVE UNCHANGED ran
    BY <2>4 DEF LeaderThread, SendRequest, MarkRequestSent
  <2>5. ASSUME NEW v \in Workers, NEW w \in Workers, FanoutMessage(v, w)
        PROVE  UNCHANGED ran \/ \E k \in CallbackOutputs : RunCallback(w, k)
    BY <2>5 DEF FanoutMessage, HandleEofMessage, HandleRequest, HandleOk, HandleFail, IgnoreFanout
  <2>6. ASSUME NEW v \in Workers, WorkerMessage(v)
        PROVE  UNCHANGED ran \/ \E k \in CallbackOutputs : RunCallback(Leader, k)
    BY <2>6 DEF WorkerMessage, Accumulate, Agree, Disagree, CollectPostOk, ForwardEof, IgnoreWorker
  <2>7. Redeliver \/ Done => UNCHANGED ran
    BY DEF Redeliver, Done, vars
  <2>. QED
    BY <1>t, <2>1, <2>2, <2>3, <2>4, <2>5, <2>6, <2>7 DEF Next
<1>. QED
  BY <1>1, <1>2

LEMMA InitConserves == Init => Pending = Packets /\ Conservation
<1>. SUFFICES ASSUME Init PROVE Pending = Packets /\ Conservation
  OBVIOUS
<1>t. TypeOK
  BY InitType
<1>1. InFlight = {}
  BY DEF Init, InFlight, Threads
<1>2. Cardinality(InFlight) = 0
  BY <1>1, FS_EmptySet
<1>3. Pending = Packets
  BY <1>2, <1>t, PendingType DEF Init, Pending, Packets
<1>4. \A x \in Workers \X Fluxes : Counted[x] <= 0
  BY DEF Init, Counted, NoCounts, Absent
<1>5. Handled = 0
  BY <1>4, <1>t, PendingType, TallyNone DEF Handled
<1>. QED
  BY <1>3, <1>5, <1>t, PendingType DEF Conservation

LEMMA NextConserves == ProtocolInv /\ Conservation /\ [Next]_vars => Conservation'
<1>. SUFFICES ASSUME ProtocolInv, Conservation, [Next]_vars, \A w \in Workers : ran'[w] = 0
              PROVE  Pending' + Handled' = Packets
  BY DEF Conservation
<1>t. TypeOK /\ TypeOK' /\ Pending \in Nat /\ Handled \in Nat
  BY NextType, PendingType DEF ProtocolInv
<1>1. CASE UNCHANGED vars
  <2>1. Pending' = Pending
    BY <1>1, SamePending DEF vars, inputVars
  <2>2. Handled' = Handled /\ ran' = ran
    BY <1>1 DEF vars, countVars, sendVars, Handled, Counted
  <2>. QED
    BY <2>1, <2>2 DEF Conservation
<1>2. CASE Next
  <2>1. Pending + Handled = Packets
    BY <1>2, RanGrows DEF Conservation
  <2>2. ASSUME NEW w \in Workers, NEW f \in Fluxes, ReceivePacket(w, f)
        PROVE  Pending' + Handled' = Packets
    <3>1. Handled' = Handled
      BY <2>2 DEF ReceivePacket, countVars, Handled, Counted
    <3>. QED
      BY <1>t, <2>1, <2>2, <3>1, ReceivePending
  <2>3. ASSUME NEW w \in Workers, NEW f \in Fluxes, CountPacket(w, f)
        PROVE  Pending' + Handled' = Packets
    BY <1>t, <2>1, <2>3, CountPending
  <2>4. CASE \A w \in Workers, f \in Fluxes : ~MovesPackets(w, f)
    BY <1>2, <1>t, <2>1, <2>4, OtherStepPending, OtherStepHandled
  <2>. QED
    BY <2>2, <2>3, <2>4 DEF MovesPackets
<1>. QED
  BY <1>1, <1>2

\* No packet is lost or counted twice before the first callback: those in the
\* queues, in the threads and in the counters are the ones the previous stage sent.
THEOREM ConservationHolds == Spec => []Conservation
<1>1. Init => ProtocolInv /\ Conservation
  BY InitSafe, InitConserves
<1>2. ProtocolInv /\ Conservation /\ [Next]_vars => (ProtocolInv /\ Conservation)'
  BY NextSafe, NextConserves
<1>. QED
  BY <1>1, <1>2, PTL DEF Spec

-----------------------------------------------------------------------------
(***************************************************************************)
(* A stage of several workers that share one flux, which every worker      *)
(* learns the total of before it can start or join a round.  (A worker     *)
(* alone decides without comparing counters, and with two fluxes an EOF    *)
(* is known before its total is: neither implements the barrier.)          *)
(***************************************************************************)
SharedFlux == N > 1 /\ Aux = {} /\ \E f \in Fluxes : Fluxes = {f}

InRound == {PENDING_EOF, REQUEST_SENT, RESPONSE_SENT}

KnownTotals ==
  /\ \A w \in Workers, f \in Fluxes : totals[w][f] \in {Absent, Total[f]}
  /\ \A w \in Workers : pc[w][Control] \in {"counter", "total"} => handling[w] \in Fluxes
  /\ \A t \in Threads :
       pc[Leader][t] \in {"broadcast", "check"} /\ state[Leader] < ACHIEVED => totals[Leader] = Total
  /\ state[Leader] \in InRound => eofs[Leader] = Fluxes /\ totals[Leader] = Total

TotalsInv == SharedFlux /\ ProtocolInv /\ KnownTotals

LEMMA InRoundStates ==
  ASSUME NEW s \in EOFStates
  PROVE  /\ s \in InRound => s < ACHIEVED
         /\ Advance(s, ACTIVE) \in InRound => s \in InRound
         /\ Advance(s, REQUEST_SENT) \in InRound /\ s = PENDING_EOF => s \in InRound
         /\ Advance(s, ACTIVE) < ACHIEVED => s < ACHIEVED
BY DEF InRound, Advance, ConsensusFailed, EOFStates, INACTIVE, ACTIVE, PENDING_EOF, REQUEST_SENT,
       RESPONSE_SENT, ACHIEVED, FINISH_ENABLED

\* Steps that register nothing keep what is known.
LEMMA TotalsKept ==
  ASSUME TotalsInv, TypeOK', UNCHANGED <<totals, handling>>,
         \A t \in Threads : pc'[Leader][t] \in {"broadcast", "check"} =>
           pc[Leader][t] \in {"broadcast", "check"},
         \A w \in Workers : pc'[w][Control] \in {"counter", "total"} =>
           pc[w][Control] \in {"counter", "total"},
         state'[Leader] < ACHIEVED => state[Leader] < ACHIEVED,
         state'[Leader] \in InRound => state[Leader] \in InRound,
         eofs[Leader] \subseteq eofs'[Leader]
  PROVE  KnownTotals'
<1>1. \A w \in Workers, f \in Fluxes : totals'[w][f] \in {Absent, Total[f]}
  BY DEF TotalsInv, KnownTotals
<1>2. \A w \in Workers : pc'[w][Control] \in {"counter", "total"} => handling'[w] \in Fluxes
  BY DEF TotalsInv, KnownTotals
<1>3. \A t \in Threads : pc'[Leader][t] \in {"broadcast", "check"} /\ state'[Leader] < ACHIEVED =>
        totals'[Leader] = Total
  BY DEF TotalsInv, KnownTotals
<1>4. state'[Leader] \in InRound => eofs'[Leader] = Fluxes /\ totals'[Leader] = Total
  <2>1. eofs'[Leader] \subseteq Fluxes
    BY WorkersFinite DEF TypeOK
  <2>. QED
    BY <2>1 DEF TotalsInv, KnownTotals
<1>. QED
  BY <1>1, <1>2, <1>3, <1>4 DEF KnownTotals

LEMMA InputThreadTotals ==
  ASSUME TotalsInv, TypeOK', NEW w \in Workers, NEW f \in Fluxes, InputThread(w, f)
  PROVE  KnownTotals'
<1>. USE DEF inputVars, countVars, leaderVars, netVars, sendVars
<1>t. /\ f \in Threads /\ f # Control /\ Control \in Threads /\ Leader \in Workers
      /\ pc \in [Workers -> [Threads -> PC]] /\ state \in [Workers -> EOFStates]
      /\ eofs \in [Workers -> SUBSET Fluxes]
  BY ConsensusAssumption, WorkersFinite DEF Threads, TotalsInv, ProtocolInv, TypeOK
<1>1. UNCHANGED <<totals, handling>>
  BY DEF InputThread, ReceivePacket, CountPacket, AdmitEof, DiscardEof, AddPrefix, Broadcast
<1>2. /\ \A t \in Threads : pc'[Leader][t] \in {"broadcast", "check"} =>
           pc[Leader][t] \in {"broadcast", "check"}
      /\ \A x \in Workers : pc'[x][Control] = pc[x][Control]
  <2>1. PICK c \in {"packet", "idle", "prefix", "counter"} :
          \/ pc' = pc \/ pc' = [pc EXCEPT ![w][f] = c]
          \/ pc[w][f] = "broadcast" /\ pc' = [pc EXCEPT ![w][f] = "check"]
    BY DEF InputThread, ReceivePacket, CountPacket, AdmitEof, DiscardEof, AddPrefix, Broadcast
  <2>2. PICK d \in PC : pc' = [pc EXCEPT ![w][f] = d]
                        /\ (d \in {"broadcast", "check"} => pc[w][f] \in {"broadcast", "check"})
    <3>1. CASE pc' = pc
      <4>1. pc[w][f] \in PC /\ pc' = [pc EXCEPT ![w][f] = pc[w][f]]
        BY <1>t, <3>1
      <4>. QED
        BY <4>1
    <3>2. CASE pc' = [pc EXCEPT ![w][f] = c]
      BY <3>2 DEF PC
    <3>3. CASE pc[w][f] = "broadcast" /\ pc' = [pc EXCEPT ![w][f] = "check"]
      BY <3>3 DEF PC
    <3>. QED
      BY <2>1, <3>1, <3>2, <3>3
  <2>3. \A x \in Workers : pc'[x][Control] = pc[x][Control]
    BY <1>t, <2>2
  <2>4. \A t \in Threads : pc'[Leader][t] = pc[Leader][t]
                             \/ (w = Leader /\ t = f /\ pc'[Leader][t] = d)
    BY <1>t, <2>2
  <2>. QED
    BY <2>2, <2>3, <2>4
<1>3. /\ state'[Leader] < ACHIEVED => state[Leader] < ACHIEVED
      /\ state'[Leader] \in InRound => state[Leader] \in InRound
  <2>1. state'[Leader] = state[Leader] \/ state'[Leader] = Advance(state[Leader], ACTIVE)
    BY <1>t DEF InputThread, ReceivePacket, CountPacket, AdmitEof, DiscardEof, AddPrefix, Broadcast
  <2>. QED
    BY <1>t, <2>1, InRoundStates
<1>4. eofs[Leader] \subseteq eofs'[Leader]
  BY <1>t DEF InputThread, ReceivePacket, CountPacket, AdmitEof, DiscardEof, AddPrefix, Broadcast
<1>. QED
  BY <1>1, <1>2, <1>3, <1>4, TotalsKept

LEMMA RegistrationTotals ==
  ASSUME TotalsInv, TypeOK', NEW w \in Workers, NEW t \in Threads, Registration(w, t)
  PROVE  KnownTotals'
<1>. USE DEF inputVars, countVars, leaderVars, netVars, sendVars
<1>t. /\ Control \in Threads /\ Leader \in Workers
      /\ pc \in [Workers -> [Threads -> PC]] /\ state \in [Workers -> EOFStates]
      /\ eofs \in [Workers -> SUBSET Fluxes] /\ totals \in [Workers -> [Fluxes -> Count]]
  BY WorkersFinite DEF Threads, TotalsInv, ProtocolInv, TypeOK
<1>1. CASE AddCounter(w, t)
  <2>1. pc' = [pc EXCEPT ![w][t] = "total"] /\ pc[w][t] = "counter"
    BY <1>1 DEF AddCounter
  <2>2. UNCHANGED <<totals, handling, state, eofs>>
    BY <1>1 DEF AddCounter
  <2>3. \A u \in Threads : pc'[Leader][u] \in {"broadcast", "check"} =>
          pc[Leader][u] \in {"broadcast", "check"}
    BY <1>t, <2>1
  <2>4. \A x \in Workers : pc'[x][Control] \in {"counter", "total"} =>
          pc[x][Control] \in {"counter", "total"}
    BY <1>t, <2>1
  <2>. QED
    BY <2>2, <2>3, <2>4, TotalsKept
<1>2. CASE AddTotal(w, t)
  <2>1. PICK a \in Fluxes : Fluxes = {a}
    BY DEF TotalsInv, SharedFlux
  <2>2. EofOf(w, t) = a
    <3>1. pc[w][t] = "total"
      BY <1>2 DEF AddTotal
    <3>. QED
      BY <2>1, <3>1 DEF EofOf, Threads, TotalsInv, KnownTotals
  <2>3. /\ totals' = [totals EXCEPT ![w][a] = IF @ = Absent THEN Total[a] ELSE @]
        /\ UNCHANGED <<handling, state, eofs>>
        /\ \E c \in {"check", "broadcast"} : pc' = [pc EXCEPT ![w][t] = c]
    BY <1>2, <2>2 DEF AddTotal
  <2>4. totals'[w][a] = Total[a]
    <3>1. totals[w] \in [Fluxes -> Count] /\ a \in Fluxes
      BY <1>t
    <3>2. totals'[w][a] = IF totals[w][a] = Absent THEN Total[a] ELSE totals[w][a]
      BY <1>t, <2>3, <3>1
    <3>3. totals[w][a] \in {Absent, Total[a]}
      BY DEF TotalsInv, KnownTotals
    <3>. QED
      BY <3>2, <3>3
  <2>5. /\ \A x \in Workers \ {w} : totals'[x] = totals[x]
        /\ totals'[w] = Total
    <3>1. totals'[w] \in [{a} -> Count] /\ Total \in [{a} -> Nat]
      BY <2>1, ConsensusAssumption DEF TypeOK
    <3>2. totals'[w] = Total
      BY <2>4, <3>1
    <3>. QED
      BY <1>t, <2>3, <3>2
  <2>6. \A x \in Workers, f \in Fluxes : totals'[x][f] \in {Absent, Total[f]}
    BY <2>5 DEF TotalsInv, KnownTotals
  <2>7. \A x \in Workers : pc'[x][Control] \in {"counter", "total"} => handling'[x] \in Fluxes
    BY <1>t, <2>3 DEF TotalsInv, KnownTotals
  <2>8. totals[Leader] = Total \/ w = Leader => totals'[Leader] = Total
    BY <1>t, <2>5
  <2>9. \A u \in Threads :
          pc'[Leader][u] \in {"broadcast", "check"} /\ state'[Leader] < ACHIEVED =>
            totals'[Leader] = Total
    <3>1. w # Leader => \A u \in Threads : pc'[Leader][u] = pc[Leader][u]
      BY <1>t, <2>3
    <3>. QED
      BY <2>3, <2>8, <3>1 DEF TotalsInv, KnownTotals
  <2>10. state'[Leader] \in InRound => eofs'[Leader] = Fluxes /\ totals'[Leader] = Total
    BY <2>3, <2>8 DEF TotalsInv, KnownTotals
  <2>. QED
    BY <2>6, <2>7, <2>9, <2>10 DEF KnownTotals
<1>3. CASE CheckEofs(w, t)
  <2>1. UNCHANGED <<totals, handling, eofs>> /\ pc[w][t] = "check"
    BY <1>3 DEF CheckEofs
  <2>2. PICK c \in {"start", "idle"} : pc' = [pc EXCEPT ![w][t] = c]
    BY <1>3 DEF CheckEofs
  <2>3. /\ \A u \in Threads : pc'[Leader][u] \in {"broadcast", "check"} =>
             pc[Leader][u] \in {"broadcast", "check"}
        /\ \A x \in Workers : pc'[x][Control] \in {"counter", "total"} =>
             pc[x][Control] \in {"counter", "total"}
    BY <1>t, <2>2
  <2>4. CASE Starts(w) /\ w = Leader
    <3>1. state[Leader] < ACHIEVED /\ eofs[Leader] = Fluxes
      BY <2>4 DEF Starts, ACTIVE, ACHIEVED
    <3>2. totals[Leader] = Total
      BY <2>1, <2>4, <3>1 DEF TotalsInv, KnownTotals
    <3>. QED
      BY <2>1, <2>3, <3>1, <3>2 DEF TotalsInv, KnownTotals
  <2>5. CASE ~(Starts(w) /\ w = Leader)
    <3>1. state'[Leader] = state[Leader]
      BY <1>3, <1>t, <2>5 DEF CheckEofs
    <3>. QED
      BY <2>1, <2>3, <3>1, TotalsKept
  <2>. QED
    BY <2>4, <2>5
<1>. QED
  BY <1>1, <1>2, <1>3 DEF Registration

LEMMA LeaderThreadTotals ==
  ASSUME TotalsInv, TypeOK', NEW t \in Threads, LeaderThread(t)
  PROVE  KnownTotals'
<1>. USE DEF inputVars, countVars, leaderVars, netVars, sendVars
<1>t. /\ Leader \in Workers /\ Control \in Threads
      /\ pc \in [Workers -> [Threads -> PC]] /\ state \in [Workers -> EOFStates]
  BY WorkersFinite DEF Threads, TotalsInv, ProtocolInv, TypeOK
<1>1. UNCHANGED <<totals, handling, eofs>>
  BY DEF LeaderThread, SendRequest, MarkRequestSent
<1>2. PICK c \in {"mark", "idle"} : pc' = [pc EXCEPT ![Leader][t] = c]
  BY DEF LeaderThread, SendRequest, MarkRequestSent
<1>3. /\ \A u \in Threads : pc'[Leader][u] \in {"broadcast", "check"} =>
           pc[Leader][u] \in {"broadcast", "check"}
      /\ \A x \in Workers : pc'[x][Control] \in {"counter", "total"} =>
           pc[x][Control] \in {"counter", "total"}
  BY <1>t, <1>2
<1>4. state[Leader] = PENDING_EOF
  <2>1. t \in Starting
    BY DEF LeaderThread, SendRequest, MarkRequestSent, Starting
  <2>. QED
    BY <2>1 DEF TotalsInv, ProtocolInv, OneStarts
<1>5. state[Leader] \in InRound /\ state[Leader] < ACHIEVED
  BY <1>4 DEF InRound, PENDING_EOF, ACHIEVED
<1>. QED
  BY <1>1, <1>3, <1>5, TotalsKept

LEMMA FanoutMessageTotals ==
  ASSUME TotalsInv, TypeOK', NEW v \in Workers, NEW w \in Workers, FanoutMessage(v, w)
  PROVE  KnownTotals'
<1>. USE DEF inputVars, countVars, leaderVars, netVars, sendVars
<1>t. /\ Leader \in Workers /\ Control \in Threads
      /\ pc \in [Workers -> [Threads -> PC]] /\ state \in [Workers -> EOFStates]
      /\ eofs \in [Workers -> SUBSET Fluxes] /\ totals \in [Workers -> [Fluxes -> Count]]
      /\ handling \in [Workers -> Fluxes \cup {Control}]
      /\ fanout[v][w] \in Seq(Message) /\ fanout[v][w] # <<>>
  BY WorkersFinite DEF Threads, TotalsInv, ProtocolInv, TypeOK, FanoutMessage, HandleEofMessage,
     HandleRequest, HandleOk, HandleFail, IgnoreFanout, From
<1>h. /\ Head(fanout[v][w]) \in Message
      /\ Head(fanout[v][w]).type # "EOF_MESSAGE" => w # Leader
  <2>1. 1 \in DOMAIN fanout[v][w] /\ Head(fanout[v][w]) = fanout[v][w][1]
    BY <1>t, HeadElement
  <2>2. Head(fanout[v][w]) \in Message
    BY <1>t, HeadTailProperties
  <2>. QED
    BY <2>1, <2>2 DEF TotalsInv, ProtocolInv, LeaderDecides
<1>1. CASE HandleEofMessage(v, w)
  <2>1. Head(fanout[v][w]).flux \in Fluxes
    BY <1>1, <1>h, MessageFields DEF HandleEofMessage, From
  <2>2. /\ UNCHANGED totals
        /\ handling' = [handling EXCEPT ![w] = Head(fanout[v][w]).flux]
        /\ pc' = [pc EXCEPT ![w][Control] = "counter"]
        /\ state' = [state EXCEPT ![w] = Advance(state[w], ACTIVE)]
        /\ eofs' = [eofs EXCEPT ![w] = eofs[w] \cup {handling'[w]}]
    BY <1>1 DEF HandleEofMessage
  <2>3. \A x \in Workers : pc'[x][Control] \in {"counter", "total"} => handling'[x] \in Fluxes
    <3>1. \A x \in Workers \ {w} : pc'[x][Control] = pc[x][Control] /\ handling'[x] = handling[x]
      BY <1>t, <2>2
    <3>2. handling'[w] \in Fluxes
      BY <1>t, <2>1, <2>2
    <3>. QED
      BY <3>1, <3>2 DEF TotalsInv, KnownTotals
  <2>4. /\ state'[Leader] < ACHIEVED => state[Leader] < ACHIEVED
        /\ state'[Leader] \in InRound => state[Leader] \in InRound
    <3>1. state'[Leader] = state[Leader] \/ state'[Leader] = Advance(state[Leader], ACTIVE)
      BY <1>t, <2>2
    <3>. QED
      BY <1>t, <3>1, InRoundStates
  <2>5. \A u \in Threads : pc'[Leader][u] \in {"broadcast", "check"} =>
          pc[Leader][u] \in {"broadcast", "check"}
    BY <1>t, <2>2
  <2>6. eofs[Leader] \subseteq eofs'[Leader] /\ eofs'[Leader] \subseteq Fluxes
    BY <1>t, <2>2 DEF TypeOK
  <2>7. \A t \in Threads :
          pc'[Leader][t] \in {"broadcast", "check"} /\ state'[Leader] < ACHIEVED =>
            totals'[Leader] = Total
    BY <2>2, <2>4, <2>5 DEF TotalsInv, KnownTotals
  <2>8. state'[Leader] \in InRound => eofs'[Leader] = Fluxes /\ totals'[Leader] = Total
    BY <2>2, <2>4, <2>6 DEF TotalsInv, KnownTotals
  <2>9. \A x \in Workers, f \in Fluxes : totals'[x][f] \in {Absent, Total[f]}
    BY <2>2 DEF TotalsInv, KnownTotals
  <2>. QED
    BY <2>3, <2>7, <2>8, <2>9 DEF KnownTotals
<1>2. CASE HandleRequest(v, w) \/ HandleFail(v, w) \/ IgnoreFanout(v, w)
  <2>1. UNCHANGED <<totals, handling, eofs, pc>>
    BY <1>2 DEF HandleRequest, HandleFail, IgnoreFanout
  <2>2. state'[Leader] = state[Leader]
    BY <1>2, <1>t, <1>h DEF HandleRequest, HandleFail, IgnoreFanout, From
  <2>. QED
    BY <2>1, <2>2, TotalsKept
<1>3. CASE HandleOk(v, w)
  <2>1. w # Leader
    BY <1>3, <1>h DEF HandleOk, From
  <2>2. /\ UNCHANGED <<handling, pc>>
        /\ totals' = [totals EXCEPT ![w] = NoCounts]
        /\ eofs' = [eofs EXCEPT ![w] = {}]
        /\ state' = [state EXCEPT ![w] = FINISH_ENABLED]
    BY <1>3 DEF HandleOk, ClearCounts
  <2>3. /\ totals'[Leader] = totals[Leader] /\ eofs'[Leader] = eofs[Leader]
        /\ state'[Leader] = state[Leader]
    BY <1>t, <2>1, <2>2
  <2>4. \A x \in Workers, f \in Fluxes : totals'[x][f] \in {Absent, Total[f]}
    <3>1. \A x \in Workers : totals'[x] = totals[x] \/ totals'[x] = NoCounts
      BY <1>t, <2>2
    <3>. QED
      BY <3>1 DEF TotalsInv, KnownTotals, NoCounts
  <2>. QED
    BY <2>2, <2>3, <2>4 DEF TotalsInv, KnownTotals
<1>. QED
  BY <1>1, <1>2, <1>3 DEF FanoutMessage

LEMMA WorkerMessageTotals ==
  ASSUME TotalsInv, TypeOK', NEW v \in Workers, WorkerMessage(v)
  PROVE  KnownTotals'
<1>. USE DEF inputVars, countVars, leaderVars, netVars, sendVars
<1>t. /\ Leader \in Workers /\ Control \in Threads
      /\ pc \in [Workers -> [Threads -> PC]] /\ state \in [Workers -> EOFStates]
      /\ totals \in [Workers -> [Fluxes -> Count]]
  BY WorkersFinite DEF Threads, TotalsInv, ProtocolInv, TypeOK
<1>1. CASE Accumulate(v) \/ CollectPostOk(v) \/ IgnoreWorker(v)
  <2>1. UNCHANGED <<totals, handling, eofs, pc, state>>
    BY <1>1 DEF Accumulate, CollectPostOk, IgnoreWorker
  <2>. QED
    BY <2>1, TotalsKept
<1>2. CASE Agree(v)
  <2>1. UNCHANGED <<totals, handling, eofs, pc>> /\ state' = [state EXCEPT ![Leader] = ACHIEVED]
    BY <1>2 DEF Agree
  <2>2. state'[Leader] = ACHIEVED
    BY <1>t, <2>1
  <2>3. ~(state'[Leader] < ACHIEVED) /\ state'[Leader] \notin InRound
    BY <2>2 DEF InRound, PENDING_EOF, REQUEST_SENT, RESPONSE_SENT, ACHIEVED
  <2>. QED
    BY <2>1, <2>3, TotalsKept
<1>3. CASE Disagree(v)
  <2>1. UNCHANGED <<totals, handling, eofs>> /\ pc' = [pc EXCEPT ![Leader][Control] = "start"]
    BY <1>3 DEF Disagree
  <2>2. state[Leader] = REQUEST_SENT
    BY <1>3, <1>t, LeaderWaits DEF Disagree, Response
  <2>3. state[Leader] < ACHIEVED /\ state[Leader] \in InRound
    BY <2>2 DEF InRound, REQUEST_SENT, ACHIEVED
  <2>4. /\ \A u \in Threads : pc'[Leader][u] \in {"broadcast", "check"} =>
             pc[Leader][u] \in {"broadcast", "check"}
        /\ \A x \in Workers : pc'[x][Control] \in {"counter", "total"} =>
             pc[x][Control] \in {"counter", "total"}
    BY <1>t, <2>1
  <2>. QED
    BY <2>1, <2>3, <2>4, TotalsKept
<1>4. CASE ForwardEof(v)
  <2>1. /\ UNCHANGED <<handling, pc>>
        /\ totals' = [totals EXCEPT ![Leader] = NoCounts]
        /\ state' = [state EXCEPT ![Leader] = FINISH_ENABLED]
    BY <1>4 DEF ForwardEof, ClearCounts
  <2>2. state'[Leader] = FINISH_ENABLED
    BY <1>t, <2>1
  <2>3. ~(state'[Leader] < ACHIEVED) /\ state'[Leader] \notin InRound
    BY <2>2 DEF InRound, PENDING_EOF, REQUEST_SENT, RESPONSE_SENT, ACHIEVED, FINISH_ENABLED
  <2>4. \A x \in Workers, f \in Fluxes : totals'[x][f] \in {Absent, Total[f]}
    <3>1. \A x \in Workers : totals'[x] = totals[x] \/ totals'[x] = NoCounts
      BY <1>t, <2>1
    <3>. QED
      BY <3>1 DEF TotalsInv, KnownTotals, NoCounts
  <2>. QED
    BY <2>1, <2>3, <2>4 DEF TotalsInv, KnownTotals
<1>. QED
  BY <1>1, <1>2, <1>3, <1>4 DEF WorkerMessage

LEMMA NextTotals == TotalsInv /\ [Next]_vars => KnownTotals'
<1>. USE DEF inputVars, countVars, leaderVars, netVars, sendVars
<1>. SUFFICES ASSUME TotalsInv, [Next]_vars PROVE KnownTotals'
  OBVIOUS
<1>t. TypeOK'
  BY NextType DEF TotalsInv, ProtocolInv
<1>1. ASSUME UNCHANGED <<totals, handling, eofs, pc, state>> PROVE KnownTotals'
  BY <1>t, <1>1, TotalsKept
<1>2. UNCHANGED vars \/ Redeliver \/ Done => UNCHANGED <<totals, handling, eofs, pc, state>>
  BY DEF vars, Redeliver, Done
<1>3. \A f \in Fluxes : ~FinishAlone(f)
  BY DEF FinishAlone, TotalsInv, SharedFlux
<1>. QED
  BY <1>t, <1>1, <1>2, <1>3, InputThreadTotals, RegistrationTotals, LeaderThreadTotals,
     FanoutMessageTotals, WorkerMessageTotals DEF Next

LEMMA InitTotals == Init => KnownTotals
<1>. SUFFICES ASSUME Init PROVE KnownTotals
  OBVIOUS
<1>1. /\ \A w \in Workers, f \in Fluxes : totals[w][f] = Absent
      /\ \A w \in Workers, t \in Threads : pc[w][t] = "idle"
      /\ state[Leader] = INACTIVE
  BY WorkersFinite DEF Init, NoCounts
<1>. QED
  BY <1>1, WorkersFinite DEF KnownTotals, Threads, InRound, INACTIVE, PENDING_EOF, REQUEST_SENT,
                             RESPONSE_SENT

-----------------------------------------------------------------------------
(***************************************************************************)
(* A stage that shares one flux implements EofBarrier.                     *)
(***************************************************************************)
DrainedInv == TotalsInv /\ NeverOverreported /\ Conservation

-----------------------------------------------------------------------------
(***************************************************************************)
(* The decision of the leader.                                             *)
(***************************************************************************)
\* With one flux, the packets of the stage are its total.
LEMMA OneFlux ==
  ASSUME NEW a \in Fluxes, Fluxes = {a}, Aux = {}
  PROVE  Packets = Total[a] /\ Total[a] \in Nat
<1>. DEFINE y == <<a, Workers>>
            g == [q \in DataQueues |-> Total[q[1]]]
<1>1. Total[a] \in Nat
  BY ConsensusAssumption
<1>2. DataQueues = {y}
  <2>1. \A w \in Workers, f \in Fluxes : DataQueue(w, f) = y
    BY DEF DataQueue
  <2>. QED
    BY <2>1, WorkersFinite DEF DataQueues
<1>3. g \in [{y} -> Nat] /\ g[y] = Total[a]
  BY <1>1, <1>2
<1>. HIDE DEF g, y
<1>4. Tally(g) = g[y]
  BY <1>3, TallyOne
<1>. QED
  BY <1>1, <1>3, <1>4 DEF g, Packets

\* Before the leader decides, no worker has run its callback.
LEMMA NobodyRan ==
  ASSUME ProtocolInv, state[Leader] < ACHIEVED
  PROVE  \A w \in Workers : ran[w] = 0
<1>1. ~(state[Leader] >= ACHIEVED)
  <2>1. state[Leader] \in EOFStates
    BY WorkersFinite DEF ProtocolInv, TypeOK
  <2>. QED
    BY <2>1 DEF EOFStates, INACTIVE, ACHIEVED, FINISH_ENABLED
<1>2. \A w \in Workers : ~(state[w] >= ACHIEVED)
  BY <1>1 DEF ProtocolInv, LeaderFirst
<1>. QED
  BY <1>2 DEF ProtocolInv, RanIsAchieved

\* When the sums agree, no packet is left in a queue or in a thread.
LEMMA AgreeDrained ==
  ASSUME DrainedInv, NEW v \in Workers, Agree(v)
  PROVE  Pending = 0 /\ state[Leader] = REQUEST_SENT
<1>t. /\ Leader \in Workers /\ TypeOK /\ state[Leader] \in EOFStates
      /\ ProtocolInv /\ CountsInv
  BY WorkersFinite DEF DrainedInv, TotalsInv, ProtocolInv, CountsInv, TypeOK
<1>s. state[Leader] = REQUEST_SENT /\ Response(v)
  BY <1>t, LeaderWaits DEF Agree, Response
<1>n. \A w \in Workers : ran[w] = 0
  BY <1>s, <1>t, NobodyRan DEF REQUEST_SENT, ACHIEVED
<1>1. PICK a \in Fluxes : Fluxes = {a}
  BY DEF DrainedInv, TotalsInv, SharedFlux
<1>2. Packets = Total[a] /\ Total[a] \in Nat
  BY <1>1, OneFlux DEF DrainedInv, TotalsInv, SharedFlux
<1>3. eofs[Leader] = {a} /\ totals[Leader] = Total
  BY <1>1, <1>s DEF DrainedInv, TotalsInv, KnownTotals, InRound
<1>. DEFINE P == WithResponse(v)
            table == [x \in Workers \X Fluxes |-> P[x[1]][x[2]]]
            known == [f \in PartialKeys(P) |-> Informed(f)]
<1>4. P \in [Workers -> [Fluxes -> Count]]
  BY <1>s, <1>t, WithResponseType DEF Response
<1>5. PartialKeys(P) = {a} /\ Tally(table) = Tally(known)
  BY <1>3 DEF Agree, HaveReceivedAll, TotalizerAchieved, DrainedInv, TotalsInv, SharedFlux
<1>6. Informed(a) = Total[a]
  BY <1>2, <1>3 DEF Informed, Absent
<1>7. Tally(known) = Total[a]
  <2>1. known \in [{a} -> Nat] /\ known[a] = Total[a]
    BY <1>2, <1>5, <1>6
  <2>. HIDE DEF known
  <2>. QED
    BY <2>1, TallyOne
<1>8. table \in [Workers \X Fluxes -> Int]
  BY <1>4 DEF Count, Absent
<1>9. \A x \in Workers \X Fluxes : table[x] <= Counted[x]
  <2>1. \A w \in Workers, f \in Fluxes : P[w][f] <= processed[w][f]
    BY <1>n, <1>s, <1>t, ResponseBelow
  <2>. HIDE DEF P
  <2>. QED
    BY <2>1 DEF Counted
<1>. HIDE DEF table, known, P
<1>10. Tally(table) <= Handled
  BY <1>8, <1>9, <1>t, PlacesFinite, PendingType, TallyMonotone DEF Handled
<1>11. Pending + Handled = Packets
  BY <1>n DEF DrainedInv, Conservation
<1>12. Pending \in Nat /\ Handled \in Nat
  BY <1>t, PendingType
<1>. QED
  BY <1>2, <1>5, <1>7, <1>10, <1>11, <1>12, <1>s

\* A worker is told OK by the leader, which has run its own callback by then.
LEMMA OkAchieved ==
  ASSUME ProtocolInv, NEW v \in Workers, NEW w \in Workers, HandleOk(v, w)
  PROVE  /\ state[Leader] >= ACHIEVED /\ ran[Leader] = 1
         /\ w # Leader /\ state[w] = RESPONSE_SENT
<1>1. fanout[v][w] \in Seq(Message) /\ fanout[v][w] # <<>> /\ Head(fanout[v][w]).type = "OK"
  BY DEF ProtocolInv, TypeOK, HandleOk, From
<1>2. 1 \in DOMAIN fanout[v][w] /\ Head(fanout[v][w]) = fanout[v][w][1]
  BY <1>1, HeadElement
<1>3. v = Leader /\ v # w
  BY <1>1, <1>2 DEF ProtocolInv, LeaderDecides
<1>4. state[Leader] >= ACHIEVED
  BY <1>1, <1>2, <1>3 DEF ProtocolInv, LeaderFirst
<1>5. ran[Leader] = 1
  BY <1>4, WorkersFinite DEF ProtocolInv, RanIsAchieved
<1>6. state[w] = RESPONSE_SENT
  <2>1. state[w] \in EOFStates /\ ValidTransition(state[w], ACHIEVED)
    BY DEF HandleOk, ProtocolInv, TypeOK
  <2>. QED
    BY <2>1 DEF EOFStates, ValidTransition, ConsensusFailed, INACTIVE, ACTIVE, PENDING_EOF,
                RESPONSE_SENT, ACHIEVED, FINISH_ENABLED
<1>. QED
  BY <1>3, <1>4, <1>5, <1>6

\* The steps that send something, or run a callback.
LEMMA StepKinds ==
  ASSUME SharedFlux, Next
  PROVE  \/ \E w \in Workers, f \in Fluxes : ReceivePacket(w, f)
         \/ \E v \in Workers : Agree(v)
         \/ \E v \in Workers : ForwardEof(v)
         \/ \E v \in Workers, w \in Workers : HandleOk(v, w)
         \/ UNCHANGED <<sent, emitted, ran, out>>
<1>. USE DEF sendVars
<1>1. ASSUME NEW w \in Workers, NEW f \in Fluxes, InputThread(w, f)
      PROVE  ReceivePacket(w, f) \/ UNCHANGED <<sent, emitted, ran, out>>
  BY <1>1 DEF InputThread, CountPacket, AdmitEof, DiscardEof, AddPrefix, Broadcast
<1>2. ASSUME NEW w \in Workers, NEW t \in Threads, Registration(w, t)
      PROVE  UNCHANGED <<sent, emitted, ran, out>>
  BY <1>2 DEF Registration, AddCounter, AddTotal, CheckEofs
<1>3. \A f \in Fluxes : ~FinishAlone(f)
  BY DEF FinishAlone, SharedFlux
<1>4. ASSUME NEW t \in Threads, LeaderThread(t)
      PROVE  UNCHANGED <<sent, emitted, ran, out>>
  BY <1>4 DEF LeaderThread, SendRequest, MarkRequestSent
<1>5. ASSUME NEW v \in Workers, NEW w \in Workers, FanoutMessage(v, w)
      PROVE  HandleOk(v, w) \/ UNCHANGED <<sent, emitted, ran, out>>
  BY <1>5 DEF FanoutMessage, HandleEofMessage, HandleRequest, HandleFail, IgnoreFanout
<1>6. ASSUME NEW v \in Workers, WorkerMessage(v)
      PROVE  Agree(v) \/ ForwardEof(v) \/ UNCHANGED <<sent, emitted, ran, out>>
  BY <1>6 DEF WorkerMessage, Accumulate, Disagree, CollectPostOk, IgnoreWorker
<1>7. Redeliver \/ Done => UNCHANGED <<sent, emitted, ran, out>>
  BY DEF Redeliver, Done, vars
<1>. QED
  BY <1>1, <1>2, <1>3, <1>4, <1>5, <1>6, <1>7 DEF Next

\* Packets leave the stage, none comes back.
LEMMA PendingShrinks ==
  ASSUME TypeOK, TypeOK', [Next]_vars
  PROVE  Pending' <= Pending
<1>t. Pending \in Nat /\ Pending' \in Nat
  BY PendingType, PendingTypeNext
<1>1. CASE UNCHANGED vars
  BY <1>1, <1>t, SamePending DEF vars, inputVars
<1>2. CASE Next
  <2>1. ASSUME NEW w \in Workers, NEW f \in Fluxes, MovesPackets(w, f)
        PROVE  Pending' <= Pending
    BY <2>1, <1>t, ReceivePending, CountPending DEF MovesPackets
  <2>2. CASE \A w \in Workers, f \in Fluxes : ~MovesPackets(w, f)
    BY <1>2, <1>t, <2>2, OtherStepPending
  <2>. QED
    BY <2>1, <2>2
<1>. QED
  BY <1>1, <1>2

LEMMA NextAfterAllData ==
  ASSUME DrainedInv, PostprocessAfterAllData, [Next]_vars
  PROVE  PostprocessAfterAllData'
<1>. SUFFICES ASSUME NEW w \in Workers, ran'[w] > 0 PROVE Pending' = 0
  BY DEF PostprocessAfterAllData
<1>t. TypeOK /\ TypeOK' /\ ProtocolInv
  BY NextType DEF DrainedInv, TotalsInv, ProtocolInv
<1>p. Pending' <= Pending /\ Pending \in Nat /\ Pending' \in Nat
  BY <1>t, PendingShrinks, PendingType, PendingTypeNext
<1>1. CASE \E x \in Workers : ran[x] > 0
  BY <1>1, <1>p DEF PostprocessAfterAllData
<1>2. CASE ~ \E x \in Workers : ran[x] > 0
  <2>1. ran[w] = 0
    BY <1>2, <1>t DEF TypeOK
  <2>2. ran' # ran
    BY <2>1
  <2>3. Next
    BY <2>2 DEF vars, sendVars
  <2>4. \A v \in Workers, x \in Workers : ~HandleOk(v, x)
    <3>. SUFFICES ASSUME NEW v \in Workers, NEW x \in Workers, HandleOk(v, x) PROVE FALSE
      OBVIOUS
    <3>1. ran[Leader] = 1
      BY <1>t, OkAchieved
    <3>. QED
      BY <1>2, <3>1, WorkersFinite
  <2>5. UNCHANGED ran \/ \E v \in Workers : Agree(v)
    BY <2>3, <2>4, StepKinds DEF DrainedInv, TotalsInv, ReceivePacket, ForwardEof
  <2>6. PICK v \in Workers : Agree(v)
    BY <2>2, <2>5
  <2>. QED
    BY <1>p, <2>6, AgreeDrained
<1>. QED
  BY <1>1, <1>2

LEMMA InitDrained == SharedFlux /\ Init => DrainedInv /\ PostprocessAfterAllData
<1>. SUFFICES ASSUME SharedFlux, Init PROVE DrainedInv /\ PostprocessAfterAllData
  OBVIOUS
<1>1. PostprocessAfterAllData
  BY DEF Init, PostprocessAfterAllData
<1>. QED
  BY <1>1, InitSafe, InitTotals, InitBelow, InitConserves DEF DrainedInv, TotalsInv

LEMMA NextDrained == DrainedInv /\ [Next]_vars => DrainedInv'
<1>. SUFFICES ASSUME DrainedInv, [Next]_vars PROVE DrainedInv'
  OBVIOUS
<1>1. ProtocolInv' /\ NeverOverreported' /\ Conservation' /\ KnownTotals'
  BY NextSafe, NextBelow, NextConserves, NextTotals DEF DrainedInv, TotalsInv, CountsInv
<1>2. SharedFlux'
  BY DEF DrainedInv, TotalsInv, SharedFlux
<1>. QED
  BY <1>1, <1>2 DEF DrainedInv, TotalsInv

\* A worker runs its post-process callback only when every packet of the stage
\* has been processed, for any number of workers that share one flux, although
\* the EOF may overtake packets and the counters are collected one at a time.
THEOREM PostprocessAfterAllDataHolds == SharedFlux /\ Spec => []PostprocessAfterAllData
BY InitDrained, NextDrained, NextAfterAllData, PTL DEF Spec

-----------------------------------------------------------------------------
(***************************************************************************)
(* What the workers say they have sent.                                    *)
(***************************************************************************)
\* A worker counts what it sends until it is told OK; what it reports then, and
\* what the leader holds of it, is what it has sent in all.
SentIsEmitted ==
  /\ \A w \in Workers : state[w] < ACHIEVED => sent[w] = emitted[w]
  /\ \A w \in Workers : \A i \in DOMAIN toLeader[w] :
       toLeader[w][i].type = "POST_OK" => toLeader[w][i].sent = emitted[w]
  /\ \A w \in post : totalSent[w] = emitted[w]

StageInv == DrainedInv /\ PostprocessAfterAllData /\ SentIsEmitted /\ ForwardedTotalExact

\* The EOF has not left as long as a worker has not been told OK.
LEMMA NotForwarded ==
  ASSUME ProtocolInv, NEW w \in Workers, state[w] < ACHIEVED
  PROVE  /\ out = <<>> /\ w \notin post
         /\ \A i \in DOMAIN toLeader[w] : toLeader[w][i].type # "POST_OK"
<1>1. ~(state[w] >= ACHIEVED)
  <2>1. state[w] \in EOFStates
    BY DEF ProtocolInv, TypeOK
  <2>. QED
    BY <2>1 DEF EOFStates, INACTIVE, ACHIEVED, FINISH_ENABLED
<1>2. /\ state[Leader] # FINISH_ENABLED /\ w \notin post
      /\ \A i \in DOMAIN toLeader[w] : toLeader[w][i].type # "POST_OK"
  BY <1>1 DEF ProtocolInv, PostIsAchieved
<1>3. Len(out) = 0 /\ out \in Seq(Nat)
  BY <1>2 DEF ProtocolInv, OutIsFinished, TypeOK
<1>4. out = <<>>
  BY <1>3, EmptySeq
<1>. QED
  BY <1>2, <1>4

\* A worker that has been told OK remains so.
LEMMA StateGrows ==
  ASSUME ProtocolInv, [Next]_vars
  PROVE  \A w \in Workers : state'[w] < ACHIEVED => state[w] < ACHIEVED
<1>. SUFFICES ASSUME NEW w \in Workers, state'[w] < ACHIEVED PROVE state[w] < ACHIEVED
  OBVIOUS
<1>1. ProtocolInv'
  BY NextSafe
<1>t. state[w] \in EOFStates /\ state'[w] \in EOFStates
  BY <1>1 DEF ProtocolInv, TypeOK
<1>2. \A s \in EOFStates : s < ACHIEVED <=> ~(s >= ACHIEVED)
  BY DEF EOFStates, INACTIVE, ACHIEVED, FINISH_ENABLED
<1>3. ran'[w] = 0
  BY <1>1, <1>2, <1>t DEF ProtocolInv, RanIsAchieved
<1>4. ran[w] = 0
  BY <1>3, RanGrows DEF vars, sendVars
<1>. QED
  BY <1>2, <1>4, <1>t DEF ProtocolInv, RanIsAchieved

\* Steps that send nothing keep the reports, and add no POST_OK.
LEMMA ReportsKept ==
  ASSUME StageInv, [Next]_vars, UNCHANGED <<sent, emitted, out>>,
         \A w \in Workers : \A i \in DOMAIN toLeader'[w] :
           \/ toLeader'[w][i].type # "POST_OK"
           \/ \E j \in DOMAIN toLeader[w] : toLeader'[w][i] = toLeader[w][j],
         \A w \in post' : totalSent'[w] = emitted[w]
  PROVE  SentIsEmitted' /\ ForwardedTotalExact'
<1>1. ForwardedTotalExact'
  BY DEF StageInv, ForwardedTotalExact
<1>2. \A w \in Workers : state'[w] < ACHIEVED => sent'[w] = emitted'[w]
  BY StateGrows DEF StageInv, SentIsEmitted, DrainedInv, TotalsInv
<1>3. \A w \in Workers : \A i \in DOMAIN toLeader'[w] :
        toLeader'[w][i].type = "POST_OK" => toLeader'[w][i].sent = emitted'[w]
  BY DEF StageInv, SentIsEmitted
<1>4. \A w \in post' : totalSent'[w] = emitted'[w]
  OBVIOUS
<1>. QED
  BY <1>1, <1>2, <1>3, <1>4 DEF SentIsEmitted

\* While packets are pending nobody has reported.
LEMMA ReceiveReports ==
  ASSUME StageInv, TypeOK', NEW w \in Workers, NEW f \in Fluxes, ReceivePacket(w, f)
  PROVE  SentIsEmitted' /\ ForwardedTotalExact'
<1>. USE DEF leaderVars, netVars
<1>t. ProtocolInv /\ TypeOK
  BY DEF StageInv, DrainedInv, TotalsInv, ProtocolInv
<1>1. \A x \in Workers : state[x] < ACHIEVED
  <2>. SUFFICES ASSUME NEW x \in Workers PROVE state[x] < ACHIEVED
    OBVIOUS
  <2>1. Pending > 0
    BY <1>t, ReceivePending
  <2>2. ran[x] = 0
    <3>1. ran[x] \in Nat /\ Pending \in Nat
      BY <1>t, PendingType DEF TypeOK
    <3>2. ~(ran[x] > 0)
      BY <2>1, <3>1 DEF StageInv, PostprocessAfterAllData
    <3>. QED
      BY <3>1, <3>2
  <2>3. state[x] \in EOFStates
    BY <1>t DEF TypeOK
  <2>4. ~(state[x] >= ACHIEVED)
    BY <1>t, <2>2 DEF ProtocolInv, RanIsAchieved
  <2>. QED
    BY <2>3, <2>4 DEF EOFStates, INACTIVE, ACHIEVED, FINISH_ENABLED
<1>2. /\ out = <<>> /\ \A x \in Workers : x \notin post
      /\ \A x \in Workers : \A i \in DOMAIN toLeader[x] : toLeader[x][i].type # "POST_OK"
  BY <1>1, <1>t, NotForwarded, WorkersFinite
<1>3. UNCHANGED <<out, post, toLeader, state>>
  BY DEF ReceivePacket
<1>4. \A x \in Workers : sent'[x] = emitted'[x]
  <2>1. PICK k \in PacketOutputs :
          /\ emitted' = [emitted EXCEPT ![w] = emitted[w] + k]
          /\ sent' = [sent EXCEPT ![w] = sent[w] + k]
    BY DEF ReceivePacket
  <2>2. \A x \in Workers : sent[x] = emitted[x]
    BY <1>1 DEF StageInv, SentIsEmitted
  <2>3. sent \in [Workers -> Nat] /\ emitted \in [Workers -> Nat]
    BY <1>t DEF TypeOK
  <2>. QED
    BY <2>1, <2>2, <2>3
<1>5. ForwardedTotalExact'
  BY <1>2, <1>3 DEF ForwardedTotalExact
<1>6. SentIsEmitted'
  <2>1. post' \subseteq Workers
    BY DEF TypeOK
  <2>. QED
    BY <1>2, <1>3, <1>4, <2>1 DEF SentIsEmitted
<1>. QED
  BY <1>5, <1>6

\* The leader records what it has sent, its callback included.
LEMMA AgreeReports ==
  ASSUME StageInv, TypeOK', NEW v \in Workers, Agree(v)
  PROVE  SentIsEmitted' /\ ForwardedTotalExact'
<1>t. /\ ProtocolInv /\ TypeOK /\ Leader \in Workers /\ DrainedInv
      /\ toLeader \in [Workers -> Seq(LeaderMessage)] /\ post \subseteq Workers
      /\ sent \in [Workers -> Nat] /\ emitted \in [Workers -> Nat]
      /\ totalSent \in [Workers -> Nat] /\ state \in [Workers -> EOFStates]
  BY WorkersFinite DEF StageInv, DrainedInv, TotalsInv, ProtocolInv, TypeOK
<1>1. state[Leader] < ACHIEVED
  BY <1>t, AgreeDrained DEF REQUEST_SENT, ACHIEVED
<1>2. /\ out = <<>> /\ Leader \notin post
      /\ \A i \in DOMAIN toLeader[Leader] : toLeader[Leader][i].type # "POST_OK"
  BY <1>1, <1>t, NotForwarded
<1>3. PICK k \in CallbackOutputs :
        /\ emitted' = [emitted EXCEPT ![Leader] = emitted[Leader] + k]
        /\ sent' = [sent EXCEPT ![Leader] = sent[Leader] + k]
  BY DEF Agree, RunCallback
<1>4. /\ post' = post \cup {Leader} /\ out' = out
      /\ totalSent' = [totalSent EXCEPT ![Leader] = sent'[Leader]]
      /\ state' = [state EXCEPT ![Leader] = ACHIEVED]
  BY DEF Agree
<1>5. sent'[Leader] = emitted'[Leader]
  <2>1. sent[Leader] = emitted[Leader]
    BY <1>1, <1>t DEF StageInv, SentIsEmitted
  <2>. QED
    BY <1>t, <1>3, <2>1
<1>6. \A x \in Workers \ {Leader} :
        /\ emitted'[x] = emitted[x] /\ sent'[x] = sent[x]
        /\ totalSent'[x] = totalSent[x] /\ state'[x] = state[x]
  BY <1>t, <1>3, <1>4
<1>7. ForwardedTotalExact'
  BY <1>2, <1>4 DEF ForwardedTotalExact
<1>8. \A x \in Workers : state'[x] < ACHIEVED => sent'[x] = emitted'[x]
  BY <1>5, <1>6 DEF StageInv, SentIsEmitted
<1>9. ASSUME NEW x \in Workers, NEW i \in DOMAIN toLeader'[x], toLeader'[x][i].type = "POST_OK"
      PROVE  toLeader'[x][i].sent = emitted'[x]
  <2>1. toLeader[v] # <<>> /\ ConsumeWorker(v)
    BY DEF Agree, Response, FromWorker
  <2>2. PICK j \in DOMAIN toLeader[x] : toLeader'[x][i] = toLeader[x][j]
    BY <1>t, <2>1, ConsumeWorkerElements
  <2>3. x # Leader
    BY <1>2, <1>9, <2>2
  <2>. QED
    BY <1>6, <1>9, <2>2, <2>3 DEF StageInv, SentIsEmitted
<1>10. \A x \in post' : totalSent'[x] = emitted'[x]
  <2>1. totalSent'[Leader] = emitted'[Leader]
    BY <1>t, <1>4, <1>5
  <2>2. \A x \in post : x \in Workers \ {Leader}
    BY <1>t, <1>2
  <2>. QED
    BY <1>4, <1>6, <2>1, <2>2 DEF StageInv, SentIsEmitted
<1>. QED
  BY <1>7, <1>8, <1>9, <1>10 DEF SentIsEmitted

\* POST_OK reports what the worker has sent, its callback included.
LEMMA OkReports ==
  ASSUME StageInv, TypeOK', NEW v \in Workers, NEW w \in Workers, HandleOk(v, w)
  PROVE  SentIsEmitted' /\ ForwardedTotalExact'
<1>. USE DEF leaderVars
<1>t. /\ ProtocolInv /\ TypeOK
      /\ toLeader \in [Workers -> Seq(LeaderMessage)] /\ post \subseteq Workers
      /\ sent \in [Workers -> Nat] /\ emitted \in [Workers -> Nat]
      /\ state \in [Workers -> EOFStates]
  BY DEF StageInv, DrainedInv, TotalsInv, ProtocolInv, TypeOK
<1>1. state[w] < ACHIEVED
  BY <1>t, OkAchieved DEF RESPONSE_SENT, ACHIEVED
<1>2. /\ out = <<>> /\ w \notin post
      /\ \A i \in DOMAIN toLeader[w] : toLeader[w][i].type # "POST_OK"
  BY <1>1, <1>t, NotForwarded
<1>3. PICK k \in CallbackOutputs :
        /\ emitted' = [emitted EXCEPT ![w] = emitted[w] + k]
        /\ toLeader' = [toLeader EXCEPT ![w] =
             Append(@, [type |-> "POST_OK", sent |-> sent[w] + k])]
  BY DEF HandleOk, RunCallback
<1>4. /\ UNCHANGED <<post, totalSent, out>>
      /\ sent' = [sent EXCEPT ![w] = 0] /\ state' = [state EXCEPT ![w] = FINISH_ENABLED]
  BY DEF HandleOk
<1>5. sent[w] + k = emitted'[w]
  <2>1. sent[w] = emitted[w]
    BY <1>1 DEF StageInv, SentIsEmitted
  <2>. QED
    BY <1>t, <1>3, <2>1
<1>6. \A x \in Workers \ {w} :
        emitted'[x] = emitted[x] /\ sent'[x] = sent[x] /\ state'[x] = state[x]
  BY <1>t, <1>3, <1>4
<1>7. ForwardedTotalExact'
  BY <1>2, <1>4 DEF ForwardedTotalExact
<1>8. \A x \in Workers : state'[x] < ACHIEVED => sent'[x] = emitted'[x]
  <2>1. ~(state'[w] < ACHIEVED)
    BY <1>t, <1>4 DEF FINISH_ENABLED, ACHIEVED
  <2>. QED
    BY <1>6, <2>1 DEF StageInv, SentIsEmitted
<1>9. ASSUME NEW x \in Workers, NEW i \in DOMAIN toLeader'[x], toLeader'[x][i].type = "POST_OK"
      PROVE  toLeader'[x][i].sent = emitted'[x]
  <2>. DEFINE m == [type |-> "POST_OK", sent |-> sent[w] + k]
  <2>1. m \in LeaderMessage /\ m.sent = sent[w] + k
    <3>1. sent[w] + k \in Nat
      BY <1>t, ConsensusAssumption
    <3>. QED
      BY <3>1, MessageType
  <2>2. toLeader' = [toLeader EXCEPT ![w] = Append(@, m)]
    BY <1>3
  <2>. HIDE DEF m
  <2>3. \/ \E j \in DOMAIN toLeader[x] : toLeader'[x][i] = toLeader[x][j]
        \/ x = w /\ toLeader'[x][i] = m
    BY <1>t, <2>1, <2>2, AnswerElements
  <2>4. ASSUME NEW j \in DOMAIN toLeader[x], toLeader'[x][i] = toLeader[x][j]
        PROVE  toLeader'[x][i].sent = emitted'[x]
    <3>1. x # w
      BY <1>2, <1>9, <2>4
    <3>. QED
      BY <1>6, <1>9, <2>4, <3>1 DEF StageInv, SentIsEmitted
  <2>. QED
    BY <1>5, <2>1, <2>3, <2>4
<1>10. \A x \in post' : totalSent'[x] = emitted'[x]
  <2>1. \A x \in post : x \in Workers \ {w}
    BY <1>t, <1>2
  <2>. QED
    BY <1>4, <1>6, <2>1 DEF StageInv, SentIsEmitted
<1>. QED
  BY <1>7, <1>8, <1>9, <1>10 DEF SentIsEmitted

\* The head of a queue of answers, when it is a POST_OK.
LEMMA PostOkHead ==
  ASSUME StageInv, NEW v \in Workers, PostOk(v)
  PROVE  /\ state[Leader] = ACHIEVED /\ totalSent' = [totalSent EXCEPT ![v] = emitted[v]]
         /\ \A w \in Workers : \A i \in DOMAIN toLeader'[w] :
              \E j \in DOMAIN toLeader[w] : toLeader'[w][i] = toLeader[w][j]
<1>t. /\ toLeader \in [Workers -> Seq(LeaderMessage)] /\ toLeader[v] # <<>>
      /\ ConsumeWorker(v) /\ state[Leader] \in EOFStates
  BY WorkersFinite DEF StageInv, DrainedInv, TotalsInv, ProtocolInv, TypeOK, PostOk, FromWorker
<1>1. toLeader[v] \in Seq(LeaderMessage)
  BY <1>t
<1>2. 1 \in DOMAIN toLeader[v] /\ Head(toLeader[v]) = toLeader[v][1]
  BY <1>t, <1>1, HeadElement
<1>3. Head(toLeader[v]).sent = emitted[v]
  BY <1>2 DEF PostOk, FromWorker, StageInv, SentIsEmitted
<1>4. state[Leader] = ACHIEVED
  BY <1>t, LeaderWaits DEF PostOk
<1>5. \A w \in Workers : \A i \in DOMAIN toLeader'[w] :
        \E j \in DOMAIN toLeader[w] : toLeader'[w][i] = toLeader[w][j]
  BY <1>t, ConsumeWorkerElements
<1>. QED
  BY <1>3, <1>4, <1>5 DEF PostOk

\* The sum of the reports is what the stage has emitted.
LEMMA ForwardReports ==
  ASSUME StageInv, TypeOK', NEW v \in Workers, ForwardEof(v)
  PROVE  /\ SentIsEmitted' /\ ForwardedTotalExact'
         /\ out = <<>> /\ out' = <<Tally(emitted)>>
<1>t. /\ ProtocolInv /\ TypeOK /\ Leader \in Workers /\ out \in Seq(Nat)
      /\ emitted \in [Workers -> Nat] /\ totalSent \in [Workers -> Nat]
      /\ state \in [Workers -> EOFStates] /\ sent \in [Workers -> Nat]
  BY WorkersFinite DEF StageInv, DrainedInv, TotalsInv, ProtocolInv, TypeOK
<1>1. /\ state[Leader] = ACHIEVED /\ totalSent' = [totalSent EXCEPT ![v] = emitted[v]]
      /\ \A w \in Workers : \A i \in DOMAIN toLeader'[w] :
           \E j \in DOMAIN toLeader[w] : toLeader'[w][i] = toLeader[w][j]
  BY PostOkHead DEF ForwardEof
<1>2. totalSent' = emitted
  <2>1. \A w \in Workers : totalSent'[w] = emitted[w]
    <3>1. post \cup {v} = Workers
      BY DEF ForwardEof
    <3>. QED
      BY <1>t, <1>1, <3>1 DEF StageInv, SentIsEmitted
  <2>2. totalSent' \in [Workers -> Nat]
    BY DEF TypeOK
  <2>. QED
    BY <1>t, <2>1, <2>2
<1>3. out = <<>>
  <2>1. Len(out) = 0
    BY <1>t, <1>1 DEF ProtocolInv, OutIsFinished, ACHIEVED, FINISH_ENABLED
  <2>. QED
    BY <1>t, <2>1, EmptySeq
<1>4. /\ out' = Append(out, Tally(emitted)) /\ post' = {} /\ UNCHANGED emitted
      /\ sent' = [sent EXCEPT ![Leader] = 0]
      /\ state' = [state EXCEPT ![Leader] = FINISH_ENABLED]
  BY <1>2 DEF ForwardEof, ClearLeader
<1>5. out' = <<Tally(emitted)>>
  BY <1>3, <1>4
<1>6. ForwardedTotalExact'
  BY <1>4, <1>5 DEF ForwardedTotalExact
<1>7. \A w \in Workers : state'[w] < ACHIEVED => sent'[w] = emitted'[w]
  <2>1. ~(state'[Leader] < ACHIEVED)
    BY <1>t, <1>4 DEF FINISH_ENABLED, ACHIEVED
  <2>2. \A w \in Workers \ {Leader} : state'[w] = state[w] /\ sent'[w] = sent[w]
    BY <1>t, <1>4
  <2>. QED
    BY <1>4, <2>1, <2>2 DEF StageInv, SentIsEmitted
<1>8. \A w \in Workers : \A i \in DOMAIN toLeader'[w] :
        toLeader'[w][i].type = "POST_OK" => toLeader'[w][i].sent = emitted'[w]
  BY <1>1, <1>4 DEF StageInv, SentIsEmitted
<1>9. SentIsEmitted'
  BY <1>4, <1>7, <1>8 DEF SentIsEmitted
<1>. QED
  BY <1>3, <1>5, <1>6, <1>9

LEMMA NextReports == StageInv /\ [Next]_vars => SentIsEmitted' /\ ForwardedTotalExact'
<1>. USE DEF inputVars, countVars, leaderVars, netVars, sendVars
<1>. SUFFICES ASSUME StageInv, [Next]_vars PROVE SentIsEmitted' /\ ForwardedTotalExact'
  OBVIOUS
<1>t. /\ TypeOK' /\ TypeOK /\ SharedFlux /\ toLeader \in [Workers -> Seq(LeaderMessage)]
  BY NextType DEF StageInv, DrainedInv, TotalsInv, ProtocolInv, TypeOK
<1>q. ASSUME UNCHANGED <<sent, emitted, out, post, totalSent>>,
             \A w \in Workers : \A i \in DOMAIN toLeader'[w] :
               \/ toLeader'[w][i].type # "POST_OK"
               \/ \E j \in DOMAIN toLeader[w] : toLeader'[w][i] = toLeader[w][j]
      PROVE  SentIsEmitted' /\ ForwardedTotalExact'
  <2>1. \A w \in post' : totalSent'[w] = emitted[w]
    BY <1>q DEF StageInv, SentIsEmitted
  <2>. QED
    BY <1>q, <2>1, ReportsKept
<1>u. ASSUME UNCHANGED <<sent, emitted, out, post, totalSent, toLeader>>
      PROVE  SentIsEmitted' /\ ForwardedTotalExact'
  BY <1>u, <1>q
<1>1. ASSUME NEW w \in Workers, NEW f \in Fluxes, InputThread(w, f)
      PROVE  SentIsEmitted' /\ ForwardedTotalExact'
  <2>1. ReceivePacket(w, f) \/ UNCHANGED <<sent, emitted, out, post, totalSent, toLeader>>
    BY <1>1 DEF InputThread, CountPacket, AdmitEof, DiscardEof, AddPrefix, Broadcast
  <2>. QED
    BY <1>t, <1>u, <2>1, ReceiveReports
<1>2. ASSUME NEW w \in Workers, NEW t \in Threads, Registration(w, t)
      PROVE  SentIsEmitted' /\ ForwardedTotalExact'
  BY <1>2, <1>u DEF Registration, AddCounter, AddTotal, CheckEofs
<1>3. \A f \in Fluxes : ~FinishAlone(f)
  BY <1>t DEF FinishAlone, SharedFlux
<1>4. ASSUME NEW t \in Threads, LeaderThread(t)
      PROVE  SentIsEmitted' /\ ForwardedTotalExact'
  BY <1>4, <1>u DEF LeaderThread, SendRequest, MarkRequestSent
<1>5. ASSUME NEW v \in Workers, NEW w \in Workers, FanoutMessage(v, w)
      PROVE  SentIsEmitted' /\ ForwardedTotalExact'
  <2>1. CASE HandleRequest(v, w)
    <3>1. UNCHANGED <<sent, emitted, out, post, totalSent>>
      BY <2>1 DEF HandleRequest
    <3>2. ASSUME NEW x \in Workers, NEW i \in DOMAIN toLeader'[x]
          PROVE  \/ toLeader'[x][i].type # "POST_OK"
                 \/ \E j \in DOMAIN toLeader[x] : toLeader'[x][i] = toLeader[x][j]
      <4>. DEFINE m == [type |-> "RESPONSE", counts |-> processed'[w]]
      <4>1. processed'[w] \in [Fluxes -> Count]
        BY <1>t DEF TypeOK
      <4>2. m \in LeaderMessage /\ m.type # "POST_OK"
        BY <4>1, MessageType
      <4>3. toLeader' = [toLeader EXCEPT ![w] = Append(@, m)]
        BY <2>1 DEF HandleRequest
      <4>. HIDE DEF m
      <4>4. \/ \E j \in DOMAIN toLeader[x] : toLeader'[x][i] = toLeader[x][j]
            \/ x = w /\ toLeader'[x][i] = m
        BY <1>t, <4>2, <4>3, AnswerElements
      <4>. QED
        BY <4>2, <4>4
    <3>. QED
      BY <1>q, <3>1, <3>2
  <2>2. CASE UNCHANGED <<sent, emitted, out, post, totalSent, toLeader>>
    BY <1>u, <2>2
  <2>3. HandleRequest(v, w) \/ HandleOk(v, w)
        \/ UNCHANGED <<sent, emitted, out, post, totalSent, toLeader>>
    BY <1>5 DEF FanoutMessage, HandleEofMessage, HandleFail, IgnoreFanout
  <2>. QED
    BY <1>t, <2>1, <2>2, <2>3, OkReports
<1>6. ASSUME NEW v \in Workers, WorkerMessage(v)
      PROVE  SentIsEmitted' /\ ForwardedTotalExact'
  <2>1. CASE Accumulate(v) \/ Disagree(v) \/ IgnoreWorker(v)
    <3>1. UNCHANGED <<sent, emitted, out, post, totalSent>>
      BY <2>1 DEF Accumulate, Disagree, IgnoreWorker
    <3>2. toLeader[v] # <<>> /\ ConsumeWorker(v)
      BY <2>1 DEF Accumulate, Disagree, IgnoreWorker, Response, FromWorker
    <3>3. ASSUME NEW x \in Workers, NEW i \in DOMAIN toLeader'[x]
          PROVE  \E j \in DOMAIN toLeader[x] : toLeader'[x][i] = toLeader[x][j]
      BY <1>t, <3>2, ConsumeWorkerElements
    <3>. QED
      BY <1>q, <3>1, <3>3
  <2>2. CASE CollectPostOk(v)
    <3>1. /\ UNCHANGED <<sent, emitted, out>> /\ post' = post \cup {v}
          /\ PostOk(v)
      BY <2>2 DEF CollectPostOk
    <3>2. /\ totalSent' = [totalSent EXCEPT ![v] = emitted[v]]
          /\ \A x \in Workers : \A i \in DOMAIN toLeader'[x] :
               \E j \in DOMAIN toLeader[x] : toLeader'[x][i] = toLeader[x][j]
      BY <3>1, PostOkHead
    <3>3. \A x \in post' : totalSent'[x] = emitted[x]
      BY <1>t, <3>1, <3>2 DEF TypeOK, StageInv, SentIsEmitted
    <3>. QED
      BY <3>1, <3>2, <3>3, ReportsKept
  <2>. QED
    BY <1>6, <1>t, <2>1, <2>2, AgreeReports, ForwardReports DEF WorkerMessage
<1>7. CASE Redeliver
  <2>1. UNCHANGED <<sent, emitted, out, post, totalSent>>
    BY <1>7 DEF Redeliver
  <2>2. \A x \in Workers : \A i \in DOMAIN toLeader'[x] :
          \E j \in DOMAIN toLeader[x] : toLeader'[x][i] = toLeader[x][j]
    BY <1>7, <1>t, RedeliverElements
  <2>. QED
    BY <1>q, <2>1, <2>2
<1>8. CASE Done \/ UNCHANGED vars
  BY <1>8, <1>u DEF Done, vars
<1>. QED
  BY <1>1, <1>2, <1>3, <1>4, <1>5, <1>6, <1>7, <1>8 DEF Next

LEMMA InitStage == SharedFlux /\ Init => StageInv
<1>. SUFFICES ASSUME SharedFlux, Init PROVE StageInv
  OBVIOUS
<1>1. SentIsEmitted
  BY DEF Init, SentIsEmitted
<1>2. ForwardedTotalExact
  BY DEF Init, ForwardedTotalExact
<1>. QED
  BY <1>1, <1>2, InitDrained DEF StageInv

LEMMA NextStage == StageInv /\ [Next]_vars => StageInv'
BY NextDrained, NextAfterAllData, NextReports DEF StageInv

\* The EOF for the next stage carries exactly what the workers have sent it, for
\* any number of workers that share one flux and of repeated control messages.
THEOREM ForwardedTotalExactHolds == SharedFlux /\ Spec => []ForwardedTotalExact
<1>1. StageInv => ForwardedTotalExact
  BY DEF StageInv
<1>. QED
  BY <1>1, InitStage, NextStage, PTL DEF Spec

-----------------------------------------------------------------------------
(***************************************************************************)
(* The refinement.                                                         *)
(***************************************************************************)
LEMMA InitImplements == SharedFlux /\ Init => Barrier!Init
<1>. SUFFICES ASSUME SharedFlux, Init PROVE Barrier!Init
  OBVIOUS
<1>1. Pending = Packets
  BY InitConserves
<1>2. Closed = {}
  BY DEF Init, Closed
<1>. QED
  BY <1>1, <1>2 DEF Init, Barrier!Init

\* A callback closes the worker.
LEMMA CallbackCloses ==
  ASSUME TypeOK, NEW w \in Workers, NEW k, RunCallback(w, k)
  PROVE  Closed' = Closed \cup {w}
<1>1. ran' = [ran EXCEPT ![w] = ran[w] + 1] /\ ran \in [Workers -> Nat]
  BY DEF RunCallback, TypeOK
<1>2. \A x \in Workers : ran'[x] > 0 <=> ran[x] > 0 \/ x = w
  BY <1>1
<1>. QED
  BY <1>2 DEF Closed

\* Each step of the controllers is a step of the barrier, or none.
LEMMA NextImplements == StageInv /\ [Next]_vars => [Barrier!Next]_(Barrier!vars)
<1>. USE DEF inputVars, countVars, leaderVars, netVars, sendVars
<1>. SUFFICES ASSUME StageInv, [Next]_vars PROVE [Barrier!Next]_(Barrier!vars)
  OBVIOUS
<1>t. TypeOK' /\ TypeOK /\ SharedFlux /\ ProtocolInv /\ DrainedInv /\ Leader \in Workers
  BY NextType, WorkersFinite DEF StageInv, DrainedInv, TotalsInv, ProtocolInv
<1>c. UNCHANGED ran => UNCHANGED Closed
  BY DEF Closed
<1>s. ASSUME UNCHANGED <<ran, emitted, out>>, UNCHANGED Pending
      PROVE  [Barrier!Next]_(Barrier!vars)
  BY <1>s, <1>c DEF Barrier!vars
<1>1. ASSUME NEW w \in Workers, NEW f \in Fluxes, ReceivePacket(w, f)
      PROVE  [Barrier!Next]_(Barrier!vars)
  <2>1. Pending' = Pending /\ Pending > 0
    BY <1>1, <1>t, ReceivePending
  <2>2. /\ \E k \in PacketOutputs : emitted' = [emitted EXCEPT ![w] = @ + k]
        /\ UNCHANGED <<ran, out>>
    BY <1>1 DEF ReceivePacket
  <2>3. Barrier!Emit(w)
    BY <1>c, <2>1, <2>2 DEF Barrier!Emit
  <2>. QED
    BY <2>3 DEF Barrier!Next
<1>2. ASSUME NEW w \in Workers, NEW f \in Fluxes, CountPacket(w, f)
      PROVE  [Barrier!Next]_(Barrier!vars)
  <2>1. Pending' = Pending - 1 /\ Pending > 0
    BY <1>2, <1>t, CountPending
  <2>2. UNCHANGED <<emitted, ran, out>>
    BY <1>2 DEF CountPacket
  <2>3. Barrier!Complete
    BY <1>c, <2>1, <2>2 DEF Barrier!Complete
  <2>. QED
    BY <2>3 DEF Barrier!Next
<1>3. CASE Next /\ \A w \in Workers, f \in Fluxes : ~MovesPackets(w, f)
  <2>p. Pending' = Pending
    BY <1>3, <1>t, OtherStepPending
  <2>k. ASSUME NEW w \in Workers, NEW k \in CallbackOutputs, RunCallback(w, k),
               Pending = 0, ran[w] = 0, UNCHANGED out
        PROVE  [Barrier!Next]_(Barrier!vars)
    <3>1. Closed' = Closed \cup {w} /\ w \notin Closed
      BY <1>t, <2>k, CallbackCloses DEF Closed
    <3>2. emitted' = [emitted EXCEPT ![w] = @ + k]
      BY <2>k DEF RunCallback
    <3>3. Barrier!PostProcess(w)
      BY <2>p, <2>k, <3>1, <3>2 DEF Barrier!PostProcess
    <3>. QED
      BY <3>3 DEF Barrier!Next
  <2>1. ASSUME NEW v \in Workers, Agree(v) PROVE [Barrier!Next]_(Barrier!vars)
    <3>1. Pending = 0 /\ state[Leader] = REQUEST_SENT
      BY <1>t, <2>1, AgreeDrained
    <3>2. ran[Leader] = 0
      BY <1>t, <3>1, NobodyRan DEF REQUEST_SENT, ACHIEVED
    <3>3. UNCHANGED out /\ \E k \in CallbackOutputs : RunCallback(Leader, k)
      BY <2>1 DEF Agree
    <3>. QED
      BY <1>t, <2>k, <3>1, <3>2, <3>3
  <2>2. ASSUME NEW v \in Workers, NEW w \in Workers, HandleOk(v, w)
        PROVE  [Barrier!Next]_(Barrier!vars)
    <3>1. ran[Leader] = 1 /\ state[w] = RESPONSE_SENT
      BY <1>t, <2>2, OkAchieved
    <3>2. Pending = 0
      BY <1>t, <3>1 DEF StageInv, PostprocessAfterAllData
    <3>3. ran[w] = 0
      BY <1>t, <3>1 DEF ProtocolInv, RanIsAchieved, RESPONSE_SENT, ACHIEVED
    <3>4. UNCHANGED out /\ \E k \in CallbackOutputs : RunCallback(w, k)
      BY <2>2 DEF HandleOk
    <3>. QED
      BY <2>k, <3>2, <3>3, <3>4
  <2>3. ASSUME NEW v \in Workers, ForwardEof(v) PROVE [Barrier!Next]_(Barrier!vars)
    <3>1. out = <<>> /\ out' = <<Tally(emitted)>>
      BY <1>t, <2>3, ForwardReports
    <3>2. UNCHANGED <<emitted, ran>>
      BY <2>3 DEF ForwardEof
    <3>3. Closed = Workers
      <4>1. ProtocolInv'
        BY <1>t, NextSafe
      <4>2. Len(out') = 1
        BY <3>1
      <4>3. \A w \in Workers : state'[w] >= ACHIEVED
        BY <4>1, <4>2 DEF ProtocolInv, OutIsFinished, PostIsAchieved
      <4>4. \A w \in Workers : ran[w] = 1
        BY <3>2, <4>1, <4>3 DEF ProtocolInv, RanIsAchieved
      <4>. QED
        BY <4>4 DEF Closed
    <3>4. Barrier!Tally(emitted) = Tally(emitted)
      BY DEF Barrier!Tally, Barrier!Units, Barrier!Cardinality, Tally, Units, Cardinality
    <3>5. Barrier!Announce
      BY <1>c, <2>p, <3>1, <3>2, <3>3, <3>4 DEF Barrier!Announce
    <3>. QED
      BY <3>5 DEF Barrier!Next
  <2>4. \A w \in Workers, f \in Fluxes : ~ReceivePacket(w, f)
    BY <1>3 DEF MovesPackets
  <2>5. CASE UNCHANGED <<sent, emitted, ran, out>>
    BY <1>s, <2>p, <2>5
  <2>. QED
    BY <1>3, <1>t, <2>1, <2>2, <2>3, <2>4, <2>5, StepKinds
<1>4. CASE UNCHANGED vars
  <2>1. Pending' = Pending
    BY <1>4, SamePending DEF vars
  <2>. QED
    BY <1>4, <1>s, <2>1 DEF vars
<1>. QED
  BY <1>1, <1>2, <1>3, <1>4 DEF MovesPackets

\* Every step of the controllers of a stage of several workers that share one
\* flux is a step of the abstract barrier or changes nothing of it: workers close
\* only when no packet is pending, and the end is announced once, when all have
\* closed, with the number of packets emitted.
THEOREM StageImplementsBarrier == SharedFlux /\ Spec => ImplementsBarrier
<1>1. SharedFlux /\ Init => StageInv /\ Barrier!Init
  BY InitStage, InitImplements
<1>2. StageInv /\ [Next]_vars => StageInv' /\ [Barrier!Next]_(Barrier!vars)
  BY NextStage, NextImplements
<1>. QED
  BY <1>1, <1>2, PTL DEF Spec, ImplementsBarrier, Barrier!Spec

-----------------------------------------------------------------------------
(***************************************************************************)
(* What a finished client leaves behind.  One EOF is registered at a time  *)
(* and nothing is said of it before it is.                                 *)
(***************************************************************************)
\* A single copy of the EOF reaches the stage.
OneEof == SharedFlux /\ EofToAll = {}

Registering == {w \in Workers : \E f \in Fluxes : pc[w][f] \in {"prefix", "counter", "total"}}

\* Before the EOF is broadcast no control message exists, no state has passed
\* ACTIVE, and only the worker that registers the EOF knows it.
NothingSaid ==
  eofQueue # {} \/ Registering # {} =>
    /\ \A w \in Workers :
         /\ state[w] \in {INACTIVE, ACTIVE} /\ pc[w][Control] = "idle"
         /\ toLeader[w] = <<>> /\ \A v \in Workers : fanout[v][w] = <<>>
         /\ \A f \in Fluxes : pc[w][f] \in {"idle", "packet", "prefix", "counter", "total"}
         /\ w \notin Registering => eofs[w] = {}
    /\ \A v, w \in Registering : v = w
    /\ eofQueue # {} => Registering = {}

\* The control thread registers nothing once the worker has finished.
ControlDone ==
  \A w \in Workers : state[w] = FINISH_ENABLED => pc[w][Control] \notin {"counter", "total"}

EndInv == StageInv /\ OneEof /\ NothingSaid /\ ControlDone /\ FinishedIsClean

\* Once the EOF is broadcast it is not registered from an input queue again.
LEMMA SaidOnce ==
  ASSUME eofQueue = {}, Registering = {}, eofQueue' = {},
         \A w \in Workers, f \in Fluxes : pc'[w][f] \in {"prefix", "counter", "total"} =>
           pc[w][f] \in {"prefix", "counter", "total"}
  PROVE  NothingSaid'
<1>1. Registering' = {}
  BY DEF Registering
<1>. QED
  BY <1>1 DEF NothingSaid

\* The stage has one queue, so the EOF that is taken leaves none.
LEMMA OneEofQueue ==
  ASSUME EndInv, NEW w \in Workers, NEW f \in Fluxes, TakeEof(w, f)
  PROVE  eofQueue # {} /\ eofQueue' = {}
<1>1. PICK a \in Fluxes : Fluxes = {a}
  BY DEF EndInv, OneEof, SharedFlux
<1>2. \A x \in Workers, g \in Fluxes : EofQueue(x, g) = <<a, Workers>>
  BY <1>1 DEF EndInv, OneEof, EofQueue
<1>3. EofQueues \subseteq {EofQueue(w, f)}
  BY <1>2 DEF EofQueues
<1>4. eofQueue \subseteq EofQueues
  BY DEF EndInv, StageInv, DrainedInv, TotalsInv, ProtocolInv, TypeOK
<1>. QED
  BY <1>3, <1>4 DEF TakeEof

LEMMA InputThreadSaid ==
  ASSUME EndInv, TypeOK', NEW w \in Workers, NEW f \in Fluxes, InputThread(w, f)
  PROVE  NothingSaid'
<1>. USE DEF inputVars, countVars, leaderVars, netVars, sendVars
<1>f. f \in Threads /\ f # Control /\ Control \in Threads
  BY ConsensusAssumption DEF Threads
<1>o. Fluxes = {f}
  BY DEF EndInv, OneEof, SharedFlux
<1>t. pc \in [Workers -> [Threads -> PC]] /\ state \in [Workers -> EOFStates]
  BY DEF EndInv, StageInv, DrainedInv, TotalsInv, ProtocolInv, TypeOK
<1>n. NothingSaid
  BY DEF EndInv
<1>r. Registering = {x \in Workers : pc[x][f] \in {"prefix", "counter", "total"}}
  BY <1>o DEF Registering
<1>q. Registering' = {x \in Workers : pc'[x][f] \in {"prefix", "counter", "total"}}
  BY <1>o DEF Registering
<1>1. CASE ReceivePacket(w, f) \/ CountPacket(w, f)
  <2>1. PICK c \in {"packet", "idle"} : pc' = [pc EXCEPT ![w][f] = c]
    BY <1>1 DEF ReceivePacket, CountPacket
  <2>2. UNCHANGED <<eofQueue, state, toLeader, fanout, eofs>> /\ pc[w][f] \in {"packet", "idle"}
    BY <1>1 DEF ReceivePacket, CountPacket
  <2>3. Registering' = Registering
    BY <1>f, <1>t, <1>r, <1>q, <2>1, <2>2
  <2>4. \A x \in Workers : /\ pc'[x][Control] = pc[x][Control]
                           /\ pc'[x][f] = pc[x][f] \/ pc'[x][f] \in {"packet", "idle"}
    BY <1>f, <1>t, <2>1
  <2>. QED
    BY <1>n, <1>o, <2>2, <2>3, <2>4 DEF NothingSaid
<1>2. CASE AdmitEof(w, f)
  <2>1. eofQueue # {} /\ eofQueue' = {} /\ pc' = [pc EXCEPT ![w][f] = "prefix"]
    BY <1>2, OneEofQueue DEF AdmitEof
  <2>2. Registering' = {w}
    <3>1. Registering = {}
      BY <1>n, <2>1 DEF NothingSaid
    <3>. QED
      BY <1>f, <1>t, <1>r, <1>q, <2>1, <3>1
  <2>3. \A x \in Workers : /\ pc'[x][Control] = pc[x][Control]
                           /\ pc'[x][f] = pc[x][f] \/ pc'[x][f] = "prefix"
    BY <1>f, <1>t, <2>1
  <2>4. \A x \in Workers : state'[x] \in {INACTIVE, ACTIVE}
    <3>1. \A x \in Workers : state[x] \in {INACTIVE, ACTIVE}
      BY <1>n, <2>1 DEF NothingSaid
    <3>2. state' = [state EXCEPT ![w] = Advance(state[w], ACTIVE)]
      BY <1>2 DEF AdmitEof
    <3>3. \A s \in {INACTIVE, ACTIVE} : Advance(s, ACTIVE) \in {INACTIVE, ACTIVE}
      BY DEF Advance
    <3>. QED
      BY <1>t, <3>1, <3>2, <3>3
  <2>5. UNCHANGED <<toLeader, fanout, eofs>>
    BY <1>2 DEF AdmitEof
  <2>6. \A x \in Workers : /\ pc[x][Control] = "idle"
                           /\ toLeader[x] = <<>> /\ \A v \in Workers : fanout[v][x] = <<>>
                           /\ pc[x][f] \in {"idle", "packet", "prefix", "counter", "total"}
                           /\ eofs[x] = {}
    BY <1>n, <2>1 DEF NothingSaid
  <2>. QED
    BY <1>o, <2>1, <2>2, <2>3, <2>4, <2>5, <2>6 DEF NothingSaid
<1>3. CASE DiscardEof(w, f)
  <2>1. eofQueue # {} /\ eofQueue' = {} /\ UNCHANGED pc
    BY <1>3, OneEofQueue DEF DiscardEof
  <2>2. Registering = {}
    BY <1>n, <2>1 DEF NothingSaid
  <2>3. Registering' = {}
    BY <2>1, <2>2 DEF Registering
  <2>. QED
    BY <2>1, <2>3 DEF NothingSaid
<1>4. CASE AddPrefix(w, f)
  <2>1. pc[w][f] = "prefix" /\ pc' = [pc EXCEPT ![w][f] = "counter"]
    BY <1>4 DEF AddPrefix
  <2>2. w \in Registering /\ Registering' = Registering
    BY <1>f, <1>t, <1>r, <1>q, <2>1
  <2>3. UNCHANGED <<eofQueue, state, toLeader, fanout>> /\ eofs' = [eofs EXCEPT ![w] = @ \cup {f}]
    BY <1>4 DEF AddPrefix
  <2>4. \A x \in Workers : /\ pc'[x][Control] = pc[x][Control]
                           /\ pc'[x][f] = pc[x][f] \/ pc'[x][f] = "counter"
                           /\ x # w => eofs'[x] = eofs[x]
    BY <1>f, <1>t, <2>1, <2>3
  <2>. QED
    BY <1>n, <1>o, <2>2, <2>3, <2>4 DEF NothingSaid
<1>5. CASE Broadcast(w, f)
  <2>1. pc[w][f] = "broadcast" /\ pc' = [pc EXCEPT ![w][f] = "check"] /\ UNCHANGED eofQueue
    BY <1>5 DEF Broadcast
  <2>2. eofQueue = {} /\ Registering = {}
    BY <1>n, <2>1 DEF NothingSaid
  <2>3. \A x \in Workers, g \in Fluxes : pc'[x][g] \in {"prefix", "counter", "total"} =>
          pc[x][g] \in {"prefix", "counter", "total"}
    BY <1>f, <1>o, <1>t, <2>1
  <2>. QED
    BY <2>1, <2>2, <2>3, SaidOnce
<1>. QED
  BY <1>1, <1>2, <1>3, <1>4, <1>5 DEF InputThread

LEMMA RegistrationSaid ==
  ASSUME EndInv, TypeOK', NEW w \in Workers, NEW t \in Threads, Registration(w, t)
  PROVE  NothingSaid'
<1>. USE DEF inputVars, countVars, leaderVars, netVars, sendVars
<1>t. pc \in [Workers -> [Threads -> PC]] /\ Control \in Threads
  BY DEF EndInv, StageInv, DrainedInv, TotalsInv, ProtocolInv, TypeOK, Threads
<1>n. NothingSaid
  BY DEF EndInv
<1>c. Control \notin Fluxes /\ Fluxes \subseteq Threads
  BY ConsensusAssumption DEF Threads
<1>u. UNCHANGED <<eofQueue, toLeader, fanout, eofs>>
  BY DEF Registration, AddCounter, AddTotal, CheckEofs
<1>1. CASE t \in Fluxes /\ AddCounter(w, t)
  <2>1. pc[w][t] = "counter" /\ pc' = [pc EXCEPT ![w][t] = "total"] /\ UNCHANGED state
    BY <1>1 DEF AddCounter
  <2>2. Registering' = Registering /\ w \in Registering
    BY <1>1, <1>c, <1>t, <2>1 DEF Registering
  <2>3. \A x \in Workers : /\ pc'[x][Control] = pc[x][Control]
                           /\ \A f \in Fluxes : pc'[x][f] = pc[x][f] \/ pc'[x][f] = "total"
    BY <1>1, <1>c, <1>t, <2>1
  <2>. QED
    BY <1>n, <1>u, <2>1, <2>2, <2>3 DEF NothingSaid
<1>2. CASE t \in Fluxes /\ AddTotal(w, t)
  <2>1. pc[w][t] = "total" /\ \E c \in {"check", "broadcast"} : pc' = [pc EXCEPT ![w][t] = c]
    BY <1>2 DEF AddTotal
  <2>2. Fluxes = {t}
    BY <1>2 DEF EndInv, OneEof, SharedFlux
  <2>3. w \in Registering /\ eofQueue = {} /\ \A x \in Registering : x = w
    BY <1>2, <1>n, <2>1 DEF NothingSaid, Registering
  <2>4. Registering' = {}
    BY <1>c, <1>t, <2>1, <2>2, <2>3 DEF Registering
  <2>. QED
    BY <1>u, <2>3, <2>4 DEF NothingSaid
<1>3. CASE t = Control \/ CheckEofs(w, t)
  <2>1. pc[w][t] \in {"counter", "total", "check"} /\ pc'[w][t] \in PC
        /\ \E c \in PC : pc' = [pc EXCEPT ![w][t] = c]
    BY <1>t DEF Registration, AddCounter, AddTotal, CheckEofs, PC
  <2>2. eofQueue = {} /\ Registering = {}
    <3>1. CASE t = Control
      BY <1>n, <2>1, <3>1 DEF NothingSaid
    <3>2. CASE t \in Fluxes /\ CheckEofs(w, t)
      <4>1. pc[w][t] = "check"
        BY <3>2 DEF CheckEofs
      <4>. QED
        BY <1>n, <3>2, <4>1 DEF NothingSaid
    <3>. QED
      BY <1>3, <3>1, <3>2 DEF Threads
  <2>3. \A x \in Workers, f \in Fluxes : pc'[x][f] \in {"prefix", "counter", "total"} =>
          pc[x][f] \in {"prefix", "counter", "total"}
    <3>1. CASE t = Control
      BY <1>c, <1>t, <2>1, <3>1
    <3>2. CASE CheckEofs(w, t)
      <4>1. pc' = [pc EXCEPT ![w][t] = IF Starts(w) /\ w = Leader THEN "start" ELSE "idle"]
        BY <3>2 DEF CheckEofs
      <4>2. \E c \in {"start", "idle"} : pc' = [pc EXCEPT ![w][t] = c]
        BY <4>1
      <4>. QED
        BY <1>c, <1>t, <4>2
    <3>. QED
      BY <1>3, <3>1, <3>2
  <2>. QED
    BY <1>u, <2>2, <2>3, SaidOnce
<1>. QED
  BY <1>1, <1>2, <1>3 DEF Registration, Threads

\* Whoever starts a round, or receives a control message, was told of the EOF.
LEMMA MessagesSaid ==
  ASSUME EndInv, TypeOK', Next,
         \A w \in Workers, f \in Fluxes : ~InputThread(w, f),
         \A w \in Workers, t \in Threads : ~Registration(w, t)
  PROVE  NothingSaid'
<1>. USE DEF inputVars, countVars, leaderVars, netVars, sendVars
<1>t. /\ TypeOK /\ Leader \in Workers /\ Control \in Threads
      /\ pc \in [Workers -> [Threads -> PC]]
  BY WorkersFinite DEF EndInv, StageInv, DrainedInv, TotalsInv, ProtocolInv, TypeOK, Threads
<1>n. NothingSaid
  BY DEF EndInv
<1>c. Control \notin Fluxes /\ Fluxes \subseteq Threads
  BY ConsensusAssumption DEF Threads
<1>1. ASSUME NEW t \in Threads, LeaderThread(t) PROVE NothingSaid'
  <2>1. /\ pc[Leader][t] \in {"start", "mark"} /\ UNCHANGED eofQueue
        /\ \E c \in {"mark", "idle"} : pc' = [pc EXCEPT ![Leader][t] = c]
    BY <1>1 DEF LeaderThread, SendRequest, MarkRequestSent
  <2>2. eofQueue = {} /\ Registering = {}
    BY <1>n, <1>t, <2>1 DEF NothingSaid, Threads
  <2>3. \A x \in Workers, f \in Fluxes : pc'[x][f] \in {"prefix", "counter", "total"} =>
          pc[x][f] \in {"prefix", "counter", "total"}
    BY <1>c, <1>t, <2>1
  <2>. QED
    BY <2>1, <2>2, <2>3, SaidOnce
<1>2. ASSUME NEW v \in Workers, NEW w \in Workers, FanoutMessage(v, w) PROVE NothingSaid'
  <2>1. /\ fanout[v][w] # <<>> /\ UNCHANGED eofQueue
        /\ UNCHANGED pc \/ pc' = [pc EXCEPT ![w][Control] = "counter"]
    BY <1>2 DEF FanoutMessage, HandleEofMessage, HandleRequest, HandleOk, HandleFail, IgnoreFanout,
                From
  <2>2. eofQueue = {} /\ Registering = {}
    BY <1>n, <2>1 DEF NothingSaid
  <2>3. \A x \in Workers, f \in Fluxes : pc'[x][f] = pc[x][f]
    BY <1>c, <1>t, <2>1
  <2>. QED
    BY <2>1, <2>2, <2>3, SaidOnce
<1>3. ASSUME NEW v \in Workers, WorkerMessage(v) PROVE NothingSaid'
  <2>1. /\ toLeader[v] # <<>> /\ UNCHANGED eofQueue
        /\ UNCHANGED pc \/ pc' = [pc EXCEPT ![Leader][Control] = "start"]
    BY <1>3 DEF WorkerMessage, Accumulate, Agree, Disagree, CollectPostOk, ForwardEof, IgnoreWorker,
                Response, PostOk, FromWorker
  <2>2. eofQueue = {} /\ Registering = {}
    BY <1>n, <2>1 DEF NothingSaid
  <2>3. \A x \in Workers, f \in Fluxes : pc'[x][f] = pc[x][f]
    BY <1>c, <1>t, <2>1
  <2>. QED
    BY <2>1, <2>2, <2>3, SaidOnce
<1>4. CASE Redeliver
  <2>1. UNCHANGED <<eofQueue, pc>>
    BY <1>4 DEF Redeliver
  <2>2. PICK v \in Workers :
          (\E k \in DOMAIN toLeader[v] : TRUE) \/ \E w \in Workers : \E k \in DOMAIN fanout[v][w] : TRUE
    BY <1>4 DEF Redeliver
  <2>3. toLeader[v] # <<>> \/ \E w \in Workers : fanout[v][w] # <<>>
    BY <2>2
  <2>4. eofQueue = {} /\ Registering = {}
    BY <1>n, <2>3 DEF NothingSaid
  <2>. QED
    BY <2>1, <2>4, SaidOnce
<1>5. CASE Done
  BY <1>5, <1>n DEF Done, vars, NothingSaid, Registering
<1>6. \A f \in Fluxes : ~FinishAlone(f)
  BY DEF FinishAlone, EndInv, OneEof, SharedFlux
<1>. QED
  BY <1>1, <1>2, <1>3, <1>4, <1>5, <1>6 DEF Next

\* A worker that has finished holds nothing and registers nothing.
CleanAt(w) ==
  /\ pc[w][Control] \notin {"counter", "total"}
  /\ eofs[w] = {} /\ totals[w] = NoCounts
  /\ \A f \in Fluxes : processed[w][f] \in {Absent, 0}

\* Once a worker has finished, its input threads register and count nothing.
LEMMA FinishedRests ==
  ASSUME EndInv, NEW w \in Workers, state[w] = FINISH_ENABLED, NEW f \in Fluxes
  PROVE  pc[w][f] \notin {"packet", "prefix", "counter", "total"}
<1>t. TypeOK /\ ProtocolInv /\ PostprocessAfterAllData /\ NothingSaid
  BY DEF EndInv, StageInv, DrainedInv, TotalsInv, ProtocolInv
<1>1. pc[w][f] \notin {"prefix", "counter", "total"}
  BY <1>t DEF NothingSaid, Registering, INACTIVE, ACTIVE, FINISH_ENABLED
<1>2. ran[w] = 1
  BY <1>t DEF ProtocolInv, RanIsAchieved, FINISH_ENABLED, ACHIEVED
<1>3. Pending = 0
  BY <1>t, <1>2 DEF PostprocessAfterAllData
<1>4. IsFiniteSet(InFlight) /\ Cardinality(InFlight) \in Nat /\ Tally(data) \in Nat
  BY <1>t, PendingType
<1>5. InFlight = {}
  BY <1>3, <1>4, FS_EmptySet DEF Pending
<1>6. pc[w][f] # "packet"
  <2>1. <<w, f>> \in Workers \X Fluxes /\ <<w, f>>[1] = w /\ <<w, f>>[2] = f
    OBVIOUS
  <2>. QED
    BY <1>5, <2>1 DEF InFlight
<1>. QED
  BY <1>1, <1>6

LEMMA InputThreadEnd ==
  ASSUME EndInv, NEW x \in Workers, state'[x] = FINISH_ENABLED,
         NEW w \in Workers, NEW f \in Fluxes, InputThread(w, f)
  PROVE  CleanAt(x)'
<1>. USE DEF inputVars, countVars, leaderVars, netVars, sendVars
<1>t. /\ pc \in [Workers -> [Threads -> PC]] /\ state \in [Workers -> EOFStates]
      /\ processed \in [Workers -> [Fluxes -> Count]] /\ eofs \in [Workers -> SUBSET Fluxes]
      /\ f # Control /\ Control \in Threads /\ f \in Threads
  BY ConsensusAssumption DEF EndInv, StageInv, DrainedInv, TotalsInv, ProtocolInv, TypeOK, Threads
<1>1. state[x] = FINISH_ENABLED
  <2>1. UNCHANGED state \/ state' = [state EXCEPT ![w] = Advance(state[w], ACTIVE)]
    BY DEF InputThread, ReceivePacket, CountPacket, AdmitEof, DiscardEof, AddPrefix, Broadcast
  <2>2. \A s \in EOFStates : Advance(s, ACTIVE) = FINISH_ENABLED => s = FINISH_ENABLED
    BY AdvanceBelow
  <2>. QED
    BY <1>t, <2>1, <2>2
<1>2. CleanAt(x)
  BY <1>1 DEF EndInv, ControlDone, FinishedIsClean, CleanAt
<1>3. pc[x][f] \notin {"packet", "prefix"}
  BY <1>1, FinishedRests
<1>4. pc'[x][Control] = pc[x][Control]
  <2>1. UNCHANGED pc \/ \E c \in PC : pc' = [pc EXCEPT ![w][f] = c]
    BY DEF InputThread, ReceivePacket, CountPacket, AdmitEof, DiscardEof, AddPrefix, Broadcast, PC
  <2>2. ASSUME NEW c \in PC, pc' = [pc EXCEPT ![w][f] = c]
        PROVE  pc'[x][Control] = pc[x][Control]
    BY <1>t, <2>2
  <2>. QED
    BY <2>1, <2>2
<1>5. UNCHANGED totals /\ (UNCHANGED processed \/ CountPacket(w, f))
  BY DEF InputThread, ReceivePacket, CountPacket, AdmitEof, DiscardEof, AddPrefix, Broadcast
<1>6. processed'[x] = processed[x]
  <2>1. CASE CountPacket(w, f)
    <3>1. w # x
      BY <1>3, <2>1 DEF CountPacket
    <3>2. processed' = [processed EXCEPT ![w][f] = PlusOne(@)]
      BY <2>1 DEF CountPacket
    <3>. QED
      BY <1>t, <3>1, <3>2
  <2>. QED
    BY <1>5, <2>1
<1>7. eofs'[x] = eofs[x]
  <2>1. CASE AddPrefix(w, f)
    <3>1. w # x
      BY <1>3, <2>1 DEF AddPrefix
    <3>2. eofs' = [eofs EXCEPT ![w] = @ \cup {f}]
      BY <2>1 DEF AddPrefix
    <3>. QED
      BY <1>t, <3>1, <3>2
  <2>2. CASE UNCHANGED eofs
    BY <2>2
  <2>. QED
    BY <2>1, <2>2 DEF InputThread, ReceivePacket, CountPacket, AdmitEof, DiscardEof, Broadcast
<1>. QED
  BY <1>2, <1>4, <1>5, <1>6, <1>7 DEF CleanAt

LEMMA RegistrationEnd ==
  ASSUME EndInv, NEW x \in Workers, state'[x] = FINISH_ENABLED,
         NEW w \in Workers, NEW t \in Threads, Registration(w, t)
  PROVE  CleanAt(x)'
<1>. USE DEF inputVars, countVars, leaderVars, netVars, sendVars
<1>t. /\ pc \in [Workers -> [Threads -> PC]] /\ state \in [Workers -> EOFStates]
      /\ processed \in [Workers -> [Fluxes -> Count]] /\ totals \in [Workers -> [Fluxes -> Count]]
      /\ Control \in Threads
  BY DEF EndInv, StageInv, DrainedInv, TotalsInv, ProtocolInv, TypeOK, Threads
<1>1. state[x] = FINISH_ENABLED
  <2>1. UNCHANGED state \/ state' = [state EXCEPT ![w] = PENDING_EOF]
        \/ state' = [state EXCEPT ![w] = @]
    BY DEF Registration, AddCounter, AddTotal, CheckEofs
  <2>. QED
    BY <1>t, <2>1 DEF PENDING_EOF, FINISH_ENABLED
<1>2. CleanAt(x)
  BY <1>1 DEF EndInv, ControlDone, FinishedIsClean, CleanAt
<1>3. pc[x][t] \notin {"counter", "total"}
  BY <1>1, <1>2, FinishedRests DEF CleanAt, Threads
<1>4. UNCHANGED eofs /\ \E c \in PC : pc' = [pc EXCEPT ![w][t] = c]
  BY DEF Registration, AddCounter, AddTotal, CheckEofs, PC
<1>5. /\ processed'[x] = processed[x] /\ totals'[x] = totals[x]
      /\ pc'[x][Control] \notin {"counter", "total"}
  <2>1. CASE w # x
    <3>1. processed'[x] = processed[x] /\ totals'[x] = totals[x]
      BY <1>t, <2>1 DEF Registration, AddCounter, AddTotal, CheckEofs
    <3>. QED
      BY <1>2, <1>4, <1>t, <2>1, <3>1 DEF CleanAt
  <2>2. CASE w = x
    <3>1. CheckEofs(w, t)
      BY <1>3, <2>2 DEF Registration, AddCounter, AddTotal
    <3>2. UNCHANGED <<processed, totals>> /\ \E c \in {"start", "idle"} : pc' = [pc EXCEPT ![w][t] = c]
      BY <3>1 DEF CheckEofs
    <3>. QED
      BY <1>2, <1>t, <3>2 DEF CleanAt
  <2>. QED
    BY <2>1, <2>2
<1>. QED
  BY <1>2, <1>4, <1>5 DEF CleanAt

LEMMA LeaderThreadEnd ==
  ASSUME EndInv, NEW x \in Workers, state'[x] = FINISH_ENABLED,
         NEW t \in Threads, LeaderThread(t)
  PROVE  CleanAt(x)'
<1>. USE DEF inputVars, countVars, leaderVars, netVars, sendVars
<1>t. /\ pc \in [Workers -> [Threads -> PC]] /\ state \in [Workers -> EOFStates]
      /\ Control \in Threads /\ Leader \in Workers
  BY WorkersFinite DEF EndInv, StageInv, DrainedInv, TotalsInv, ProtocolInv, TypeOK, Threads
<1>1. state[x] = FINISH_ENABLED
  <2>1. UNCHANGED state \/ state' = [state EXCEPT ![Leader] = Advance(state[Leader], REQUEST_SENT)]
    BY DEF LeaderThread, SendRequest, MarkRequestSent
  <2>2. \A s \in EOFStates : Advance(s, REQUEST_SENT) = FINISH_ENABLED => s = FINISH_ENABLED
    BY AdvanceBelow
  <2>. QED
    BY <1>t, <2>1, <2>2
<1>2. CleanAt(x)
  BY <1>1 DEF EndInv, ControlDone, FinishedIsClean, CleanAt
<1>3. UNCHANGED <<eofs, totals, processed>>
  BY DEF LeaderThread, SendRequest, MarkRequestSent
<1>4. pc'[x][Control] \notin {"counter", "total"}
  <2>1. \E c \in {"mark", "idle"} : pc' = [pc EXCEPT ![Leader][t] = c]
    BY DEF LeaderThread, SendRequest, MarkRequestSent
  <2>2. ASSUME NEW c \in {"mark", "idle"}, pc' = [pc EXCEPT ![Leader][t] = c]
        PROVE  pc'[x][Control] \notin {"counter", "total"}
    BY <1>2, <1>t, <2>2 DEF CleanAt
  <2>. QED
    BY <2>1, <2>2
<1>. QED
  BY <1>2, <1>3, <1>4 DEF CleanAt

\* A worker that is cleaned up has its control thread idle.
LEMMA Cleaned ==
  ASSUME TypeOK, NEW w \in Workers, ClearCounts(w), pc[w][Control] = "idle", UNCHANGED pc
  PROVE  CleanAt(w)'
BY DEF ClearCounts, CleanAt, NoCounts, TypeOK

LEMMA FanoutMessageEnd ==
  ASSUME EndInv, NEW x \in Workers, state'[x] = FINISH_ENABLED,
         NEW v \in Workers, NEW w \in Workers, FanoutMessage(v, w)
  PROVE  CleanAt(x)'
<1>. USE DEF inputVars, countVars, leaderVars, netVars, sendVars
<1>t. /\ TypeOK /\ state \in [Workers -> EOFStates]
      /\ processed \in [Workers -> [Fluxes -> Count]]
      /\ eofs \in [Workers -> SUBSET Fluxes] /\ totals \in [Workers -> [Fluxes -> Count]]
      /\ pc \in [Workers -> [Threads -> PC]] /\ Control \in Threads
  BY DEF EndInv, StageInv, DrainedInv, TotalsInv, ProtocolInv, TypeOK, Threads
<1>e. state[x] = FINISH_ENABLED => CleanAt(x)
  BY DEF EndInv, ControlDone, FinishedIsClean, CleanAt
<1>1. CASE HandleEofMessage(v, w)
  <2>1. state' = [state EXCEPT ![w] = Advance(state[w], ACTIVE)] /\ state[w] < ACHIEVED
    BY <1>1 DEF HandleEofMessage, CanReceiveInputEof
  <2>2. \A s \in EOFStates : Advance(s, ACTIVE) = FINISH_ENABLED => s = FINISH_ENABLED
    BY AdvanceBelow
  <2>3. state[x] = FINISH_ENABLED
    BY <1>t, <2>1, <2>2
  <2>4. x # w
    BY <2>1, <2>3 DEF ACHIEVED, FINISH_ENABLED
  <2>5. /\ eofs'[x] = eofs[x] /\ pc'[x] = pc[x] /\ UNCHANGED <<totals, processed>>
    BY <1>1, <1>t, <2>4 DEF HandleEofMessage
  <2>. QED
    BY <1>e, <2>3, <2>5 DEF CleanAt
<1>2. CASE HandleRequest(v, w)
  <2>1. state' = [state EXCEPT ![w] = Advance(Advance(state[w], REQUEST_SENT), RESPONSE_SENT)]
    BY <1>2 DEF HandleRequest
  <2>2. \A s \in EOFStates :
          Advance(Advance(s, REQUEST_SENT), RESPONSE_SENT) = FINISH_ENABLED => s = FINISH_ENABLED
    BY AdvanceBelow, AdvanceType DEF EOFStates, INACTIVE, REQUEST_SENT, RESPONSE_SENT, FINISH_ENABLED
  <2>3. state[x] = FINISH_ENABLED
    BY <1>t, <2>1, <2>2
  <2>4. UNCHANGED <<eofs, totals, pc>>
    BY <1>2 DEF HandleRequest
  <2>5. \A f \in Fluxes : processed'[x][f] \in {processed[x][f], 0}
    <3>1. processed' = [processed EXCEPT ![w] = WithKeys(processed[w], Head(fanout[v][w]).awaited)]
      BY <1>2 DEF HandleRequest
    <3>2. \A f \in Fluxes :
            WithKeys(processed[w], Head(fanout[v][w]).awaited)[f] \in {processed[w][f], 0}
      BY DEF WithKeys
    <3>. QED
      BY <1>t, <3>1, <3>2
  <2>. QED
    BY <1>e, <2>3, <2>4, <2>5 DEF CleanAt
<1>3. CASE HandleOk(v, w)
  <2>1. ClearCounts(w) /\ pc[w][Control] = "idle" /\ UNCHANGED pc
    BY <1>3 DEF HandleOk, From
  <2>2. CASE x = w
    BY <1>t, <2>1, <2>2, Cleaned
  <2>3. CASE x # w
    <3>1. state'[x] = state[x]
      BY <1>3, <1>t, <2>3 DEF HandleOk
    <3>2. eofs'[x] = eofs[x] /\ totals'[x] = totals[x] /\ processed'[x] = processed[x]
      BY <1>t, <2>1, <2>3 DEF ClearCounts
    <3>. QED
      BY <1>e, <2>1, <3>1, <3>2 DEF CleanAt
  <2>. QED
    BY <2>2, <2>3
<1>4. CASE HandleFail(v, w) \/ IgnoreFanout(v, w)
  <2>1. UNCHANGED state \/ state' = [state EXCEPT ![w] = Advance(state[w], PENDING_EOF)]
    BY <1>4 DEF HandleFail, IgnoreFanout
  <2>2. \A s \in EOFStates : Advance(s, PENDING_EOF) = FINISH_ENABLED => s = FINISH_ENABLED
    BY AdvanceBelow
  <2>3. state[x] = FINISH_ENABLED
    BY <1>t, <2>1, <2>2
  <2>4. UNCHANGED <<eofs, totals, processed, pc>>
    BY <1>4 DEF HandleFail, IgnoreFanout
  <2>. QED
    BY <1>e, <2>3, <2>4 DEF CleanAt
<1>. QED
  BY <1>1, <1>2, <1>3, <1>4 DEF FanoutMessage

LEMMA WorkerMessageEnd ==
  ASSUME EndInv, NEW x \in Workers, state'[x] = FINISH_ENABLED,
         NEW v \in Workers, WorkerMessage(v)
  PROVE  CleanAt(x)'
<1>. USE DEF inputVars, countVars, leaderVars, netVars, sendVars
<1>t. /\ TypeOK /\ state \in [Workers -> EOFStates]
      /\ processed \in [Workers -> [Fluxes -> Count]]
      /\ eofs \in [Workers -> SUBSET Fluxes] /\ totals \in [Workers -> [Fluxes -> Count]]
      /\ pc \in [Workers -> [Threads -> PC]] /\ Control \in Threads /\ Leader \in Workers
  BY WorkersFinite DEF EndInv, StageInv, DrainedInv, TotalsInv, ProtocolInv, TypeOK, Threads
<1>e. state[x] = FINISH_ENABLED => CleanAt(x)
  BY DEF EndInv, ControlDone, FinishedIsClean, CleanAt
<1>1. CASE ForwardEof(v)
  <2>1. ClearCounts(Leader) /\ pc[Leader][Control] = "idle" /\ UNCHANGED pc
    BY <1>1 DEF ForwardEof, PostOk, FromWorker
  <2>2. CASE x = Leader
    BY <1>t, <2>1, <2>2, Cleaned
  <2>3. CASE x # Leader
    <3>1. state'[x] = state[x]
      BY <1>1, <1>t, <2>3 DEF ForwardEof
    <3>2. eofs'[x] = eofs[x] /\ totals'[x] = totals[x] /\ processed'[x] = processed[x]
      BY <1>t, <2>1, <2>3 DEF ClearCounts
    <3>. QED
      BY <1>e, <2>1, <3>1, <3>2 DEF CleanAt
  <2>. QED
    BY <2>2, <2>3
<1>2. CASE Disagree(v)
  <2>1. state' = [state EXCEPT ![Leader] = Advance(Advance(state[Leader], RESPONSE_SENT), PENDING_EOF)]
    BY <1>2 DEF Disagree
  <2>2. \A s \in EOFStates :
          Advance(Advance(s, RESPONSE_SENT), PENDING_EOF) = FINISH_ENABLED => s = FINISH_ENABLED
    BY AdvanceBelow, AdvanceType DEF EOFStates, INACTIVE, PENDING_EOF, RESPONSE_SENT, FINISH_ENABLED
  <2>3. state[x] = FINISH_ENABLED
    BY <1>t, <2>1, <2>2
  <2>4. UNCHANGED <<eofs, totals, processed>> /\ pc' = [pc EXCEPT ![Leader][Control] = "start"]
    BY <1>2 DEF Disagree
  <2>5. pc'[x][Control] \in {pc[x][Control], "start"}
    BY <1>t, <2>4
  <2>. QED
    BY <1>e, <2>3, <2>4, <2>5 DEF CleanAt
<1>3. CASE Accumulate(v) \/ Agree(v) \/ CollectPostOk(v) \/ IgnoreWorker(v)
  <2>1. UNCHANGED state \/ state' = [state EXCEPT ![Leader] = ACHIEVED]
    BY <1>3 DEF Accumulate, Agree, CollectPostOk, IgnoreWorker
  <2>2. state[x] = FINISH_ENABLED
    BY <1>t, <2>1 DEF ACHIEVED, FINISH_ENABLED
  <2>3. UNCHANGED <<eofs, totals, processed, pc>>
    BY <1>3 DEF Accumulate, Agree, CollectPostOk, IgnoreWorker
  <2>. QED
    BY <1>e, <2>2, <2>3 DEF CleanAt
<1>. QED
  BY <1>1, <1>2, <1>3 DEF WorkerMessage

LEMMA InitEnd == OneEof /\ Init => EndInv
<1>. SUFFICES ASSUME OneEof, Init PROVE EndInv
  OBVIOUS
<1>1. StageInv
  BY InitStage DEF OneEof
<1>2. Control \in Threads /\ \A f \in Fluxes : f \in Threads
  BY DEF Threads
<1>3. Registering = {}
  BY <1>2 DEF Init, Registering
<1>4. NothingSaid
  BY <1>2, <1>3 DEF Init, NothingSaid
<1>5. ControlDone /\ FinishedIsClean
  BY DEF Init, ControlDone, FinishedIsClean, INACTIVE, FINISH_ENABLED
<1>. QED
  BY <1>1, <1>4, <1>5 DEF EndInv

LEMMA NextEnd == EndInv /\ [Next]_vars => EndInv'
<1>. SUFFICES ASSUME EndInv, [Next]_vars PROVE EndInv'
  OBVIOUS
<1>1. StageInv' /\ TypeOK'
  BY NextStage DEF EndInv, StageInv, DrainedInv, TotalsInv, ProtocolInv
<1>2. OneEof'
  BY DEF EndInv, OneEof, SharedFlux
<1>3. NothingSaid'
  <2>1. CASE UNCHANGED vars
    BY <2>1 DEF EndInv, vars, inputVars, countVars, netVars, NothingSaid, Registering
  <2>. QED
    BY <1>1, <2>1, InputThreadSaid, RegistrationSaid, MessagesSaid
<1>4. ASSUME NEW x \in Workers, state'[x] = FINISH_ENABLED PROVE CleanAt(x)'
  <2>1. CASE UNCHANGED <<eofs, totals, processed, state, pc>>
    BY <1>4, <2>1 DEF EndInv, ControlDone, FinishedIsClean, CleanAt
  <2>2. CASE Redeliver \/ Done \/ UNCHANGED vars
    BY <2>1, <2>2 DEF Redeliver, Done, vars, countVars
  <2>3. \A f \in Fluxes : ~FinishAlone(f)
    BY DEF FinishAlone, EndInv, OneEof, SharedFlux
  <2>. QED
    BY <1>4, <2>2, <2>3, InputThreadEnd, RegistrationEnd, LeaderThreadEnd, FanoutMessageEnd,
       WorkerMessageEnd DEF Next
<1>5. ControlDone' /\ FinishedIsClean'
  BY <1>4 DEF ControlDone, FinishedIsClean, CleanAt
<1>. QED
  BY <1>1, <1>2, <1>3, <1>5 DEF EndInv

\* A client that a worker has finished leaves no EOF, total or count of packets
\* behind: no input thread, and no control thread, is still registering it, for
\* any number of workers that share one flux and receive one copy of its EOF.
THEOREM FinishedIsCleanHolds == OneEof /\ Spec => []FinishedIsClean
<1>1. EndInv => FinishedIsClean
  BY DEF EndInv
<1>. QED
  BY <1>1, InitEnd, NextEnd, PTL DEF Spec
=============================================================================
