------------------------ MODULE GatewaySessionProofs ------------------------
(***************************************************************************)
(* Clients and gateway, for any number of clients, queries and slots, any  *)
(* script of records, window and size of batches, and any clients that     *)
(* vanish, processes that raise and restarts of the gateway.               *)
(***************************************************************************)
EXTENDS GatewaySession, SequenceTheorems, FiniteSetTheorems, TLAPS

UpMessages == {"ACCOUNT", "TRANSACTION", "EOF", "CLOSE"}

Ack == [kind |-> "ACK"]

ResultMessages == [kind : {"ROW", "EOF"}, query : Queries, client : Clients]

DownMessages == ResultMessages \cup {Ack}

ResultBatches == {b \in Seq(ResultMessages) : Len(b) \in 1..BatchMax}

Counters == [{"ACCOUNT", "TRANSACTION"} -> Nat]

ProgramTypes ==
    /\ phase \in [Clients -> {"new", "sending", "closing", "done", "failed", "gone"}]
    /\ sent \in [Clients -> 0..Len(Script)]
    /\ pendingAcks \in [Clients -> 0..Window - 1]
    /\ waiting \in [Clients -> 0..Window]
    /\ acks \in [Clients -> Nat]
    /\ received \in [Clients -> Seq(ResultMessages)]

LinkTypes ==
    /\ up \in [Clients -> Seq(UpMessages)]
    /\ down \in [Clients -> Seq(DownMessages)]

\* A client is in the pool once, and has a process only once it has connected.
PoolTypes ==
    /\ clientList \subseteq Clients
    /\ pool \in Seq(Clients)
    /\ handler \in [Clients -> {"none", "queued", "serving", "ended"}]
    /\ \A i, j \in 1..Len(pool) : pool[i] = pool[j] => i = j
    /\ \A c \in Clients : handler[c] = "queued" <=> \E i \in 1..Len(pool) : pool[i] = c
    /\ \A c \in Clients : phase[c] = "new" <=> handler[c] = "none"
    /\ IsFiniteSet(Serving) /\ Cardinality(Serving) <= Slots

SessionTypes ==
    /\ totals \in [Clients -> Counters]
    /\ forwarded \in [Clients -> Counters]
    /\ eofs \in [Clients -> Nat]
    /\ announced \in [Clients -> Seq(Nat)]

PipelineTypes ==
    /\ answers \in [Clients -> [Queries -> {"none", "row", "EOF"}]]
    /\ results \in Seq(ResultBatches)
    /\ next \in 1..BatchMax
    /\ results = <<>> => next = 1
    /\ results # <<>> => next <= Len(results[1])

SessionInv == ProgramTypes /\ LinkTypes /\ PoolTypes /\ SessionTypes /\ PipelineTypes

-----------------------------------------------------------------------------
LEMMA ScriptType ==
    /\ Len(Script) \in Nat
    /\ \A i \in 1..Len(Script) : Script[i] \in {"ACCOUNT", "TRANSACTION", "EOF"}
BY ScriptAssumption, LenProperties, ElementOfSeq

LEMMA BoundTypes ==
    Window \in Nat \ {0} /\ Slots \in Nat \ {0} /\ BatchMax \in Nat \ {0} /\ IsFiniteSet(Queries)
BY WindowAssumption, ResultAssumption

LEMMA InitSession == Init => SessionInv
<1> SUFFICES ASSUME Init
             PROVE  SessionInv
  OBVIOUS
<1>1. ProgramTypes
  BY ScriptType, BoundTypes, EmptySeq DEF Init, ProgramTypes
<1>2. LinkTypes
  BY EmptySeq DEF Init, LinkTypes
<1>3. PoolTypes
  <2>1. pool = <<>> /\ Len(pool) = 0 /\ pool \in Seq(Clients)
    BY EmptySeq DEF Init
  <2>2. Serving = {}
    BY DEF Init, Serving
  <2>3. IsFiniteSet(Serving) /\ Cardinality(Serving) <= Slots
    BY <2>2, FS_EmptySet, BoundTypes
  <2>4. \A i : i \notin 1..Len(pool)
    BY <2>1
  <2>. QED
    BY <2>1, <2>3, <2>4 DEF Init, PoolTypes
<1>4. SessionTypes
  BY EmptySeq DEF Init, SessionTypes, NoPackets, Counters
<1>5. PipelineTypes
  BY EmptySeq, BoundTypes DEF Init, PipelineTypes
<1>. QED
  BY <1>1, <1>2, <1>3, <1>4, <1>5 DEF SessionInv

(* What a step leaves alone keeps its types.                                 *)
LEMMA StayProgram ==
    ASSUME ProgramTypes, UNCHANGED <<program, acks, received>> PROVE ProgramTypes'
BY DEF program, ProgramTypes

LEMMA StayLink == ASSUME LinkTypes, UNCHANGED <<up, down>> PROVE LinkTypes'
BY DEF LinkTypes

LEMMA StayPool ==
    ASSUME PoolTypes, UNCHANGED <<clientList, pool, handler>>,
           \A c \in Clients : phase'[c] = "new" <=> phase[c] = "new"
    PROVE  PoolTypes'
<1>1. Serving' = Serving
  BY DEF Serving
<1>. QED
  BY <1>1 DEF PoolTypes

LEMMA StaySession == ASSUME SessionTypes, UNCHANGED session PROVE SessionTypes'
BY DEF session, SessionTypes

LEMMA StayPipeline == ASSUME PipelineTypes, UNCHANGED pipeline PROVE PipelineTypes'
BY DEF pipeline, PipelineTypes

LEMMA ToGatewayLink ==
    ASSUME LinkTypes, NEW c \in Clients, NEW msg \in UpMessages, ToGateway(c, msg), UNCHANGED down
    PROVE  LinkTypes'
<1>1. up[c] \in Seq(UpMessages)
  BY DEF LinkTypes
<1>2. Append(up[c], msg) \in Seq(UpMessages)
  BY <1>1, AppendProperties
<1>. QED
  BY <1>2 DEF LinkTypes, ToGateway

LEMMA ToClientType ==
    ASSUME LinkTypes, NEW c \in Clients, NEW msg \in DownMessages, ToClient(c, msg)
    PROVE  down' \in [Clients -> Seq(DownMessages)]
<1>1. down[c] \in Seq(DownMessages) /\ down \in [Clients -> Seq(DownMessages)]
  BY DEF LinkTypes
<1>2. Append(down[c], msg) \in Seq(DownMessages)
  BY <1>1, AppendProperties
<1>. QED
  BY <1>1, <1>2 DEF ToClient

-----------------------------------------------------------------------------
(* The steps of a client.                                                    *)
LEMMA ConnectSession ==
    ASSUME SessionInv, NEW c \in Clients, Connect(c)
    PROVE  SessionInv'
<1>1. /\ phase[c] = "new" /\ phase' = [phase EXCEPT ![c] = "sending"]
      /\ clientList' = clientList \cup {c} /\ pool' = Append(pool, c)
      /\ handler' = [handler EXCEPT ![c] = "queued"]
      /\ UNCHANGED <<sent, pendingAcks, waiting, acks, received, up, down, session, pipeline>>
  BY DEF Connect
<1>2. ProgramTypes'
  BY <1>1 DEF SessionInv, ProgramTypes
<1>3. PoolTypes'
  <2>1. /\ pool \in Seq(Clients) /\ Len(pool) \in Nat
        /\ handler \in [Clients -> {"none", "queued", "serving", "ended"}]
        /\ phase \in [Clients -> {"new", "sending", "closing", "done", "failed", "gone"}]
    BY LenProperties DEF SessionInv, PoolTypes, ProgramTypes
  <2>2. handler[c] = "none" /\ \A i \in 1..Len(pool) : pool[i] # c
    BY <1>1 DEF SessionInv, PoolTypes
  <2>3. /\ pool' \in Seq(Clients) /\ Len(pool') = Len(pool) + 1
        /\ \A i \in 1..Len(pool) : pool'[i] = pool[i]
        /\ pool'[Len(pool) + 1] = c
    BY <1>1, <2>1, AppendProperties
  <2>4. \A i, j \in 1..Len(pool') : pool'[i] = pool'[j] => i = j
    <3>1. \A i, j \in 1..Len(pool) : pool[i] = pool[j] => i = j
      BY DEF SessionInv, PoolTypes
    <3>2. \A i \in 1..Len(pool') : i \in 1..Len(pool) \/ i = Len(pool) + 1
      BY <2>1, <2>3
    <3>. QED
      BY <2>2, <2>3, <3>1, <3>2
  <2>5. \A d \in Clients : handler'[d] = "queued" <=> \E i \in 1..Len(pool') : pool'[i] = d
    <3>1. \A d \in Clients : handler[d] = "queued" <=> \E i \in 1..Len(pool) : pool[i] = d
      BY DEF SessionInv, PoolTypes
    <3>2. \A i \in 1..Len(pool') : i \in 1..Len(pool) \/ i = Len(pool) + 1
      BY <2>1, <2>3
    <3>3. /\ \A i \in 1..Len(pool) : i \in 1..Len(pool')
          /\ Len(pool) + 1 \in 1..Len(pool')
      BY <2>1, <2>3
    <3>4. \A d \in Clients : handler'[d] = IF d = c THEN "queued" ELSE handler[d]
      BY <1>1, <2>1
    <3>. QED
      BY <2>3, <3>1, <3>2, <3>3, <3>4
  <2>6. Serving' = Serving
    BY <1>1, <2>1, <2>2 DEF Serving
  <2>7. \A d \in Clients : phase'[d] = "new" <=> handler'[d] = "none"
    BY <1>1, <2>1 DEF SessionInv, PoolTypes
  <2>8. /\ handler' \in [Clients -> {"none", "queued", "serving", "ended"}]
        /\ clientList' \subseteq Clients
    BY <1>1, <2>1 DEF SessionInv, PoolTypes
  <2>. QED
    BY <2>3, <2>4, <2>5, <2>6, <2>7, <2>8 DEF SessionInv, PoolTypes
<1>. QED
  BY <1>1, <1>2, <1>3, StayLink, StaySession, StayPipeline DEF SessionInv

LEMMA SendSession ==
    ASSUME SessionInv, NEW c \in Clients, SendRecord(c) \/ SendEof(c)
    PROVE  SessionInv'
<1>1. /\ sent[c] < Len(Script) /\ sent' = [sent EXCEPT ![c] = @ + 1]
      /\ ToGateway(c, Script[sent[c] + 1])
      /\ UNCHANGED <<phase, acks, received, down, clientList, pool, handler, session, pipeline>>
  BY DEF SendRecord, SendEof
<1>2. sent[c] \in 0..Len(Script) /\ pendingAcks[c] \in 0..Window - 1
  BY DEF SessionInv, ProgramTypes
<1>3. sent' \in [Clients -> 0..Len(Script)] /\ Script[sent[c] + 1] \in UpMessages
  <2>1. sent[c] + 1 \in 1..Len(Script)
    BY <1>1, <1>2, ScriptType
  <2>. QED
    BY <1>1, <2>1, ScriptType DEF SessionInv, ProgramTypes, UpMessages
<1>4. waiting' \in [Clients -> 0..Window] /\ pendingAcks' \in [Clients -> 0..Window - 1]
  <2>1. CASE SendRecord(c)
    <3>1. CASE pendingAcks[c] + 1 >= Window
      <4>1. /\ waiting' = [waiting EXCEPT ![c] = pendingAcks[c] + 1]
            /\ pendingAcks' = [pendingAcks EXCEPT ![c] = 0]
        BY <2>1, <3>1 DEF SendRecord
      <4>2. pendingAcks[c] + 1 \in 0..Window /\ 0 \in 0..Window - 1
        BY <1>2, BoundTypes
      <4>. QED
        BY <4>1, <4>2 DEF SessionInv, ProgramTypes
    <3>2. CASE ~(pendingAcks[c] + 1 >= Window)
      <4>1. /\ waiting' = waiting /\ pendingAcks' = [pendingAcks EXCEPT ![c] = @ + 1]
        BY <2>1, <3>2 DEF SendRecord
      <4>2. pendingAcks[c] + 1 \in 0..Window - 1
        BY <1>2, <3>2, BoundTypes
      <4>. QED
        BY <4>1, <4>2 DEF SessionInv, ProgramTypes
    <3>. QED
      BY <3>1, <3>2
  <2>2. CASE SendEof(c)
    <3>1. waiting' = [waiting EXCEPT ![c] = 1] /\ pendingAcks' = pendingAcks /\ 1 \in 0..Window
      BY <2>2, BoundTypes DEF SendEof
    <3>. QED
      BY <3>1 DEF SessionInv, ProgramTypes
  <2>. QED
    BY <2>1, <2>2
<1>5. ProgramTypes'
  BY <1>1, <1>3, <1>4 DEF SessionInv, ProgramTypes
<1>6. LinkTypes'
  BY <1>1, <1>3, ToGatewayLink DEF SessionInv
<1>. QED
  BY <1>1, <1>5, <1>6, StayPool, StaySession, StayPipeline DEF SessionInv

LEMMA FlushSession ==
    ASSUME SessionInv, NEW c \in Clients, Flush(c)
    PROVE  SessionInv'
<1>1. /\ waiting' = [waiting EXCEPT ![c] = pendingAcks[c]]
      /\ pendingAcks' = [pendingAcks EXCEPT ![c] = 0]
      /\ UNCHANGED <<phase, sent, acks, received, up, down, clientList, pool, handler, session,
                     pipeline>>
  BY DEF Flush
<1>2. pendingAcks[c] \in 0..Window /\ 0 \in 0..Window - 1
  BY BoundTypes DEF SessionInv, ProgramTypes
<1>3. ProgramTypes'
  BY <1>1, <1>2 DEF SessionInv, ProgramTypes
<1>. QED
  BY <1>1, <1>3, StayLink, StayPool, StaySession, StayPipeline DEF SessionInv

LEMMA TakeAckSession ==
    ASSUME SessionInv, NEW c \in Clients, TakeAck(c)
    PROVE  SessionInv'
<1>1. /\ waiting[c] > 0 /\ acks[c] > 0
      /\ waiting' = [waiting EXCEPT ![c] = @ - 1] /\ acks' = [acks EXCEPT ![c] = @ - 1]
      /\ phase' = phase \/ (phase[c] = "closing" /\ phase' = [phase EXCEPT ![c] = "done"])
      /\ UNCHANGED <<sent, pendingAcks, received, up, down, clientList, pool, handler, session,
                     pipeline>>
  <2>1. CASE phase[c] = "closing" /\ waiting[c] = 1
    BY <2>1 DEF TakeAck
  <2>2. CASE ~(phase[c] = "closing" /\ waiting[c] = 1)
    <3>1. phase' = phase
      BY <2>2 DEF TakeAck, SessionInv, ProgramTypes
    <3>. QED
      BY <3>1 DEF TakeAck
  <2>. QED
    BY <2>1, <2>2
<1>2. waiting[c] - 1 \in 0..Window /\ acks[c] - 1 \in Nat
  <2>1. waiting[c] \in 0..Window /\ acks[c] \in Nat
    BY DEF SessionInv, ProgramTypes
  <2>. QED
    BY <1>1, <2>1, BoundTypes
<1>3. ProgramTypes'
  BY <1>1, <1>2 DEF SessionInv, ProgramTypes
<1>4. \A d \in Clients : phase'[d] = "new" <=> phase[d] = "new"
  BY <1>1 DEF SessionInv, ProgramTypes
<1>. QED
  BY <1>1, <1>3, <1>4, StayLink, StayPool, StaySession, StayPipeline DEF SessionInv

LEMMA CloseSession ==
    ASSUME SessionInv, NEW c \in Clients, Close(c)
    PROVE  SessionInv'
<1>1. /\ phase[c] = "sending" /\ phase' = [phase EXCEPT ![c] = "closing"]
      /\ ToGateway(c, "CLOSE") /\ waiting' = [waiting EXCEPT ![c] = 1]
      /\ UNCHANGED <<sent, pendingAcks, acks, received, down, clientList, pool, handler, session,
                     pipeline>>
  BY DEF Close, Free
<1>2. 1 \in 0..Window
  BY BoundTypes
<1>3. ProgramTypes'
  BY <1>1, <1>2 DEF SessionInv, ProgramTypes
<1>4. \A d \in Clients : phase'[d] = "new" <=> phase[d] = "new"
  BY <1>1 DEF SessionInv, ProgramTypes
<1>5. LinkTypes'
  BY <1>1, ToGatewayLink DEF SessionInv, UpMessages
<1>. QED
  BY <1>1, <1>3, <1>4, <1>5, StayPool, StaySession, StayPipeline DEF SessionInv

LEMMA LeaveSession ==
    ASSUME SessionInv, NEW c \in Clients, GiveUp(c) \/ Vanish(c)
    PROVE  SessionInv'
<1>1. /\ phase[c] # "new"
      /\ \E p \in {"failed", "gone"} : phase' = [phase EXCEPT ![c] = p]
      /\ UNCHANGED <<sent, pendingAcks, waiting, acks, received, up, down, clientList, pool,
                     handler, session, pipeline>>
  BY DEF GiveUp, Vanish, Open
<1>2. ProgramTypes'
  BY <1>1 DEF SessionInv, ProgramTypes
<1>3. \A d \in Clients : phase'[d] = "new" <=> phase[d] = "new"
  BY <1>1 DEF SessionInv, ProgramTypes
<1>. QED
  BY <1>1, <1>2, <1>3, StayLink, StayPool, StaySession, StayPipeline DEF SessionInv

LEMMA ReceiveSession ==
    ASSUME SessionInv, NEW c \in Clients, Receive(c)
    PROVE  SessionInv'
<1>1. /\ down[c] # <<>> /\ down' = [down EXCEPT ![c] = Tail(@)]
      /\ UNCHANGED <<program, up, clientList, pool, handler, session, pipeline>>
  BY DEF Receive
<1>2. down[c] \in Seq(DownMessages) /\ received[c] \in Seq(ResultMessages) /\ acks[c] \in Nat
  BY DEF SessionInv, LinkTypes, ProgramTypes
<1>3. Tail(down[c]) \in Seq(DownMessages) /\ Head(down[c]) \in DownMessages
  BY <1>1, <1>2, HeadTailProperties
<1>4. LinkTypes'
  BY <1>1, <1>3 DEF SessionInv, LinkTypes
<1>5. CASE Head(down[c]).kind = "ACK"
  <2>1. acks' = [acks EXCEPT ![c] = @ + 1] /\ received' = received
    BY <1>5 DEF Receive
  <2>2. ProgramTypes'
    BY <1>1, <1>2, <2>1 DEF SessionInv, ProgramTypes, program
  <2>. QED
    BY <1>1, <1>4, <2>2, StayPool, StaySession, StayPipeline DEF SessionInv, program
<1>6. CASE Head(down[c]).kind # "ACK"
  <2>1. received' = [received EXCEPT ![c] = Append(@, Head(down[c]))] /\ acks' = acks
    BY <1>6 DEF Receive
  <2>2. Head(down[c]) \in ResultMessages
    BY <1>3, <1>6 DEF DownMessages, Ack
  <2>3. Append(received[c], Head(down[c])) \in Seq(ResultMessages)
    BY <1>2, <2>2, AppendProperties
  <2>4. ProgramTypes'
    BY <1>1, <2>1, <2>3 DEF SessionInv, ProgramTypes, program
  <2>. QED
    BY <1>1, <1>4, <2>4, StayPool, StaySession, StayPipeline DEF SessionInv, program
<1>. QED
  BY <1>5, <1>6

-----------------------------------------------------------------------------
(* The steps of the gateway's processes.                                     *)
LEMMA ServeSession ==
    ASSUME SessionInv, Serve
    PROVE  SessionInv'
<1>1. /\ pool # <<>> /\ Cardinality(Serving) < Slots
      /\ pool' = Tail(pool) /\ handler' = [handler EXCEPT ![Head(pool)] = "serving"]
      /\ UNCHANGED <<program, acks, received, up, down, clientList, session, pipeline>>
  BY DEF Serve
<1>2. /\ pool \in Seq(Clients)
      /\ handler \in [Clients -> {"none", "queued", "serving", "ended"}]
      /\ \A i, j \in 1..Len(pool) : pool[i] = pool[j] => i = j
      /\ \A c \in Clients : handler[c] = "queued" <=> \E i \in 1..Len(pool) : pool[i] = c
      /\ IsFiniteSet(Serving)
  BY DEF SessionInv, PoolTypes
<1>3. /\ Head(pool) = pool[1] /\ pool[1] \in Clients /\ Len(pool) \in Nat \ {0}
      /\ Tail(pool) \in Seq(Clients) /\ Len(Tail(pool)) = Len(pool) - 1
      /\ \A i \in 1..Len(Tail(pool)) : Tail(pool)[i] = pool[i + 1]
  <2>1. Len(pool) \in Nat \ {0}
    BY <1>1, <1>2, EmptySeq, LenProperties
  <2>. QED
    BY <1>1, <1>2, <2>1, HeadTailProperties, ElementOfSeq
<1>4. handler[pool[1]] = "queued"
  BY <1>2, <1>3
<1>5. \A c \in Clients : handler'[c] = IF c = pool[1] THEN "serving" ELSE handler[c]
  BY <1>1, <1>2, <1>3
<1>6. \A i, j \in 1..Len(pool') : pool'[i] = pool'[j] => i = j
  <2>1. \A i \in 1..Len(pool') : i + 1 \in 1..Len(pool) /\ i \in Int /\ pool'[i] = pool[i + 1]
    BY <1>1, <1>3
  <2>2. \A i, j \in 1..Len(pool') : pool'[i] = pool'[j] => i + 1 = j + 1
    BY <1>2, <2>1
  <2>. QED
    BY <2>1, <2>2
<1>7. \A c \in Clients : handler'[c] = "queued" <=> \E i \in 1..Len(pool') : pool'[i] = c
  <2>1. \A i \in 1..Len(pool') : i + 1 \in 1..Len(pool) /\ i + 1 # 1 /\ pool'[i] = pool[i + 1]
    BY <1>1, <1>3
  <2>2. \A i \in 1..Len(pool) : i # 1 => i - 1 \in 1..Len(pool') /\ pool'[i - 1] = pool[i]
    BY <1>1, <1>3
  <2>3. 1 \in 1..Len(pool)
    BY <1>3
  <2>4. \A i \in 1..Len(pool) : pool[i] = pool[1] => i = 1
    BY <1>2, <2>3
  <2>5. ASSUME NEW c \in Clients, c = pool[1]
        PROVE  handler'[c] # "queued" /\ ~\E i \in 1..Len(pool') : pool'[i] = c
    BY <1>5, <2>1, <2>4, <2>5
  <2>6. ASSUME NEW c \in Clients, c # pool[1], handler'[c] = "queued"
        PROVE  \E i \in 1..Len(pool') : pool'[i] = c
    <3>1. PICK i \in 1..Len(pool) : pool[i] = c
      BY <1>2, <1>5, <2>6
    <3>. QED
      BY <2>2, <2>6, <3>1
  <2>7. ASSUME NEW c \in Clients, c # pool[1], NEW i \in 1..Len(pool'), pool'[i] = c
        PROVE  handler'[c] = "queued"
    BY <1>2, <1>5, <2>1, <2>7
  <2>. QED
    BY <2>5, <2>6, <2>7
<1>8. IsFiniteSet(Serving') /\ Cardinality(Serving') <= Slots
  <2>1. Serving' = Serving \cup {pool[1]} /\ pool[1] \notin Serving
    BY <1>3, <1>4, <1>5 DEF Serving
  <2>2. IsFiniteSet(Serving') /\ Cardinality(Serving') = Cardinality(Serving) + 1
    BY <1>2, <2>1, FS_AddElement
  <2>3. Cardinality(Serving) \in Nat
    BY <1>2, FS_CardinalityType
  <2>. QED
    BY <1>1, <2>2, <2>3, BoundTypes
<1>9. \A c \in Clients : phase'[c] = "new" <=> handler'[c] = "none"
  BY <1>1, <1>4, <1>5 DEF SessionInv, PoolTypes, program
<1>10. /\ handler' \in [Clients -> {"none", "queued", "serving", "ended"}]
       /\ pool' \in Seq(Clients) /\ clientList' \subseteq Clients
  BY <1>1, <1>2, <1>3 DEF SessionInv, PoolTypes
<1>11. PoolTypes'
  BY <1>6, <1>7, <1>8, <1>9, <1>10 DEF PoolTypes
<1>. QED
  BY <1>1, <1>11, StayProgram, StayLink, StaySession, StayPipeline DEF SessionInv

(* A process that ends leaves its slot: the other processes are fewer.       *)
LEMMA EndedPool ==
    ASSUME SessionInv, NEW c \in Clients, handler[c] = "serving",
           UNCHANGED <<phase, clientList, pool>>,
           handler' = handler \/ handler' = [handler EXCEPT ![c] = "ended"]
    PROVE  PoolTypes'
<1>1. CASE handler' = handler
  BY <1>1, StayPool DEF SessionInv
<1>2. CASE handler' = [handler EXCEPT ![c] = "ended"]
  <2>1. handler \in [Clients -> {"none", "queued", "serving", "ended"}]
    BY DEF SessionInv, PoolTypes
  <2>2. \A d \in Clients : handler'[d] = IF d = c THEN "ended" ELSE handler[d]
    BY <1>2, <2>1
  <2>3. Serving' \subseteq Serving
    BY <2>2 DEF Serving
  <2>4. IsFiniteSet(Serving') /\ Cardinality(Serving') <= Slots
    <3>1. IsFiniteSet(Serving) /\ Cardinality(Serving) <= Slots
      BY DEF SessionInv, PoolTypes
    <3>2. IsFiniteSet(Serving') /\ Cardinality(Serving') <= Cardinality(Serving)
      BY <2>3, <3>1, FS_Subset
    <3>3. Cardinality(Serving) \in Nat /\ Cardinality(Serving') \in Nat
      BY <3>1, <3>2, FS_CardinalityType
    <3>. QED
      BY <3>1, <3>2, <3>3, BoundTypes
  <2>5. handler' \in [Clients -> {"none", "queued", "serving", "ended"}]
    BY <1>2, <2>1
  <2>6. \A d \in Clients : phase'[d] = "new" <=> handler'[d] = "none"
    BY <2>2 DEF SessionInv, PoolTypes
  <2>7. \A d \in Clients : handler'[d] = "queued" <=> \E i \in 1..Len(pool') : pool'[i] = d
    <3>1. \A d \in Clients : handler'[d] = "queued" <=> handler[d] = "queued"
      BY <2>2
    <3>2. \A d \in Clients : handler[d] = "queued" <=> \E i \in 1..Len(pool) : pool[i] = d
      BY DEF SessionInv, PoolTypes
    <3>. QED
      BY <3>1, <3>2
  <2>. QED
    BY <2>4, <2>5, <2>6, <2>7 DEF SessionInv, PoolTypes
<1>. QED
  BY <1>1, <1>2

(* The counters of a client count, whatever its message is.                  *)
LEMMA AddType ==
    ASSUME NEW counters \in [Clients -> Counters], NEW c \in Clients,
           NEW kind \in {"ACCOUNT", "TRANSACTION"}
    PROVE  /\ Add(counters, c, kind) \in [Clients -> Counters]
           /\ \A d \in Clients : d # c => Add(counters, c, kind)[d] = counters[d]
           /\ \A k \in {"ACCOUNT", "TRANSACTION"} :
                 Add(counters, c, kind)[c][k] = IF k = kind THEN counters[c][k] + 1
                                                            ELSE counters[c][k]
<1>1. counters[c] \in [{"ACCOUNT", "TRANSACTION"} -> Nat]
  BY DEF Counters
<1>2. counters[c][kind] + 1 \in Nat
  BY <1>1
<1>3. [counters[c] EXCEPT ![kind] = @ + 1] \in [{"ACCOUNT", "TRANSACTION"} -> Nat]
  BY <1>1, <1>2
<1>. QED
  BY <1>1, <1>2, <1>3 DEF Add, Counters

(* What each message does to the counters.                                   *)
LEMMA AccountSession ==
    ASSUME SessionTypes, NEW c \in Clients, HandleAccount(c) PROVE SessionTypes'
BY AddType DEF HandleAccount, SessionTypes

LEMMA TransactionSession ==
    ASSUME SessionTypes, NEW c \in Clients, HandleTransaction(c) PROVE SessionTypes'
<1>1. CASE UNCHANGED <<totals, forwarded>>
  BY <1>1 DEF HandleTransaction, SessionTypes
<1>2. CASE totals' = Add(totals, c, "TRANSACTION") /\ forwarded' = Add(forwarded, c, "TRANSACTION")
  BY <1>2, AddType DEF HandleTransaction, SessionTypes
<1>. QED
  BY <1>1, <1>2 DEF HandleTransaction

LEMMA EofSession ==
    ASSUME SessionTypes, NEW c \in Clients, HandleEof(c)
    PROVE  /\ SessionTypes'
           /\ eofs' = [eofs EXCEPT ![c] = @ + 1] /\ UNCHANGED <<totals, forwarded>>
           /\ \A d \in Clients : d # c => announced'[d] = announced[d]
           /\ eofs[c] = 0 => announced'[c] = Append(announced[c], totals[c].ACCOUNT)
           /\ eofs[c] = 1 => announced'[c] = Append(announced[c], totals[c].TRANSACTION)
           /\ eofs[c] \notin {0, 1} => announced'[c] = announced[c]
<1>1. /\ eofs' = [eofs EXCEPT ![c] = @ + 1] /\ UNCHANGED <<totals, forwarded>>
      /\ announced' = [announced EXCEPT ![c] =
                        CASE eofs[c] = 0 -> Append(@, totals[c].ACCOUNT)
                          [] eofs[c] = 1 -> Append(@, totals[c].TRANSACTION)
                          [] OTHER -> @]
  BY DEF HandleEof
<1>2. /\ announced \in [Clients -> Seq(Nat)] /\ announced[c] \in Seq(Nat) /\ eofs[c] \in Nat
      /\ totals[c] \in [{"ACCOUNT", "TRANSACTION"} -> Nat] /\ eofs \in [Clients -> Nat]
  BY DEF SessionTypes, Counters
<1>3. /\ Append(announced[c], totals[c].ACCOUNT) \in Seq(Nat)
      /\ Append(announced[c], totals[c].TRANSACTION) \in Seq(Nat)
  BY <1>2, AppendProperties
<1>4. CASE eofs[c] = 0
  <2>1. announced' = [announced EXCEPT ![c] = Append(@, totals[c].ACCOUNT)]
    BY <1>1, <1>4
  <2>2. eofs' \in [Clients -> Nat]
    BY <1>1, <1>2
  <2>. QED
    BY <1>1, <1>2, <1>3, <1>4, <2>1, <2>2 DEF SessionTypes
<1>5. CASE eofs[c] = 1
  <2>1. announced' = [announced EXCEPT ![c] = Append(@, totals[c].TRANSACTION)]
    BY <1>1, <1>5
  <2>2. eofs' \in [Clients -> Nat]
    BY <1>1, <1>2
  <2>. QED
    BY <1>1, <1>2, <1>3, <1>5, <2>1, <2>2 DEF SessionTypes
<1>6. CASE eofs[c] \notin {0, 1}
  <2>1. announced' = announced
    BY <1>1, <1>2, <1>6
  <2>2. eofs' \in [Clients -> Nat]
    BY <1>1, <1>2
  <2>. QED
    BY <1>1, <1>6, <2>1, <2>2 DEF SessionTypes
<1>. QED
  BY <1>4, <1>5, <1>6

LEMMA HandleSession ==
    ASSUME SessionInv, NEW c \in Clients, HandleRequest(c)
    PROVE  SessionInv'
<1>1. /\ handler[c] = "serving" /\ up[c] # <<>> /\ up' = [up EXCEPT ![c] = Tail(@)]
      /\ ToClient(c, Ack)
      /\ handler' = [handler EXCEPT ![c] = IF Head(up[c]) = "CLOSE" THEN "ended" ELSE @]
      /\ HandleAccount(c) \/ HandleTransaction(c) \/ HandleEof(c) \/ UNCHANGED session
      /\ UNCHANGED <<program, acks, received, clientList, pool, pipeline>>
  BY DEF HandleRequest, Ack
<1>2. up[c] \in Seq(UpMessages) /\ Tail(up[c]) \in Seq(UpMessages)
  BY <1>1, HeadTailProperties DEF SessionInv, LinkTypes
<1>3. LinkTypes'
  <2>1. down' \in [Clients -> Seq(DownMessages)]
    BY <1>1, ToClientType DEF SessionInv, DownMessages
  <2>. QED
    BY <1>1, <1>2, <2>1 DEF SessionInv, LinkTypes
<1>4. handler' = handler \/ handler' = [handler EXCEPT ![c] = "ended"]
  <2>1. CASE Head(up[c]) = "CLOSE"
    BY <1>1, <2>1
  <2>2. CASE Head(up[c]) # "CLOSE"
    BY <1>1, <2>2 DEF SessionInv, PoolTypes
  <2>. QED
    BY <2>1, <2>2
<1>5. PoolTypes'
  BY <1>1, <1>4, EndedPool DEF program
<1>6. SessionTypes'
  BY <1>1, AccountSession, TransactionSession, EofSession, StaySession DEF SessionInv
<1>. QED
  BY <1>1, <1>3, <1>5, <1>6, StayProgram, StayPipeline DEF SessionInv

LEMMA EndSession ==
    ASSUME SessionInv, NEW c \in Clients, EndRequest(c)
    PROVE  SessionInv'
<1>1. /\ handler[c] = "serving" /\ up' = [up EXCEPT ![c] = <<>>]
      /\ handler' = [handler EXCEPT ![c] = "ended"]
      /\ UNCHANGED <<program, acks, received, down, clientList, pool, session, pipeline>>
  BY DEF EndRequest
<1>2. LinkTypes'
  BY <1>1, EmptySeq DEF SessionInv, LinkTypes
<1>3. PoolTypes'
  BY <1>1, EndedPool DEF program
<1>. QED
  BY <1>1, <1>2, <1>3, StayProgram, StaySession, StayPipeline DEF SessionInv

LEMMA RestartSession ==
    ASSUME SessionInv, Restart
    PROVE  SessionInv'
<1>1. /\ clientList' = {} /\ pool' = <<>> /\ next' = 1
      /\ handler' = [c \in Clients |-> IF phase[c] = "new" THEN "none" ELSE "ended"]
      /\ up' = [c \in Clients |-> <<>>]
      /\ UNCHANGED <<program, acks, received, down, session, answers, results>>
  BY DEF Restart
<1>2. LinkTypes'
  BY <1>1, EmptySeq DEF SessionInv, LinkTypes
<1>3. PoolTypes'
  <2>1. /\ pool' \in Seq(Clients) /\ \A i : i \notin 1..Len(pool')
        /\ handler' \in [Clients -> {"none", "queued", "serving", "ended"}]
    BY <1>1, EmptySeq
  <2>2. Serving' = {}
    BY <1>1 DEF Serving
  <2>3. IsFiniteSet(Serving') /\ Cardinality(Serving') <= Slots
    BY <2>2, FS_EmptySet, BoundTypes
  <2>4. \A c \in Clients : handler'[c] # "queued" /\ (phase'[c] = "new" <=> handler'[c] = "none")
    BY <1>1 DEF program
  <2>. QED
    BY <1>1, <2>1, <2>3, <2>4 DEF PoolTypes
<1>4. PipelineTypes'
  <2>1. results # <<>> => results[1] \in ResultBatches
    <3>1. results \in Seq(ResultBatches)
      BY DEF SessionInv, PipelineTypes
    <3>. QED
      BY <3>1, EmptySeq, LenProperties, ElementOfSeq
  <2>2. results # <<>> => 1 <= Len(results[1])
    BY <2>1 DEF ResultBatches
  <2>. QED
    BY <1>1, <2>2, BoundTypes DEF SessionInv, PipelineTypes
<1>. QED
  BY <1>1, <1>2, <1>3, <1>4, StayProgram, StaySession DEF SessionInv

-----------------------------------------------------------------------------
(* The queue of results.                                                     *)

(* A stage opens a batch for its message or extends the last one, which is   *)
(* never the batch that is being delivered.                                  *)
LEMMA PublishIs ==
    ASSUME results \in Seq(ResultBatches), NEW msg \in ResultMessages, Publish(msg)
    PROVE  /\ results' \in Seq(ResultBatches)
           /\ \/ /\ Len(results') = Len(results) + 1
                 /\ \A i \in 1..Len(results) : results'[i] = results[i]
                 /\ results'[Len(results) + 1] = <<msg>>
              \/ /\ Len(results) > 1 /\ Len(results') = Len(results)
                 /\ \A i \in 1..Len(results) - 1 : results'[i] = results[i]
                 /\ results'[Len(results)] = Append(results[Len(results)], msg)
<1>. DEFINE n == Len(results)
<1>1. n \in Nat
  BY LenProperties
<1>2. CASE results' = Append(results, <<msg>>)
  <2>1. <<msg>> \in ResultBatches
    BY BoundTypes DEF ResultBatches
  <2>. QED
    BY <1>2, <2>1, AppendProperties
<1>3. CASE /\ n > 1 /\ Len(Last(results)) < BatchMax
           /\ results' = Front(results) \o <<Append(Last(results), msg)>>
  <2>. DEFINE last == results[n]
              front == SubSeq(results, 1, n - 1)
              longer == Append(last, msg)
  <2>1. /\ last \in ResultBatches /\ last \in Seq(ResultMessages)
        /\ Len(last) \in Nat /\ Len(last) < BatchMax
        /\ results' = front \o <<longer>>
    <3>1. Last(results) = last /\ Front(results) = front
      BY DEF Last, Front
    <3>2. last \in ResultBatches
      BY <1>1, <1>3, ElementOfSeq
    <3>. QED
      BY <1>3, <3>1, <3>2, LenProperties DEF ResultBatches
  <2>2. longer \in ResultBatches
    <3>1. longer \in Seq(ResultMessages) /\ Len(longer) = Len(last) + 1
      BY <2>1, AppendProperties
    <3>. QED
      BY <2>1, <3>1, BoundTypes DEF ResultBatches
  <2>3. /\ front \in Seq(ResultBatches) /\ Len(front) = n - 1
        /\ \A i \in 1..n - 1 : front[i] = results[i]
    BY <1>1, <1>3, SubSeqProperties
  <2>. HIDE DEF last, front, longer
  <2>4. <<longer>> \in Seq(ResultBatches) /\ Len(<<longer>>) = 1 /\ <<longer>>[1] = longer
    BY <2>2
  <2>5. /\ results' \in Seq(ResultBatches) /\ Len(results') = n
        /\ \A i \in 1..n - 1 : results'[i] = front[i]
        /\ results'[n] = longer
    <3>1. /\ results' \in Seq(ResultBatches)
          /\ Len(results') = Len(front) + Len(<<longer>>)
          /\ \A i \in 1..Len(front) + Len(<<longer>>) :
                results'[i] = IF i <= Len(front) THEN front[i] ELSE <<longer>>[i - Len(front)]
      BY <2>1, <2>3, <2>4, ConcatProperties
    <3>2. n \in 1..Len(front) + Len(<<longer>>) /\ ~(n <= Len(front)) /\ n - Len(front) = 1
      BY <1>1, <1>3, <2>3, <2>4
    <3>3. Len(results') = n
      BY <1>1, <2>3, <2>4, <3>1
    <3>4. results'[n] = longer
      BY <2>4, <3>1, <3>2
    <3>5. ASSUME NEW i \in 1..n - 1
          PROVE  results'[i] = front[i]
      <4>1. i \in 1..Len(front) + Len(<<longer>>) /\ i <= Len(front)
        BY <1>1, <1>3, <2>3, <2>4
      <4>. QED
        BY <3>1, <4>1
    <3>. QED
      BY <3>1, <3>3, <3>4, <3>5
  <2>. QED
    BY <1>3, <2>3, <2>5 DEF last, longer
<1>. QED
  BY <1>2, <1>3 DEF Publish

(* The first batch is not the one a stage extends.                           *)
LEMMA PublishHead ==
    ASSUME PipelineTypes, NEW msg \in ResultMessages, Publish(msg), UNCHANGED next,
           answers' \in [Clients -> [Queries -> {"none", "row", "EOF"}]]
    PROVE  PipelineTypes' /\ results' # <<>>
<1>1. results \in Seq(ResultBatches) /\ Len(results) \in Nat
  BY LenProperties DEF PipelineTypes
<1>2. results' \in Seq(ResultBatches) /\ Len(results') > 0
  BY <1>1, PublishIs
<1>3. results' # <<>>
  BY <1>2
<1>4. next <= Len(results'[1])
  <2>1. CASE results = <<>>
    <3>1. next = 1 /\ Len(results) = 0
      BY <2>1 DEF PipelineTypes
    <3>2. results'[1] = <<msg>>
      BY <1>1, <3>1, PublishIs
    <3>. QED
      BY <3>1, <3>2
  <2>2. CASE results # <<>>
    <3>1. Len(results) >= 1 /\ next <= Len(results[1])
      BY <1>1, <2>2, EmptySeq DEF PipelineTypes
    <3>2. results'[1] = results[1]
      BY <1>1, <3>1, PublishIs
    <3>. QED
      BY <3>1, <3>2
  <2>. QED
    BY <2>1, <2>2
<1>. QED
  BY <1>2, <1>3, <1>4 DEF PipelineTypes

LEMMA AnswerSession ==
    ASSUME SessionInv, NEW c \in Clients, NEW q \in Queries, Answer(c, q)
    PROVE  SessionInv'
<1>1. UNCHANGED <<program, acks, received, up, down, clientList, pool, handler, session, next>>
  BY DEF Answer
<1>2. PICK answer \in {"row", "EOF"}, kind \in {"ROW", "EOF"} :
         /\ answers' = [answers EXCEPT ![c][q] = answer]
         /\ Publish([kind |-> kind, query |-> q, client |-> c])
  BY DEF Answer
<1>3. [kind |-> kind, query |-> q, client |-> c] \in ResultMessages
  BY DEF ResultMessages
<1>4. answers' \in [Clients -> [Queries -> {"none", "row", "EOF"}]]
  BY <1>2 DEF SessionInv, PipelineTypes
<1>5. PipelineTypes'
  BY <1>1, <1>2, <1>3, <1>4, PublishHead DEF SessionInv
<1>. QED
  BY <1>1, <1>5, StayProgram, StayLink, StayPool, StaySession DEF SessionInv, program

(* The message that is due is one of the first batch.                        *)
LEMMA DueType ==
    ASSUME PipelineTypes, results # <<>>
    PROVE  /\ results[1] \in ResultBatches /\ Head(results) = results[1]
           /\ Len(results) \in Nat \ {0} /\ Len(results[1]) \in 1..BatchMax
           /\ next \in 1..Len(results[1]) /\ Due = results[1][next] /\ Due \in ResultMessages
           /\ Tail(results) \in Seq(ResultBatches) /\ Len(Tail(results)) = Len(results) - 1
           /\ \A i \in 1..Len(Tail(results)) : Tail(results)[i] = results[i + 1]
<1>1. results \in Seq(ResultBatches) /\ next \in 1..BatchMax /\ next <= Len(results[1])
  BY DEF PipelineTypes
<1>2. Len(results) \in Nat \ {0}
  BY <1>1, EmptySeq, LenProperties
<1>3. results[1] \in ResultBatches
  BY <1>1, <1>2, ElementOfSeq
<1>4. Len(results[1]) \in 1..BatchMax /\ results[1] \in Seq(ResultMessages)
  BY <1>3 DEF ResultBatches
<1>5. next \in 1..Len(results[1])
  BY <1>1, <1>4
<1>6. Head(results) = results[1] /\ Due = results[1][next]
  BY <1>1, <1>2, HeadTailProperties DEF Due
<1>7. Due \in ResultMessages
  BY <1>4, <1>5, <1>6, ElementOfSeq
<1>. QED
  BY <1>1, <1>2, <1>3, <1>4, <1>5, <1>6, <1>7, HeadTailProperties

LEMMA AckDueTypes ==
    ASSUME PipelineTypes, results # <<>>, AckDue, UNCHANGED answers
    PROVE  PipelineTypes'
<1>1. CASE next = Len(Head(results))
  <2>1. results' = Tail(results) /\ next' = 1 /\ results' \in Seq(ResultBatches)
    BY <1>1, DueType DEF AckDue
  <2>2. results' # <<>> => 1 <= Len(results'[1])
    <3>1. results' # <<>> => results'[1] \in ResultBatches
      BY <2>1, EmptySeq, LenProperties, ElementOfSeq
    <3>. QED
      BY <3>1 DEF ResultBatches
  <2>. QED
    BY <2>1, <2>2, BoundTypes DEF PipelineTypes
<1>2. CASE next # Len(Head(results))
  <2>1. next' = next + 1 /\ results' = results
    BY <1>2 DEF AckDue
  <2>2. next + 1 \in 1..Len(results[1]) /\ next + 1 \in 1..BatchMax
    BY <1>2, DueType, BoundTypes
  <2>. QED
    BY <2>1, <2>2 DEF PipelineTypes
<1>. QED
  BY <1>1, <1>2

LEMMA DeliverSession ==
    ASSUME SessionInv, DeliverResult
    PROVE  SessionInv'
<1>1. /\ results # <<>> /\ AckDue /\ \E c \in Match(Due) : ToClient(c, Due)
      /\ UNCHANGED <<program, acks, received, up, clientList, pool, handler, session, answers>>
  BY DEF DeliverResult
<1>2. PICK c \in Clients : ToClient(c, Due)
  BY <1>1 DEF Match, SessionInv, PoolTypes
<1>3. Due \in DownMessages
  BY <1>1, DueType DEF SessionInv, DownMessages
<1>4. LinkTypes'
  <2>1. down' \in [Clients -> Seq(DownMessages)]
    BY <1>2, <1>3, ToClientType DEF SessionInv
  <2>. QED
    BY <1>1, <2>1 DEF SessionInv, LinkTypes
<1>5. PipelineTypes'
  BY <1>1, AckDueTypes DEF SessionInv
<1>. QED
  BY <1>1, <1>4, <1>5, StayProgram, StayPool, StaySession DEF SessionInv, program

LEMMA NackSession ==
    ASSUME SessionInv, NackResult
    PROVE  SessionInv'
<1>1. /\ results # <<>> /\ next' = 1
      /\ UNCHANGED <<program, acks, received, up, down, clientList, pool, handler, session,
                     answers, results>>
  BY DEF NackResult, NackBatch
<1>2. PipelineTypes'
  BY <1>1, DueType, BoundTypes DEF SessionInv, PipelineTypes
<1>. QED
  BY <1>1, <1>2, StayProgram, StayLink, StayPool, StaySession DEF SessionInv, program

LEMMA NextSession == SessionInv /\ [Next]_vars => SessionInv'
<1> SUFFICES ASSUME SessionInv, [Next]_vars
             PROVE  SessionInv'
  OBVIOUS
<1>1. ASSUME NEW c \in Clients, ClientStep(c) PROVE SessionInv'
  BY <1>1, ConnectSession, SendSession, FlushSession, TakeAckSession, CloseSession, LeaveSession
     DEF ClientStep
<1>2. ASSUME NEW c \in Clients, GatewayStep(c) PROVE SessionInv'
  BY <1>2, HandleSession, EndSession DEF GatewayStep
<1>3. CASE UNCHANGED vars
  BY <1>3, StayProgram, StayLink, StayPool, StaySession, StayPipeline
     DEF vars, SessionInv, program, session, pipeline
<1>. QED
  BY <1>1, <1>2, <1>3, ReceiveSession, LeaveSession, AnswerSession, ServeSession, DeliverSession,
     NackSession, RestartSession DEF Next

LEMMA SpecSession == Spec => []SessionInv
BY InitSession, NextSession, PTL DEF Spec

(* The variables have their types, no more processes serve clients than      *)
(* the pool has slots, the pool holds just the requests that wait, and the   *)
(* results' process is inside the batch it delivers.                         *)
THEOREM TypeOKHolds == Spec => []TypeOK
<1>1. SessionInv => TypeOK
  <2> SUFFICES ASSUME SessionInv
               PROVE  TypeOK
    OBVIOUS
  <2>1. ToSet(pool) = {c \in Clients : handler[c] = "queued"}
    <3>1. /\ pool \in Seq(Clients)
          /\ \A c \in Clients : handler[c] = "queued" <=> \E i \in 1..Len(pool) : pool[i] = c
      BY DEF SessionInv, PoolTypes
    <3>2. \A i \in 1..Len(pool) : pool[i] \in Clients
      BY <3>1, ElementOfSeq
    <3>3. DOMAIN pool = 1..Len(pool)
      BY <3>1
    <3>. QED
      BY <3>1, <3>2, <3>3 DEF ToSet
  <2>2. results # <<>> => next <= Len(Head(results))
    BY DueType DEF SessionInv, PipelineTypes
  <2>. QED
    BY <2>1, <2>2 DEF TypeOK, SessionInv, ProgramTypes, PoolTypes, PipelineTypes
<1>. QED
  BY <1>1, SpecSession, PTL

-----------------------------------------------------------------------------
(* Nobody receives a result that is not their own.                           *)

ResultsOf(c) == {m \in ResultMessages : m.client = c}

OwnInv ==
    \A c \in Clients : /\ down[c] \in Seq(ResultsOf(c) \cup {Ack})
                       /\ received[c] \in Seq(ResultsOf(c))

LEMMA ToClientOwn ==
    ASSUME SessionInv, OwnInv, NEW c \in Clients, NEW msg \in ResultsOf(c) \cup {Ack},
           ToClient(c, msg), UNCHANGED received
    PROVE  OwnInv'
<1>1. \A d \in Clients : down'[d] = IF d = c /\ Open(c) THEN Append(down[c], msg) ELSE down[d]
  BY DEF ToClient, SessionInv, LinkTypes
<1>2. Append(down[c], msg) \in Seq(ResultsOf(c) \cup {Ack})
  BY AppendProperties DEF OwnInv
<1>. QED
  BY <1>1, <1>2 DEF OwnInv

LEMMA ReceiveOwn ==
    ASSUME SessionInv, OwnInv, NEW c \in Clients, Receive(c)
    PROVE  OwnInv'
<1>1. /\ down[c] # <<>> /\ down' = [down EXCEPT ![c] = Tail(@)]
      /\ IF Head(down[c]).kind = "ACK"
           THEN UNCHANGED received
           ELSE received' = [received EXCEPT ![c] = Append(@, Head(down[c]))]
  BY DEF Receive
<1>2. down[c] \in Seq(ResultsOf(c) \cup {Ack}) /\ received[c] \in Seq(ResultsOf(c))
  BY DEF OwnInv
<1>3. /\ Tail(down[c]) \in Seq(ResultsOf(c) \cup {Ack})
      /\ Head(down[c]) \in ResultsOf(c) \cup {Ack}
  BY <1>1, <1>2, HeadTailProperties
<1>4. \A d \in Clients : down'[d] = IF d = c THEN Tail(down[c]) ELSE down[d]
  BY <1>1 DEF SessionInv, LinkTypes
<1>5. \A d \in Clients : received'[d] \in Seq(ResultsOf(d))
  <2>1. CASE Head(down[c]).kind = "ACK"
    BY <1>1, <2>1 DEF OwnInv
  <2>2. CASE Head(down[c]).kind # "ACK"
    <3>1. Append(received[c], Head(down[c])) \in Seq(ResultsOf(c))
      BY <1>2, <1>3, <2>2, AppendProperties DEF Ack
    <3>2. \A d \in Clients : received'[d] = IF d = c THEN Append(received[c], Head(down[c]))
                                                     ELSE received[d]
      BY <1>1, <2>2 DEF SessionInv, ProgramTypes
    <3>. QED
      BY <3>1, <3>2 DEF OwnInv
  <2>. QED
    BY <2>1, <2>2
<1>. QED
  BY <1>3, <1>4, <1>5 DEF OwnInv

LEMMA NextOwn == SessionInv /\ OwnInv /\ [Next]_vars => OwnInv'
<1> SUFFICES ASSUME SessionInv, OwnInv, [Next]_vars
             PROVE  OwnInv'
  OBVIOUS
<1>1. CASE UNCHANGED <<down, received>>
  BY <1>1 DEF OwnInv
<1>2. CASE DeliverResult
  <2>1. PICK c \in Match(Due) : ToClient(c, Due)
    BY <1>2 DEF DeliverResult
  <2>2. c \in Clients /\ Due \in ResultsOf(c)
    BY <1>2, <2>1, DueType DEF DeliverResult, Match, ResultsOf, SessionInv, PoolTypes
  <2>. QED
    BY <1>2, <2>1, <2>2, ToClientOwn DEF DeliverResult
<1>3. ASSUME NEW c \in Clients, HandleRequest(c) PROVE OwnInv'
  BY <1>3, ToClientOwn DEF HandleRequest, Ack
<1>4. ASSUME NEW c \in Clients, ClientStep(c) PROVE UNCHANGED <<down, received>>
  BY <1>4 DEF ClientStep, Connect, SendRecord, Flush, SendEof, TakeAck, Close, GiveUp
<1>5. ASSUME NEW c \in Clients, NEW q \in Queries, Answer(c, q) PROVE UNCHANGED <<down, received>>
  BY <1>5 DEF Answer
<1>6. CASE Serve \/ NackResult \/ Restart \/ UNCHANGED vars
  BY <1>1, <1>6 DEF Serve, NackResult, Restart, vars
<1>7. ASSUME NEW c \in Clients, Vanish(c) \/ EndRequest(c) PROVE UNCHANGED <<down, received>>
  BY <1>7 DEF Vanish, EndRequest
<1>. QED
  BY <1>1, <1>2, <1>3, <1>4, <1>5, <1>6, <1>7, ReceiveOwn DEF Next, GatewayStep

LEMMA SpecOwn == Spec => []OwnInv
<1>1. Init => OwnInv
  BY EmptySeq DEF Init, OwnInv
<1>. QED
  BY <1>1, NextOwn, SpecSession, PTL DEF Spec

(* Whatever happens to the gateway and to its clients, a client receives and *)
(* has on its way no result of another client.                               *)
THEOREM OwnResultsHolds == Spec => []OwnResults
<1>1. OwnInv => OwnResults
  <2> SUFFICES ASSUME OwnInv, NEW c \in Clients, NEW m \in ToSet(down[c]) \cup ToSet(received[c]),
                      m.kind # "ACK"
               PROVE  m.client = c
    BY DEF OwnResults
  <2>1. down[c] \in Seq(ResultsOf(c) \cup {Ack}) /\ received[c] \in Seq(ResultsOf(c))
    BY DEF OwnInv
  <2>2. m \in ResultsOf(c) \cup {Ack}
    BY <2>1, ElementOfSeq DEF ToSet
  <2>. QED
    BY <2>2 DEF ResultsOf, Ack
<1>. QED
  BY <1>1, SpecOwn, PTL

-----------------------------------------------------------------------------
(* How many messages of a kind a sequence of messages holds.                 *)

KindAt(s, kind) == {i \in DOMAIN s : s[i].kind = kind}

LEMMA KindCount ==
    ASSUME NEW S, NEW s \in Seq(S), NEW kind
    PROVE  IsFiniteSet(KindAt(s, kind)) /\ Cardinality(KindAt(s, kind)) \in Nat
<1>1. KindAt(s, kind) \subseteq 1..Len(s) /\ Len(s) \in Nat
  BY LenProperties DEF KindAt
<1>2. IsFiniteSet(1..Len(s))
  BY <1>1, FS_Interval
<1>. QED
  BY <1>1, <1>2, FS_Subset, FS_CardinalityType

LEMMA KindAppend ==
    ASSUME NEW S, NEW s \in Seq(S), NEW m \in S, NEW kind
    PROVE  Cardinality(KindAt(Append(s, m), kind)) =
              Cardinality(KindAt(s, kind)) + (IF m.kind = kind THEN 1 ELSE 0)
<1>. DEFINE t == Append(s, m)
            n == Len(s) + 1
<1>1. /\ Len(s) \in Nat /\ DOMAIN s = 1..Len(s) /\ DOMAIN t = 1..n /\ t[n] = m
      /\ \A i \in 1..Len(s) : t[i] = s[i]
  BY AppendProperties, LenProperties
<1>2. n \notin KindAt(s, kind) /\ 1..n = 1..Len(s) \cup {n}
  BY <1>1 DEF KindAt
<1>. HIDE DEF t, n
<1>3. KindAt(t, kind) = IF m.kind = kind THEN KindAt(s, kind) \cup {n} ELSE KindAt(s, kind)
  BY <1>1, <1>2 DEF KindAt
<1>4. IsFiniteSet(KindAt(s, kind)) /\ Cardinality(KindAt(s, kind)) \in Nat
  BY KindCount
<1>5. Cardinality(KindAt(s, kind) \cup {n}) = Cardinality(KindAt(s, kind)) + 1
  BY <1>2, <1>4, FS_AddElement
<1>6. Cardinality(KindAt(t, kind)) =
         Cardinality(KindAt(s, kind)) + (IF m.kind = kind THEN 1 ELSE 0)
  BY <1>3, <1>4, <1>5
<1>. QED
  BY <1>6 DEF t

LEMMA KindTail ==
    ASSUME NEW S, NEW s \in Seq(S), s # <<>>, NEW kind
    PROVE  Cardinality(KindAt(s, kind)) =
              Cardinality(KindAt(Tail(s), kind)) + (IF Head(s).kind = kind THEN 1 ELSE 0)
<1>. DEFINE t == Tail(s)
<1>1. /\ Len(s) \in Nat \ {0} /\ DOMAIN s = 1..Len(s) /\ DOMAIN t = 1..Len(s) - 1
      /\ \A i \in 1..Len(s) - 1 : t[i] = s[i + 1]
      /\ Head(s) = s[1] /\ t \in Seq(S)
  <2>1. Len(s) \in Nat \ {0}
    BY EmptySeq, LenProperties
  <2>2. Len(t) = Len(s) - 1 /\ t \in Seq(S)
    BY HeadTailProperties
  <2>. QED
    BY <2>1, <2>2, HeadTailProperties, LenProperties
<1>. HIDE DEF t
<1>. DEFINE A == KindAt(s, kind)
            B == KindAt(t, kind)
            C == {i \in A : i # 1}
            f == [i \in B |-> i + 1]
<1>2. IsFiniteSet(A) /\ IsFiniteSet(B) /\ Cardinality(A) \in Nat /\ Cardinality(B) \in Nat
  BY <1>1, KindCount
<1>3. f \in Injection(B, C) /\ f \in Surjection(B, C)
  <2>1. B \subseteq 1..Len(s) - 1 /\ \A i \in B : i + 1 \in C
    BY <1>1 DEF KindAt
  <2>2. \A i \in C : i - 1 \in B /\ (i - 1) + 1 = i
    BY <1>1 DEF KindAt
  <2>3. \A i, j \in B : i + 1 = j + 1 => i = j
    BY <2>1
  <2>. HIDE DEF B, C
  <2>. QED
    BY <2>1, <2>2, <2>3 DEF Injection, Surjection, IsInjective
<1>4. Cardinality(C) = Cardinality(B) /\ IsFiniteSet(C)
  BY <1>2, <1>3, FS_Bijection DEF ExistsBijection, Bijection
<1>5. A = IF Head(s).kind = kind THEN C \cup {1} ELSE C
  BY <1>1 DEF KindAt
<1>6. 1 \notin C
  OBVIOUS
<1>. HIDE DEF A, B, C
<1>7. Cardinality(C \cup {1}) = Cardinality(C) + 1
  BY <1>4, <1>6, FS_AddElement
<1>8. Cardinality(A) = Cardinality(B) + (IF Head(s).kind = kind THEN 1 ELSE 0)
  BY <1>2, <1>4, <1>5, <1>7
<1>. QED
  BY <1>8 DEF A, B, t

-----------------------------------------------------------------------------
(* Every acknowledgement a client expects is in one place.                   *)

\* Nothing travels before the client has connected.
Silent(c) == up[c] = <<>> /\ down[c] = <<>> /\ acks[c] = 0 /\ waiting[c] = 0 /\ pendingAcks[c] = 0

Owed(c) == Len(up[c]) + Acks(c) + acks[c]
Expected(c) == waiting[c] + pendingAcks[c]

AcksOf(c) == /\ phase[c] = "new" => Silent(c)
             /\ Open(c) /\ Connected(c) => Owed(c) = Expected(c)

AcksInv == \A c \in Clients : AcksOf(c)

LEMMA AcksAre ==
    ASSUME SessionInv, NEW c \in Clients
    PROVE  /\ Acks(c) = Cardinality(KindAt(down[c], "ACK")) /\ Acks(c) \in Nat
           /\ Len(up[c]) \in Nat /\ acks[c] \in Nat /\ waiting[c] \in Nat /\ pendingAcks[c] \in Nat
           /\ down[c] \in Seq(DownMessages) /\ up[c] \in Seq(UpMessages)
<1>1. down[c] \in Seq(DownMessages) /\ up[c] \in Seq(UpMessages)
  BY DEF SessionInv, LinkTypes
<1>2. Acks(c) = Cardinality(KindAt(down[c], "ACK"))
  BY DEF Acks, KindAt
<1>3. Acks(c) \in Nat
  BY <1>1, <1>2, KindCount
<1>4. waiting[c] \in 0..Window /\ pendingAcks[c] \in 0..Window - 1 /\ acks[c] \in Nat
  BY DEF SessionInv, ProgramTypes
<1>. QED
  BY <1>1, <1>2, <1>3, <1>4, LenProperties, BoundTypes

(* A client none of whose variables changes.                                 *)
LEMMA StayAcks ==
    ASSUME AcksInv, NEW c \in Clients, UNCHANGED <<up[c], down[c], acks[c], waiting[c], pendingAcks[c]>>,
           phase'[c] = "new" => phase[c] = "new", Open(c)' => Open(c),
           Connected(c)' => Connected(c)
    PROVE  AcksOf(c)'
<1>1. Acks(c)' = Acks(c)
  BY DEF Acks
<1>2. AcksOf(c)
  BY DEF AcksInv
<1>3. Silent(c) => Silent(c)'
  BY DEF Silent
<1>4. Owed(c)' = Owed(c) /\ Expected(c)' = Expected(c)
  BY <1>1 DEF Owed, Expected
<1>. QED
  BY <1>2, <1>3, <1>4 DEF AcksOf

LEMMA ConnectAcks ==
    ASSUME SessionInv, AcksInv, NEW c \in Clients, Connect(c)
    PROVE  AcksInv'
<1>1. /\ phase[c] = "new" /\ phase' = [phase EXCEPT ![c] = "sending"]
      /\ handler' = [handler EXCEPT ![c] = "queued"]
      /\ UNCHANGED <<up, down, acks, waiting, pendingAcks>>
  BY DEF Connect
<1>2. ASSUME NEW d \in Clients, d # c PROVE AcksOf(d)'
  <2>1. phase'[d] = phase[d] /\ handler'[d] = handler[d]
    BY <1>1, <1>2 DEF SessionInv, ProgramTypes, PoolTypes
  <2>. QED
    BY <1>1, <2>1, StayAcks DEF Open, Connected
<1>3. AcksOf(c)'
  <2>1. Silent(c)' /\ phase'[c] # "new"
    BY <1>1 DEF AcksInv, AcksOf, Silent, SessionInv, ProgramTypes
  <2>2. Acks(c)' = 0
    <3>1. down'[c] = <<>> /\ KindAt(<<>>, "ACK") = {}
      BY <2>1 DEF Silent, KindAt
    <3>. QED
      BY <3>1, FS_EmptySet DEF Acks, KindAt
  <2>3. Owed(c)' = 0 /\ Expected(c)' = 0
    BY <2>1, <2>2 DEF Silent, Owed, Expected
  <2>. QED
    BY <2>1, <2>3 DEF AcksOf
<1>. QED
  BY <1>2, <1>3 DEF AcksInv

(* A message of the script or a close, with the acknowledgement it expects.  *)
LEMMA SendAcks ==
    ASSUME SessionInv, AcksInv, NEW c \in Clients, SendRecord(c) \/ SendEof(c) \/ Close(c)
    PROVE  AcksInv'
<1>1. PICK msg \in UpMessages : ToGateway(c, msg)
  <2>1. ASSUME sent[c] < Len(Script) PROVE Script[sent[c] + 1] \in UpMessages
    <3>1. sent[c] + 1 \in 1..Len(Script)
      BY <2>1, ScriptType DEF SessionInv, ProgramTypes
    <3>. QED
      BY <3>1, ScriptType DEF UpMessages
  <2>2. "EOF" \in UpMessages /\ "CLOSE" \in UpMessages
    BY DEF UpMessages
  <2>. QED
    BY <2>1, <2>2 DEF SendRecord, SendEof, Close
<1>2. /\ phase[c] = "sending" /\ waiting[c] = 0 /\ Connected(c)
      /\ UNCHANGED <<down, acks, handler>>
      /\ \A d \in Clients \ {c} :
            UNCHANGED <<phase[d], up[d], waiting[d], pendingAcks[d]>>
      /\ phase'[c] # "new"
  <2>1. /\ phase[c] = "sending" /\ waiting[c] = 0 /\ Connected(c)
        /\ UNCHANGED <<down, acks, handler>>
        /\ phase' = phase \/ phase' = [phase EXCEPT ![c] = "closing"]
        /\ \A d \in Clients \ {c} : UNCHANGED <<waiting[d], pendingAcks[d]>>
    BY DEF SendRecord, SendEof, Close, Free, SessionInv, ProgramTypes
  <2>2. \A d \in Clients \ {c} : up'[d] = up[d]
    BY <1>1 DEF ToGateway, SessionInv, LinkTypes
  <2>. QED
    BY <2>1, <2>2 DEF SessionInv, ProgramTypes
<1>3. Expected(c)' = Expected(c) + 1
  <2>0. /\ waiting \in [Clients -> 0..Window] /\ pendingAcks \in [Clients -> 0..Window - 1]
        /\ pendingAcks[c] \in Nat
    BY BoundTypes DEF SessionInv, ProgramTypes
  <2>1. CASE SendRecord(c)
    <3>1. CASE pendingAcks[c] + 1 >= Window
      <4>1. waiting'[c] = pendingAcks[c] + 1 /\ pendingAcks'[c] = 0
        BY <2>0, <2>1, <3>1 DEF SendRecord
      <4>. QED
        BY <1>2, <2>0, <4>1 DEF Expected
    <3>2. CASE ~(pendingAcks[c] + 1 >= Window)
      <4>1. waiting'[c] = 0 /\ pendingAcks'[c] = pendingAcks[c] + 1
        BY <1>2, <2>0, <2>1, <3>2 DEF SendRecord
      <4>. QED
        BY <1>2, <2>0, <4>1 DEF Expected
    <3>. QED
      BY <3>1, <3>2
  <2>2. CASE SendEof(c) \/ Close(c)
    <3>1. waiting'[c] = 1 /\ pendingAcks'[c] = pendingAcks[c]
      BY <2>0, <2>2 DEF SendEof, Close
    <3>. QED
      BY <1>2, <2>0, <3>1 DEF Expected
  <2>. QED
    BY <2>1, <2>2
<1>4. Owed(c)' = Owed(c) + 1
  <2>1. up'[c] = Append(up[c], msg)
    BY <1>1 DEF ToGateway, SessionInv, LinkTypes
  <2>2. Len(up'[c]) = Len(up[c]) + 1
    BY <2>1, AcksAre, AppendProperties
  <2>3. Acks(c)' = Acks(c) /\ acks'[c] = acks[c]
    BY <1>2 DEF Acks
  <2>. QED
    BY <2>2, <2>3, AcksAre DEF Owed
<1>5. AcksOf(c)'
  <2>1. Owed(c) = Expected(c)
    BY <1>2 DEF AcksInv, AcksOf, Open
  <2>. QED
    BY <1>2, <1>3, <1>4, <2>1 DEF AcksOf
<1>6. ASSUME NEW d \in Clients, d # c PROVE AcksOf(d)'
  <2>1. /\ UNCHANGED <<up[d], down[d], acks[d], waiting[d], pendingAcks[d]>>
        /\ phase'[d] = phase[d] /\ handler'[d] = handler[d]
    BY <1>2, <1>6
  <2>. QED
    BY <2>1, StayAcks DEF Open, Connected
<1>. QED
  BY <1>5, <1>6 DEF AcksInv

LEMMA FlushAcks ==
    ASSUME SessionInv, AcksInv, NEW c \in Clients, Flush(c)
    PROVE  AcksInv'
<1>1. /\ phase[c] = "sending" /\ waiting[c] = 0
      /\ waiting' = [waiting EXCEPT ![c] = pendingAcks[c]]
      /\ pendingAcks' = [pendingAcks EXCEPT ![c] = 0]
      /\ UNCHANGED <<phase, up, down, acks, handler>>
  BY DEF Flush, Free
<1>2. waiting \in [Clients -> 0..Window] /\ pendingAcks \in [Clients -> 0..Window - 1]
  BY DEF SessionInv, ProgramTypes
<1>3. AcksOf(c)'
  <2>1. Expected(c)' = Expected(c)
    BY <1>1, <1>2, AcksAre DEF Expected
  <2>2. Owed(c)' = Owed(c)
    BY <1>1 DEF Owed, Acks
  <2>. QED
    BY <1>1, <2>1, <2>2 DEF AcksInv, AcksOf, Open, Connected
<1>4. ASSUME NEW d \in Clients, d # c PROVE AcksOf(d)'
  <2>1. UNCHANGED <<up[d], down[d], acks[d], waiting[d], pendingAcks[d]>>
    BY <1>1, <1>2, <1>4
  <2>. QED
    BY <1>1, <2>1, StayAcks DEF Open, Connected
<1>. QED
  BY <1>3, <1>4 DEF AcksInv

LEMMA TakeAcks ==
    ASSUME SessionInv, AcksInv, NEW c \in Clients, TakeAck(c)
    PROVE  AcksInv'
<1>1. /\ waiting[c] > 0 /\ acks[c] > 0
      /\ waiting' = [waiting EXCEPT ![c] = @ - 1] /\ acks' = [acks EXCEPT ![c] = @ - 1]
      /\ phase' = [phase EXCEPT ![c] = IF @ = "closing" /\ waiting[c] = 1 THEN "done" ELSE @]
      /\ UNCHANGED <<pendingAcks, up, down, handler>>
  BY DEF TakeAck
<1>2. /\ waiting \in [Clients -> 0..Window] /\ acks \in [Clients -> Nat]
      /\ phase \in [Clients -> {"new", "sending", "closing", "done", "failed", "gone"}]
  BY DEF SessionInv, ProgramTypes
<1>3. AcksOf(c)'
  <2>1. phase[c] # "new"
    BY <1>1, AcksAre DEF AcksInv, AcksOf, Silent
  <2>2. phase'[c] # "new" /\ (Open(c)' => Open(c))
    BY <1>1, <1>2, <2>1 DEF Open
  <2>3. waiting'[c] = waiting[c] - 1 /\ acks'[c] = acks[c] - 1 /\ Acks(c)' = Acks(c)
    BY <1>1, <1>2 DEF Acks
  <2>4. Expected(c)' = Expected(c) - 1 /\ Owed(c)' = Owed(c) - 1
    BY <1>1, <2>3, AcksAre DEF Expected, Owed
  <2>5. Open(c) /\ Connected(c) => Owed(c) = Expected(c)
    BY DEF AcksInv, AcksOf
  <2>. QED
    BY <1>1, <2>2, <2>4, <2>5 DEF AcksOf, Connected
<1>4. ASSUME NEW d \in Clients, d # c PROVE AcksOf(d)'
  <2>1. UNCHANGED <<up[d], down[d], acks[d], waiting[d], pendingAcks[d], phase[d]>>
    BY <1>1, <1>2, <1>4
  <2>. QED
    BY <1>1, <2>1, StayAcks DEF Open, Connected
<1>. QED
  BY <1>3, <1>4 DEF AcksInv

(* A result that arrives is no acknowledgement; an ACK is put in ack_queue.  *)
LEMMA ReceiveAcks ==
    ASSUME SessionInv, AcksInv, NEW c \in Clients, Receive(c)
    PROVE  AcksInv'
<1>1. /\ Open(c) /\ down[c] # <<>> /\ down' = [down EXCEPT ![c] = Tail(@)]
      /\ acks' = [acks EXCEPT ![c] = @ + 1] \/ acks' = acks
      /\ acks'[c] = acks[c] + (IF Head(down[c]).kind = "ACK" THEN 1 ELSE 0)
      /\ UNCHANGED <<phase, waiting, pendingAcks, up, handler>>
  <2>1. acks \in [Clients -> Nat]
    BY DEF SessionInv, ProgramTypes
  <2>2. CASE Head(down[c]).kind = "ACK"
    BY <2>1, <2>2 DEF Receive, program
  <2>3. CASE Head(down[c]).kind # "ACK"
    BY <2>1, <2>3 DEF Receive, program
  <2>. QED
    BY <2>2, <2>3
<1>2. acks \in [Clients -> Nat] /\ down \in [Clients -> Seq(DownMessages)]
  BY DEF SessionInv, ProgramTypes, LinkTypes
<1>3. Owed(c)' = Owed(c)
  <2>1. Acks(c) = Acks(c)' + (IF Head(down[c]).kind = "ACK" THEN 1 ELSE 0)
    <3>1. Cardinality(KindAt(down[c], "ACK")) = Cardinality(KindAt(Tail(down[c]), "ACK"))
                                                + (IF Head(down[c]).kind = "ACK" THEN 1 ELSE 0)
      BY <1>1, <1>2, KindTail
    <3>2. down'[c] = Tail(down[c])
      BY <1>1, <1>2
    <3>3. Acks(c)' = Cardinality(KindAt(Tail(down[c]), "ACK"))
      BY <3>2 DEF Acks, KindAt
    <3>. QED
      BY <3>1, <3>3, AcksAre
  <2>2. Acks(c)' \in Nat
    <3>1. down'[c] \in Seq(DownMessages)
      BY <1>1, <1>2, HeadTailProperties
    <3>2. Acks(c)' = Cardinality(KindAt(down'[c], "ACK"))
      BY DEF Acks, KindAt
    <3>. QED
      BY <3>1, <3>2, KindCount
  <2>3. Acks(c)' + acks'[c] = Acks(c) + acks[c]
    <3>. DEFINE k == IF Head(down[c]).kind = "ACK" THEN 1 ELSE 0
                a == Acks(c)
                b == Acks(c)'
                x == acks[c]
    <3>1. k \in Nat /\ a \in Nat /\ b \in Nat /\ x \in Nat
      BY <2>2, AcksAre
    <3>2. a = b + k /\ acks'[c] = x + k
      BY <1>1, <2>1
    <3>. HIDE DEF k, a, b, x
    <3>3. b + acks'[c] = a + x
      BY <3>1, <3>2
    <3>. QED
      BY <3>3 DEF a, b, x
  <2>4. acks'[c] \in Nat /\ up'[c] = up[c]
    BY <1>1, <1>2
  <2>. DEFINE a == Acks(c)
              b == Acks(c)'
              x == acks[c]
              y == acks'[c]
              u == Len(up[c])
  <2>5. a \in Nat /\ b \in Nat /\ x \in Nat /\ y \in Nat /\ u \in Nat /\ b + y = a + x
    BY <2>2, <2>3, <2>4, AcksAre
  <2>6. Owed(c) = u + a + x /\ Owed(c)' = u + b + y
    BY <2>4 DEF Owed
  <2>. HIDE DEF a, b, x, y, u
  <2>. QED
    BY <2>5, <2>6
<1>4. AcksOf(c)'
  <2>1. Expected(c)' = Expected(c) /\ phase'[c] # "new"
    BY <1>1 DEF Expected, Open
  <2>. QED
    BY <1>1, <1>3, <2>1 DEF AcksInv, AcksOf, Open, Connected
<1>5. ASSUME NEW d \in Clients, d # c PROVE AcksOf(d)'
  <2>1. UNCHANGED <<up[d], down[d], acks[d], waiting[d], pendingAcks[d], phase[d]>>
    BY <1>1, <1>2, <1>5
  <2>. QED
    BY <1>1, <2>1, StayAcks DEF Open, Connected
<1>. QED
  BY <1>4, <1>5 DEF AcksInv

LEMMA LeaveAcks ==
    ASSUME SessionInv, AcksInv, NEW c \in Clients, GiveUp(c) \/ Vanish(c)
    PROVE  AcksInv'
<1>1. /\ \E p \in {"failed", "gone"} : phase' = [phase EXCEPT ![c] = p]
      /\ UNCHANGED <<up, down, acks, waiting, pendingAcks, handler>>
  BY DEF GiveUp, Vanish
<1>2. ASSUME NEW d \in Clients PROVE AcksOf(d)'
  <2>1. (phase'[d] = "new" => phase[d] = "new") /\ (Open(d)' => Open(d))
    BY <1>1 DEF Open, SessionInv, ProgramTypes
  <2>. QED
    BY <1>1, <2>1, StayAcks DEF Connected
<1>. QED
  BY <1>2 DEF AcksInv

(* A message is handled and answered: with an ACK, if anyone is there.       *)
LEMMA HandleAcks ==
    ASSUME SessionInv, AcksInv, NEW c \in Clients, HandleRequest(c)
    PROVE  AcksInv'
<1>1. /\ handler[c] = "serving" /\ up[c] # <<>> /\ up' = [up EXCEPT ![c] = Tail(@)]
      /\ ToClient(c, Ack)
      /\ handler' = [handler EXCEPT ![c] = IF Head(up[c]) = "CLOSE" THEN "ended" ELSE @]
      /\ UNCHANGED <<phase, waiting, pendingAcks, acks>>
  BY DEF HandleRequest, Ack, program
<1>2. /\ up \in [Clients -> Seq(UpMessages)] /\ down \in [Clients -> Seq(DownMessages)]
      /\ handler \in [Clients -> {"none", "queued", "serving", "ended"}]
  BY DEF SessionInv, LinkTypes, PoolTypes
<1>3. AcksOf(c)'
  <2>1. phase[c] # "new"
    BY <1>1 DEF AcksInv, AcksOf, Silent
  <2>2. ASSUME Open(c) PROVE Owed(c)' = Owed(c)
    <3>1. down'[c] = Append(down[c], Ack) /\ up'[c] = Tail(up[c])
      BY <1>1, <1>2, <2>2 DEF ToClient
    <3>2. Len(up'[c]) = Len(up[c]) - 1 /\ Len(up'[c]) \in Nat
      BY <1>1, <1>2, <3>1, HeadTailProperties, EmptySeq, LenProperties
    <3>3. Acks(c)' = Acks(c) + 1
      <4>1. Ack \in DownMessages /\ Ack.kind = "ACK"
        BY DEF DownMessages, Ack
      <4>2. Cardinality(KindAt(Append(down[c], Ack), "ACK"))
               = Cardinality(KindAt(down[c], "ACK")) + 1
        BY <1>2, <4>1, KindAppend
      <4>3. Acks(c)' = Cardinality(KindAt(Append(down[c], Ack), "ACK"))
        BY <3>1 DEF Acks, KindAt
      <4>. QED
        BY <4>2, <4>3, AcksAre
    <3>. QED
      BY <1>1, <3>2, <3>3, AcksAre DEF Owed
  <2>3. Expected(c)' = Expected(c) /\ Connected(c)
    BY <1>1 DEF Expected, Connected
  <2>. QED
    BY <1>1, <2>1, <2>2, <2>3 DEF AcksInv, AcksOf, Open
<1>4. ASSUME NEW d \in Clients, d # c PROVE AcksOf(d)'
  <2>1. /\ UNCHANGED <<up[d], down[d], acks[d], waiting[d], pendingAcks[d], phase[d]>>
        /\ handler'[d] = handler[d]
    BY <1>1, <1>2, <1>4 DEF ToClient
  <2>. QED
    BY <2>1, StayAcks DEF Open, Connected
<1>. QED
  BY <1>3, <1>4 DEF AcksInv

(* A process that ends breaks the connection: nothing more is owed on it.    *)
LEMMA EndAcks ==
    ASSUME SessionInv, AcksInv, NEW c \in Clients, EndRequest(c)
    PROVE  AcksInv'
<1>1. /\ handler[c] = "serving" /\ up' = [up EXCEPT ![c] = <<>>]
      /\ handler' = [handler EXCEPT ![c] = "ended"]
      /\ UNCHANGED <<phase, waiting, pendingAcks, acks, down>>
  BY DEF EndRequest, program
<1>2. /\ up \in [Clients -> Seq(UpMessages)]
      /\ handler \in [Clients -> {"none", "queued", "serving", "ended"}]
      /\ phase[c] # "new"
  BY <1>1 DEF SessionInv, LinkTypes, PoolTypes
<1>3. ~Connected(c)' /\ phase'[c] # "new"
  BY <1>1, <1>2 DEF Connected
<1>4. ASSUME NEW d \in Clients, d # c PROVE AcksOf(d)'
  <2>1. UNCHANGED <<up[d], down[d], acks[d], waiting[d], pendingAcks[d], phase[d], handler[d]>>
    BY <1>1, <1>2, <1>4
  <2>. QED
    BY <2>1, StayAcks DEF Open, Connected
<1>5. AcksOf(c)'
  BY <1>3 DEF AcksOf
<1>. QED
  BY <1>4, <1>5 DEF AcksInv

LEMMA RestartAcks ==
    ASSUME SessionInv, AcksInv, Restart
    PROVE  AcksInv'
<1>1. /\ handler' = [c \in Clients |-> IF phase[c] = "new" THEN "none" ELSE "ended"]
      /\ up' = [c \in Clients |-> <<>>]
      /\ UNCHANGED <<phase, waiting, pendingAcks, acks, down>>
  BY DEF Restart, program
<1>2. ASSUME NEW c \in Clients PROVE AcksOf(c)'
  <2>1. CASE phase[c] = "new"
    BY <1>1, <2>1 DEF AcksInv, AcksOf, Silent, Open
  <2>2. CASE phase[c] # "new"
    <3>1. ~Connected(c)'
      BY <1>1, <2>2 DEF Connected
    <3>. QED
      BY <1>1, <2>2, <3>1 DEF AcksOf
  <2>. QED
    BY <2>1, <2>2
<1>. QED
  BY <1>2 DEF AcksInv

(* A result on its way is no acknowledgement.                                *)
LEMMA DeliverAcks ==
    ASSUME SessionInv, AcksInv, DeliverResult
    PROVE  AcksInv'
<1>1. UNCHANGED <<phase, waiting, pendingAcks, acks, up, handler>>
  BY DEF DeliverResult, program
<1>2. PICK c \in Clients : ToClient(c, Due)
  BY DEF DeliverResult, Match, SessionInv, PoolTypes
<1>3. down \in [Clients -> Seq(DownMessages)]
  BY DEF SessionInv, LinkTypes
<1>4. Due \in ResultMessages
  BY DueType DEF DeliverResult, SessionInv
<1>5. ASSUME NEW d \in Clients, d # c \/ ~Open(c) PROVE AcksOf(d)'
  <2>1. down'[d] = down[d]
    BY <1>2, <1>3, <1>5 DEF ToClient
  <2>. QED
    BY <1>1, <2>1, StayAcks DEF Open, Connected
<1>6. ASSUME Open(c) PROVE AcksOf(c)'
  <2>1. down'[c] = Append(down[c], Due)
    BY <1>2, <1>3, <1>6 DEF ToClient
  <2>2. Acks(c)' = Acks(c)
    <3>1. Due \in DownMessages /\ Due.kind # "ACK"
      BY <1>4 DEF ResultMessages, DownMessages
    <3>2. Cardinality(KindAt(Append(down[c], Due), "ACK")) = Cardinality(KindAt(down[c], "ACK"))
      BY <1>3, <3>1, KindAppend, KindCount
    <3>3. Acks(c)' = Cardinality(KindAt(Append(down[c], Due), "ACK"))
      BY <2>1 DEF Acks, KindAt
    <3>. QED
      BY <3>2, <3>3, AcksAre
  <2>3. Owed(c)' = Owed(c) /\ Expected(c)' = Expected(c)
    BY <1>1, <2>2 DEF Owed, Expected
  <2>. QED
    BY <1>1, <1>6, <2>3 DEF AcksInv, AcksOf, Open, Connected
<1>. QED
  BY <1>5, <1>6 DEF AcksInv

LEMMA ServeAcks ==
    ASSUME SessionInv, AcksInv, Serve
    PROVE  AcksInv'
<1>1. /\ pool # <<>> /\ handler' = [handler EXCEPT ![Head(pool)] = "serving"]
      /\ UNCHANGED <<phase, waiting, pendingAcks, acks, up, down>>
  BY DEF Serve, program
<1>2. /\ handler \in [Clients -> {"none", "queued", "serving", "ended"}]
      /\ Head(pool) \in Clients /\ handler[Head(pool)] = "queued"
  <2>1. /\ pool \in Seq(Clients)
        /\ \A c \in Clients : handler[c] = "queued" <=> \E i \in 1..Len(pool) : pool[i] = c
        /\ handler \in [Clients -> {"none", "queued", "serving", "ended"}]
    BY DEF SessionInv, PoolTypes
  <2>2. Len(pool) \in Nat \ {0} /\ Head(pool) = pool[1]
    BY <1>1, <2>1, EmptySeq, LenProperties, HeadTailProperties
  <2>3. 1 \in 1..Len(pool) /\ pool[1] \in Clients
    BY <2>1, <2>2, ElementOfSeq
  <2>. QED
    BY <2>1, <2>2, <2>3
<1>3. ASSUME NEW d \in Clients PROVE AcksOf(d)'
  <2>1. Connected(d)' => Connected(d)
    BY <1>1, <1>2 DEF Connected
  <2>. QED
    BY <1>1, <2>1, StayAcks DEF Open
<1>. QED
  BY <1>3 DEF AcksInv

LEMMA NextAcks == SessionInv /\ AcksInv /\ [Next]_vars => AcksInv'
<1> SUFFICES ASSUME SessionInv, AcksInv, [Next]_vars
             PROVE  AcksInv'
  OBVIOUS
<1>1. CASE UNCHANGED <<phase, up, down, acks, waiting, pendingAcks, handler>>
  BY <1>1, StayAcks DEF AcksInv, Open, Connected
<1>2. ASSUME NEW c \in Clients, NEW q \in Queries, Answer(c, q)
      PROVE  UNCHANGED <<phase, up, down, acks, waiting, pendingAcks, handler>>
  BY <1>2 DEF Answer, program
<1>3. ASSUME NackResult \/ UNCHANGED vars
      PROVE  UNCHANGED <<phase, up, down, acks, waiting, pendingAcks, handler>>
  BY <1>3 DEF NackResult, vars, program
<1>4. ASSUME NEW c \in Clients, ClientStep(c) PROVE AcksInv'
  BY <1>4, ConnectAcks, SendAcks, FlushAcks, TakeAcks, LeaveAcks DEF ClientStep
<1>. QED
  BY <1>1, <1>2, <1>3, <1>4, ReceiveAcks, LeaveAcks, HandleAcks, EndAcks, RestartAcks, DeliverAcks,
     ServeAcks DEF Next, GatewayStep

LEMMA InitAcks == Init => AcksInv
<1> SUFFICES ASSUME Init, NEW c \in Clients
             PROVE  AcksOf(c)
  BY DEF AcksInv
<1>. QED
  BY DEF Init, AcksOf, Silent, Open

(* While a client and its connection stand, the acknowledgements it expects  *)
(* are as many as the messages on their way, the ACKs on their way and those *)
(* it has not taken: none is sent twice, none is lost, none is a result.     *)
THEOREM AcksBalanceHolds == Spec => []AcksBalance
<1>1. AcksInv => AcksBalance
  BY DEF AcksInv, AcksOf, AcksBalance, Owed, Expected
<1>. QED
  BY <1>1, InitAcks, NextAcks, SpecSession, PTL DEF Spec

-----------------------------------------------------------------------------
(* The totals in the EOFs are those of the packets the stages get.           *)

Accounts == CHOOSE a \in 0..Len(Script) - 2 : Script = ScriptOf(a)

\* What a client writes, in order, and how many EOFs are in its first h messages.
Stream == [i \in 1..Len(Script) + 1 |-> IF i <= Len(Script) THEN Script[i] ELSE "CLOSE"]
EofsIn(h) == IF h <= Accounts THEN 0 ELSE IF h < Len(Script) THEN 1 ELSE 2

LEMMA StreamIs ==
    /\ Len(Script) \in Nat /\ Accounts \in 0..Len(Script) - 2
    /\ \A i \in 1..Len(Script) + 1 :
          /\ Stream[i] = "ACCOUNT" => i <= Accounts
          /\ Stream[i] = "TRANSACTION" => Accounts + 1 < i /\ i < Len(Script)
          /\ Stream[i] = "EOF" => i \in {Accounts + 1, Len(Script)}
          /\ i = Len(Script) + 1 <=> Stream[i] = "CLOSE"
<1>1. Len(Script) \in Nat
  BY ScriptType
<1>2. \E a \in 0..Len(Script) - 2 : Script = ScriptOf(a)
  BY ScriptAssumption
<1>3. Accounts \in 0..Len(Script) - 2 /\ Script = ScriptOf(Accounts)
  BY <1>2 DEF Accounts
<1>4. ASSUME NEW i \in 1..Len(Script)
      PROVE  Script[i] = IF i <= Accounts THEN "ACCOUNT"
                         ELSE IF i \in {Accounts + 1, Len(Script)} THEN "EOF" ELSE "TRANSACTION"
  BY <1>3 DEF ScriptOf
<1>. HIDE DEF Accounts
<1>5. ASSUME NEW i \in 1..Len(Script) + 1
      PROVE  /\ Stream[i] = "ACCOUNT" => i <= Accounts
             /\ Stream[i] = "TRANSACTION" => Accounts + 1 < i /\ i < Len(Script)
             /\ Stream[i] = "EOF" => i \in {Accounts + 1, Len(Script)}
             /\ i = Len(Script) + 1 <=> Stream[i] = "CLOSE"
  <2>1. CASE i \in 1..Len(Script)
    <3>1. Stream[i] = Script[i]
      BY <1>1, <2>1 DEF Stream
    <3>2. i # Len(Script) + 1 /\ i \in Nat
      BY <1>1, <2>1
    <3>3. CASE i <= Accounts
      BY <1>4, <2>1, <3>1, <3>2, <3>3
    <3>4. CASE i \in {Accounts + 1, Len(Script)} /\ ~(i <= Accounts)
      BY <1>4, <2>1, <3>1, <3>2, <3>4
    <3>5. CASE i \notin {Accounts + 1, Len(Script)} /\ ~(i <= Accounts)
      <4>1. Stream[i] = "TRANSACTION"
        BY <1>4, <2>1, <3>1, <3>5
      <4>2. Accounts + 1 < i /\ i < Len(Script)
        BY <1>1, <1>3, <2>1, <3>5
      <4>. QED
        BY <3>2, <4>1, <4>2
    <3>. QED
      BY <3>3, <3>4, <3>5
  <2>2. CASE i = Len(Script) + 1
    BY <1>1, <2>2 DEF Stream
  <2>. QED
    BY <1>1, <2>1, <2>2
<1>. QED
  BY <1>1, <1>3, <1>5

\* What waits in the connection follows what was handled, h messages.
Follows(c, h) ==
    /\ h + Len(up[c]) <= Len(Script) + 1
    /\ \A i \in 1..Len(up[c]) : up[c][i] = Stream[h + i]
    /\ eofs[c] = EofsIn(h)
    /\ phase[c] \in {"new", "sending"} => h + Len(up[c]) = sent[c]

Announced(c) ==
    /\ eofs[c] \in 0..2 /\ Len(announced[c]) = eofs[c]
    /\ eofs[c] >= 1 => announced[c][1] = totals[c].ACCOUNT
    /\ eofs[c] = 2 => announced[c][2] = totals[c].TRANSACTION
    /\ totals[c].ACCOUNT = forwarded[c].ACCOUNT
    /\ totals[c].TRANSACTION = forwarded[c].TRANSACTION

TotalsOf(c) == /\ Announced(c)
               /\ Connected(c) => \E h \in 0..Len(Script) + 1 : Follows(c, h)

TotalsInv == \A c \in Clients : TotalsOf(c)

LEMMA InitTotals == Init => TotalsInv
<1> SUFFICES ASSUME Init, NEW c \in Clients
             PROVE  TotalsOf(c)
  BY DEF TotalsInv
<1>1. Announced(c)
  BY DEF Init, Announced, NoPackets
<1>2. Follows(c, 0)
  <2>1. Len(up[c]) = 0 /\ eofs[c] = 0 /\ sent[c] = 0
    BY DEF Init
  <2>2. EofsIn(0) = 0 /\ Len(Script) \in Nat
    BY StreamIs DEF EofsIn
  <2>. QED
    BY <2>1, <2>2 DEF Follows
<1>3. 0 \in 0..Len(Script) + 1
  BY StreamIs
<1>. QED
  BY <1>1, <1>2, <1>3 DEF TotalsOf

(* A client whose connection and counters do not change.                     *)
LEMMA StayTotals ==
    ASSUME TotalsInv, NEW c \in Clients,
           UNCHANGED <<up[c], eofs[c], announced[c], totals[c], forwarded[c], sent[c]>>,
           phase'[c] \in {"new", "sending"} => phase[c] \in {"new", "sending"},
           Connected(c)' => Connected(c)
    PROVE  TotalsOf(c)'
<1>1. TotalsOf(c)
  BY DEF TotalsInv
<1>2. Announced(c)'
  BY <1>1 DEF TotalsOf, Announced
<1>3. \A h \in 0..Len(Script) + 1 : Follows(c, h) => Follows(c, h)'
  BY DEF Follows
<1>. QED
  BY <1>1, <1>2, <1>3 DEF TotalsOf

(* A message is written behind those that wait.                              *)
LEMMA SendTotals ==
    ASSUME SessionInv, TotalsInv, NEW c \in Clients, SendRecord(c) \/ SendEof(c) \/ Close(c)
    PROVE  TotalsInv'
<1>1. /\ phase[c] = "sending" /\ Connected(c)
      /\ UNCHANGED <<handler, session>>
      /\ sent[c] \in 0..Len(Script)
  BY DEF SendRecord, SendEof, Close, Free, SessionInv, ProgramTypes
<1>2. /\ sent[c] + 1 \in 1..Len(Script) + 1
      /\ ToGateway(c, Stream[sent[c] + 1])
      /\ phase'[c] \in {"new", "sending"} => sent'[c] = sent[c] + 1
  <2>1. CASE SendRecord(c) \/ SendEof(c)
    <3>1. /\ sent[c] < Len(Script) /\ ToGateway(c, Script[sent[c] + 1])
          /\ sent' = [sent EXCEPT ![c] = @ + 1]
      BY <2>1 DEF SendRecord, SendEof
    <3>2. sent[c] + 1 \in 1..Len(Script)
      BY <1>1, <3>1, StreamIs
    <3>3. Stream[sent[c] + 1] = Script[sent[c] + 1]
      BY <3>2, StreamIs DEF Stream
    <3>4. sent'[c] = sent[c] + 1
      BY <3>1 DEF SessionInv, ProgramTypes
    <3>. QED
      BY <3>1, <3>2, <3>3, <3>4, StreamIs
  <2>2. CASE Close(c)
    <3>1. /\ sent[c] = Len(Script) /\ ToGateway(c, "CLOSE")
          /\ phase' = [phase EXCEPT ![c] = "closing"]
      BY <2>2 DEF Close
    <3>2. Len(Script) + 1 \in 1..Len(Script) + 1
      BY StreamIs
    <3>3. Stream[Len(Script) + 1] = "CLOSE"
      BY <3>2, StreamIs
    <3>4. phase'[c] = "closing"
      BY <3>1 DEF SessionInv, ProgramTypes
    <3>. QED
      BY <3>1, <3>2, <3>3, <3>4
  <2>. QED
    BY <2>1, <2>2
<1>3. /\ up'[c] = Append(up[c], Stream[sent[c] + 1]) /\ Len(up[c]) \in Nat
      /\ Len(up'[c]) = Len(up[c]) + 1
      /\ \A i \in 1..Len(up[c]) : up'[c][i] = up[c][i]
      /\ up'[c][Len(up[c]) + 1] = Stream[sent[c] + 1]
  <2>1. up \in [Clients -> Seq(UpMessages)] /\ up[c] \in Seq(UpMessages)
    BY DEF SessionInv, LinkTypes
  <2>2. up'[c] = Append(up[c], Stream[sent[c] + 1])
    BY <1>2, <2>1 DEF ToGateway
  <2>3. Stream[sent[c] + 1] \in UpMessages
    <3>1. CASE sent[c] + 1 \in 1..Len(Script)
      BY <3>1, ScriptType DEF Stream, UpMessages
    <3>2. CASE sent[c] + 1 = Len(Script) + 1
      BY <1>2, <3>2, StreamIs DEF UpMessages
    <3>. QED
      BY <1>2, <3>1, <3>2, StreamIs
  <2>. QED
    BY <2>1, <2>2, <2>3, AppendProperties, LenProperties
<1>4. TotalsOf(c)'
  <2>1. PICK h \in 0..Len(Script) + 1 : Follows(c, h)
    BY <1>1 DEF TotalsInv, TotalsOf
  <2>2. h + Len(up[c]) = sent[c] /\ eofs[c] = EofsIn(h)
    BY <1>1, <2>1 DEF Follows
  <2>3. h + Len(up'[c]) = sent[c] + 1 /\ h + Len(up'[c]) <= Len(Script) + 1
    BY <1>2, <1>3, <2>2, StreamIs
  <2>4. ASSUME NEW i \in 1..Len(up'[c])
        PROVE  up'[c][i] = Stream[h + i]
    <3>1. CASE i \in 1..Len(up[c])
      BY <1>3, <2>1, <3>1 DEF Follows
    <3>2. CASE i = Len(up[c]) + 1
      <4>1. h + i = sent[c] + 1
        BY <1>3, <2>2, <3>2
      <4>. QED
        BY <1>3, <3>2, <4>1
    <3>. QED
      BY <1>3, <3>1, <3>2
  <2>5. Follows(c, h)'
    BY <1>1, <1>2, <2>2, <2>3, <2>4 DEF Follows, session
  <2>6. Announced(c)'
    BY <1>1 DEF TotalsInv, TotalsOf, Announced, session
  <2>. QED
    BY <2>5, <2>6 DEF TotalsOf
<1>5. ASSUME NEW d \in Clients, d # c PROVE TotalsOf(d)'
  <2>1. up'[d] = up[d] /\ phase'[d] = phase[d] /\ sent'[d] = sent[d]
    BY <1>2, <1>5 DEF ToGateway, SendRecord, SendEof, Close, SessionInv, LinkTypes, ProgramTypes
  <2>. QED
    BY <1>1, <2>1, StayTotals DEF Connected, session
<1>. QED
  BY <1>4, <1>5 DEF TotalsInv

LEMMA SecondTotal ==
    ASSUME NEW first \in Seq(Nat), Len(first) = 1, NEW total \in Nat
    PROVE  LET both == Append(first, total)
           IN  Len(both) = 2 /\ both[2] = total /\ both[1] = first[1]
<1>. DEFINE both == Append(first, total)
<1>1. Len(both) = Len(first) + 1
  BY AppendProperties
<1>2. both[Len(first) + 1] = total
  BY AppendProperties
<1>3. \A i \in 1..Len(first) : both[i] = first[i]
  BY AppendProperties
<1>. HIDE DEF both
<1>4. Len(both) = 2 /\ both[2] = total /\ both[1] = first[1]
  BY <1>1, <1>2, <1>3
<1>. QED
  BY <1>4 DEF both

(* A packet is counted where it is handed on, before its EOF comes.          *)
LEMMA HandleTotals ==
    ASSUME SessionInv, TotalsInv, NEW c \in Clients, HandleRequest(c)
    PROVE  TotalsInv'
<1>. DEFINE L == Len(Script)
            msg == Head(up[c])
<1>1. /\ handler[c] = "serving" /\ up[c] # <<>> /\ up' = [up EXCEPT ![c] = Tail(@)]
      /\ handler' = [handler EXCEPT ![c] = IF msg = "CLOSE" THEN "ended" ELSE @]
      /\ UNCHANGED <<phase, sent>>
      /\ msg = "ACCOUNT" => HandleAccount(c)
      /\ msg = "TRANSACTION" => HandleTransaction(c)
      /\ msg = "EOF" => HandleEof(c)
      /\ msg = "CLOSE" => UNCHANGED session
  BY DEF HandleRequest, program
<1>2. /\ up \in [Clients -> Seq(UpMessages)]
      /\ handler \in [Clients -> {"none", "queued", "serving", "ended"}]
      /\ SessionTypes
  BY DEF SessionInv, LinkTypes, PoolTypes
<1>3. PICK h \in 0..L + 1 : Follows(c, h)
  BY <1>1 DEF TotalsInv, TotalsOf, Connected
<1>4. /\ msg = up[c][1] /\ msg \in UpMessages /\ Len(up[c]) \in Nat \ {0}
      /\ up'[c] = Tail(up[c]) /\ Len(up'[c]) = Len(up[c]) - 1
      /\ \A i \in 1..Len(up'[c]) : up'[c][i] = up[c][i + 1]
  <2>1. Len(up[c]) \in Nat \ {0}
    BY <1>1, <1>2, EmptySeq, LenProperties
  <2>. QED
    BY <1>1, <1>2, <2>1, HeadTailProperties
<1>5. h + 1 \in 1..L + 1 /\ msg = Stream[h + 1] /\ L \in Nat
  BY <1>3, <1>4, StreamIs DEF Follows
<1>. HIDE DEF msg, L
<1>6. /\ Announced(c)' /\ eofs'[c] = EofsIn(IF msg = "CLOSE" THEN h ELSE h + 1)
      /\ \A d \in Clients : d # c => /\ UNCHANGED <<eofs[d], announced[d]>>
                                     /\ UNCHANGED <<totals[d], forwarded[d]>>
  <2>0. Announced(c) /\ eofs[c] = EofsIn(h) /\ eofs \in [Clients -> Nat] /\ Accounts \in 0..L - 2
    BY <1>2, <1>3, StreamIs DEF TotalsInv, TotalsOf, Follows, SessionTypes, L
  <2>1. CASE msg = "ACCOUNT"
    <3>1. /\ totals' = Add(totals, c, "ACCOUNT") /\ forwarded' = Add(forwarded, c, "ACCOUNT")
          /\ UNCHANGED <<eofs, announced>>
      BY <1>1, <2>1 DEF HandleAccount
    <3>2. h + 1 <= Accounts
      BY <1>5, <2>1, StreamIs DEF L
    <3>3. eofs[c] = 0 /\ EofsIn(h + 1) = 0
      BY <1>3, <2>0, <3>2 DEF EofsIn
    <3>4. /\ \A d \in Clients : d # c => UNCHANGED <<totals[d], forwarded[d]>>
          /\ totals'[c].ACCOUNT = totals[c].ACCOUNT + 1
          /\ forwarded'[c].ACCOUNT = forwarded[c].ACCOUNT + 1
          /\ totals'[c].TRANSACTION = totals[c].TRANSACTION
          /\ forwarded'[c].TRANSACTION = forwarded[c].TRANSACTION
      BY <1>2, <3>1, AddType DEF SessionTypes
    <3>5. Announced(c)'
      BY <2>0, <3>1, <3>3, <3>4 DEF Announced
    <3>. QED
      BY <2>1, <3>1, <3>3, <3>4, <3>5
  <2>2. CASE msg = "TRANSACTION"
    <3>1. /\ \/ UNCHANGED <<totals, forwarded>>
             \/ /\ totals' = Add(totals, c, "TRANSACTION")
                /\ forwarded' = Add(forwarded, c, "TRANSACTION")
          /\ UNCHANGED <<eofs, announced>>
      BY <1>1, <2>2 DEF HandleTransaction
    <3>2. Accounts + 1 < h + 1 /\ h + 1 < L
      BY <1>5, <2>2, StreamIs DEF L
    <3>3. eofs[c] = 1 /\ EofsIn(h + 1) = 1
      BY <1>3, <1>5, <2>0, <3>2 DEF EofsIn, L
    <3>4. CASE UNCHANGED <<totals, forwarded>>
      <4>1. Announced(c)'
        BY <2>0, <3>1, <3>4 DEF Announced
      <4>. QED
        BY <2>2, <3>1, <3>3, <3>4, <4>1
    <3>5. CASE /\ totals' = Add(totals, c, "TRANSACTION")
               /\ forwarded' = Add(forwarded, c, "TRANSACTION")
      <4>1. /\ \A d \in Clients : d # c => UNCHANGED <<totals[d], forwarded[d]>>
            /\ totals'[c].TRANSACTION = totals[c].TRANSACTION + 1
            /\ forwarded'[c].TRANSACTION = forwarded[c].TRANSACTION + 1
            /\ totals'[c].ACCOUNT = totals[c].ACCOUNT
            /\ forwarded'[c].ACCOUNT = forwarded[c].ACCOUNT
        BY <1>2, <3>5, AddType DEF SessionTypes
      <4>2. Announced(c)'
        BY <2>0, <3>1, <3>3, <4>1 DEF Announced
      <4>. QED
        BY <2>2, <3>1, <3>3, <4>1, <4>2
    <3>. QED
      BY <3>1, <3>4, <3>5
  <2>3. CASE msg = "EOF"
    <3>1. /\ eofs' = [eofs EXCEPT ![c] = @ + 1] /\ UNCHANGED <<totals, forwarded>>
          /\ \A d \in Clients : d # c => announced'[d] = announced[d]
          /\ eofs[c] = 0 => announced'[c] = Append(announced[c], totals[c].ACCOUNT)
          /\ eofs[c] = 1 => announced'[c] = Append(announced[c], totals[c].TRANSACTION)
      BY <1>1, <1>2, <2>3, EofSession
    <3>2. h + 1 \in {Accounts + 1, L}
      BY <1>5, <2>3, StreamIs DEF L
    <3>3. /\ h + 1 = Accounts + 1 => EofsIn(h) = 0 /\ EofsIn(h + 1) = 1
          /\ h + 1 = L => EofsIn(h) = 1 /\ EofsIn(h + 1) = 2
      BY <1>3, <1>5, <2>0 DEF EofsIn, L
    <3>4. eofs'[c] = eofs[c] + 1 /\ eofs[c] \in {0, 1} /\ EofsIn(h + 1) = eofs'[c]
      BY <2>0, <3>1, <3>2, <3>3
    <3>5. /\ announced[c] \in Seq(Nat) /\ totals[c].ACCOUNT \in Nat /\ totals[c].TRANSACTION \in Nat
      BY <1>2 DEF SessionTypes, Counters
    <3>6. Announced(c)'
      <4>1. Len(announced[c]) = eofs[c] /\ (eofs[c] = 1 => announced[c][1] = totals[c].ACCOUNT)
        BY <2>0, <3>4 DEF Announced
      <4>2. CASE eofs[c] = 0
        <5>0. announced'[c] = Append(announced[c], totals[c].ACCOUNT) /\ Len(announced[c]) = 0
          BY <3>1, <4>1, <4>2
        <5>1. Len(announced'[c]) = 1 /\ announced'[c][1] = totals[c].ACCOUNT
          BY <3>5, <5>0, AppendProperties
        <5>. QED
          BY <2>0, <3>1, <3>4, <4>2, <5>1 DEF Announced
      <4>3. CASE eofs[c] = 1
        <5>0. /\ announced'[c] = Append(announced[c], totals[c].TRANSACTION)
              /\ Len(announced[c]) = 1 /\ announced[c][1] = totals[c].ACCOUNT
          BY <3>1, <4>1, <4>3
        <5>1. /\ Len(announced'[c]) = 2 /\ announced'[c][2] = totals[c].TRANSACTION
              /\ announced'[c][1] = announced[c][1]
          BY <3>5, <5>0, SecondTotal
        <5>. QED
          BY <2>0, <3>1, <3>4, <4>3, <5>0, <5>1 DEF Announced
      <4>. QED
        BY <3>4, <4>2, <4>3
    <3>7. \A d \in Clients : d # c => eofs'[d] = eofs[d]
      BY <2>0, <3>1
    <3>. QED
      BY <2>3, <3>1, <3>4, <3>6, <3>7
  <2>4. CASE msg = "CLOSE"
    <3>1. UNCHANGED <<eofs, announced, totals, forwarded>>
      BY <1>1, <2>4 DEF session
    <3>2. Announced(c)'
      BY <2>0, <3>1 DEF Announced
    <3>. QED
      BY <2>0, <2>4, <3>1, <3>2
  <2>. QED
    BY <1>4, <2>1, <2>2, <2>3, <2>4 DEF UpMessages
<1>7. TotalsOf(c)'
  <2>1. CASE msg = "CLOSE"
    <3>1. ~Connected(c)'
      BY <1>1, <1>2, <2>1 DEF Connected
    <3>. QED
      BY <1>6, <3>1 DEF TotalsOf
  <2>2. CASE msg # "CLOSE"
    <3>1. eofs'[c] = EofsIn(h + 1)
      BY <1>6, <2>2
    <3>. DEFINE u == Len(up[c])
                v == Len(up'[c])
    <3>0. u \in Nat \ {0} /\ v = u - 1 /\ h \in Nat /\ h + 1 \in 0..L + 1
      BY <1>3, <1>4, <1>5
    <3>. HIDE DEF u, v
    <3>1a. (h + 1) + v = h + u
      BY <3>0
    <3>1b. \A i \in 1..v : i + 1 \in 1..u /\ (h + 1) + i = h + (i + 1)
      BY <3>0
    <3>2. /\ (h + 1) + Len(up'[c]) = h + Len(up[c]) /\ h + 1 \in 0..L + 1
          /\ \A i \in 1..Len(up'[c]) : /\ i + 1 \in 1..Len(up[c])
                                       /\ (h + 1) + i = h + (i + 1)
      BY <3>0, <3>1a, <3>1b DEF u, v
    <3>3. \A i \in 1..Len(up'[c]) : up'[c][i] = Stream[(h + 1) + i]
      BY <1>3, <1>4, <3>2 DEF Follows
    <3>4. Follows(c, h + 1)'
      BY <1>1, <1>3, <3>1, <3>2, <3>3 DEF Follows, L
    <3>. QED
      BY <1>6, <3>2, <3>4 DEF TotalsOf, L
  <2>. QED
    BY <2>1, <2>2
<1>8. ASSUME NEW d \in Clients, d # c PROVE TotalsOf(d)'
  <2>1. up'[d] = up[d] /\ handler'[d] = handler[d]
    BY <1>1, <1>2, <1>8
  <2>. QED
    BY <1>1, <1>6, <1>8, <2>1, StayTotals DEF Connected
<1>. QED
  BY <1>7, <1>8 DEF TotalsInv

LEMMA NextTotals == SessionInv /\ AcksInv /\ TotalsInv /\ [Next]_vars => TotalsInv'
<1> SUFFICES ASSUME SessionInv, AcksInv, TotalsInv, [Next]_vars
             PROVE  TotalsInv'
  OBVIOUS
<1>1. /\ handler \in [Clients -> {"none", "queued", "serving", "ended"}]
      /\ up \in [Clients -> Seq(UpMessages)]
      /\ phase \in [Clients -> {"new", "sending", "closing", "done", "failed", "gone"}]
  BY DEF SessionInv, LinkTypes, PoolTypes, ProgramTypes
<1>2. ASSUME UNCHANGED <<up, sent, session>>,
             \A c \in Clients : Connected(c)' => Connected(c),
             \A c \in Clients : phase'[c] \in {"new", "sending"} => phase[c] \in {"new", "sending"}
      PROVE  TotalsInv'
  BY <1>2, StayTotals DEF TotalsInv, session
<1>3. ASSUME NEW c \in Clients, Connect(c) PROVE TotalsInv'
  <2>1. /\ phase[c] = "new" /\ phase' = [phase EXCEPT ![c] = "sending"]
        /\ handler' = [handler EXCEPT ![c] = "queued"] /\ UNCHANGED <<up, sent, session>>
    BY <1>3 DEF Connect
  <2>2. handler[c] = "none"
    BY <2>1 DEF SessionInv, PoolTypes
  <2>. QED
    BY <1>1, <1>2, <2>1, <2>2 DEF Connected
<1>4. ASSUME NEW c \in Clients, Flush(c) \/ TakeAck(c) \/ GiveUp(c) \/ Receive(c) \/ Vanish(c)
      PROVE  TotalsInv'
  <2>1. /\ UNCHANGED <<up, sent, session, handler>>
        /\ phase' = phase \/ \E p \in {"done", "failed", "gone"} : phase' = [phase EXCEPT ![c] = p]
    <3>1. CASE TakeAck(c)
      BY <1>1, <3>1 DEF TakeAck
    <3>. QED
      BY <1>4, <3>1 DEF Flush, GiveUp, Receive, Vanish, program
  <2>. QED
    BY <1>1, <1>2, <2>1 DEF Connected
<1>5. ASSUME NEW c \in Clients, EndRequest(c) PROVE TotalsInv'
  <2>1. /\ up' = [up EXCEPT ![c] = <<>>] /\ handler' = [handler EXCEPT ![c] = "ended"]
        /\ UNCHANGED <<phase, sent, session>>
    BY <1>5 DEF EndRequest, program
  <2>2. ~Connected(c)'
    BY <1>1, <2>1 DEF Connected
  <2>3. TotalsOf(c)'
    BY <2>1, <2>2 DEF TotalsInv, TotalsOf, Announced, session
  <2>4. ASSUME NEW d \in Clients, d # c PROVE TotalsOf(d)'
    <3>1. up'[d] = up[d] /\ handler'[d] = handler[d]
      BY <1>1, <2>1, <2>4
    <3>. QED
      BY <2>1, <3>1, StayTotals DEF Connected, session
  <2>. QED
    BY <2>3, <2>4 DEF TotalsInv
<1>6. CASE Serve
  <2>1. /\ pool # <<>> /\ handler' = [handler EXCEPT ![Head(pool)] = "serving"]
        /\ UNCHANGED <<phase, sent, up, session>>
    BY <1>6 DEF Serve, program
  <2>2. Head(pool) \in Clients /\ handler[Head(pool)] = "queued"
    <3>1. /\ pool \in Seq(Clients)
          /\ \A c \in Clients : handler[c] = "queued" <=> \E i \in 1..Len(pool) : pool[i] = c
      BY DEF SessionInv, PoolTypes
    <3>2. Len(pool) \in Nat \ {0} /\ Head(pool) = pool[1]
      BY <2>1, <3>1, EmptySeq, LenProperties, HeadTailProperties
    <3>3. 1 \in 1..Len(pool) /\ pool[1] \in Clients
      BY <3>1, <3>2, ElementOfSeq
    <3>. QED
      BY <3>1, <3>2, <3>3
  <2>. QED
    BY <1>1, <1>2, <2>1, <2>2 DEF Connected
<1>7. CASE Restart
  <2>1. /\ handler' = [c \in Clients |-> IF phase[c] = "new" THEN "none" ELSE "ended"]
        /\ up' = [c \in Clients |-> <<>>]
        /\ UNCHANGED <<phase, sent, session>>
    BY <1>7 DEF Restart, program
  <2>2. ASSUME NEW c \in Clients PROVE TotalsOf(c)'
    <3>1. Announced(c)'
      BY <2>1 DEF TotalsInv, TotalsOf, Announced, session
    <3>2. CASE phase[c] = "new"
      <4>1. up'[c] = up[c] /\ (Connected(c)' => Connected(c))
        BY <2>1, <3>2 DEF AcksInv, AcksOf, Silent, Connected, SessionInv, PoolTypes
      <4>. QED
        BY <2>1, <4>1, StayTotals DEF session
    <3>3. CASE phase[c] # "new"
      <4>1. ~Connected(c)'
        BY <2>1, <3>3 DEF Connected
      <4>. QED
        BY <3>1, <4>1 DEF TotalsOf
    <3>. QED
      BY <3>2, <3>3
  <2>. QED
    BY <2>2 DEF TotalsInv
<1>8. ASSUME NEW c \in Clients, NEW q \in Queries, Answer(c, q) PROVE TotalsInv'
  BY <1>2, <1>8 DEF Answer, program, Connected
<1>9. CASE DeliverResult \/ NackResult
  BY <1>2, <1>9 DEF DeliverResult, NackResult, program, Connected
<1>10. CASE UNCHANGED vars
  BY <1>2, <1>10 DEF vars, session, Connected
<1>. QED
  BY <1>3, <1>4, <1>5, <1>6, <1>7, <1>8, <1>9, <1>10, SendTotals, HandleTotals
     DEF Next, ClientStep, GatewayStep

LEMMA SpecAcks == Spec => []AcksInv
BY InitAcks, NextAcks, SpecSession, PTL DEF Spec

(* The totals in the EOFs that the gateway hands on are the numbers of       *)
(* packets it handed to the stages, for good: no account follows the first   *)
(* EOF and no transaction the second one.                                    *)
THEOREM EofTotalsExactHolds == Spec => []EofTotalsExact
<1>1. TotalsInv => EofTotalsExact
  BY DEF TotalsInv, TotalsOf, Announced, EofTotalsExact
<1>. QED
  BY <1>1, InitTotals, NextTotals, SpecAcks, SpecSession, PTL DEF Spec

-----------------------------------------------------------------------------
(***************************************************************************)
(* Results: without a restart of the gateway, each is in one place at      *)
(* most, in the queue, on its way or received, and a row never behind its  *)
(* EOF.                                                                    *)
(***************************************************************************)

\* The i-th message of the b-th batch is still to be delivered.
IsDue(b, i) == /\ b \in 1..Len(results) /\ i \in 1..Len(results[b])
               /\ b = 1 => next <= i

RowOf(m, n) == m.kind = "ROW" /\ n.kind = "EOF" /\ m.query = n.query /\ m.client = n.client

DueMessages == {m \in ResultMessages : \E b, i \in Nat : IsDue(b, i) /\ results[b][i] = m}

DueOnce ==
    \A a, b, i, j \in Nat :
        IsDue(a, i) /\ IsDue(b, j) /\ results[a][i] = results[b][j] => a = b /\ i = j

DueInOrder ==
    \A a, b, i, j \in Nat :
        IsDue(a, i) /\ IsDue(b, j) /\ RowOf(results[a][i], results[b][j]) =>
            a < b \/ (a = b /\ i < j)

LEMMA DuePlaceType ==
    ASSUME PipelineTypes, NEW b \in Nat, NEW i \in Nat, IsDue(b, i)
    PROVE  results[b][i] \in ResultMessages
<1>1. results \in Seq(ResultBatches) /\ b \in 1..Len(results) /\ i \in 1..Len(results[b])
  BY DEF PipelineTypes, IsDue
<1>2. results[b] \in Seq(ResultMessages)
  BY <1>1, ElementOfSeq DEF ResultBatches
<1>. QED
  BY <1>1, <1>2, ElementOfSeq

(* A message that is published is due after all the others.                  *)
LEMMA PublishPlace ==
    ASSUME PipelineTypes, NEW msg \in ResultMessages, Publish(msg), UNCHANGED next
    PROVE  \E B, I \in Nat :
              /\ IsDue(B, I)' /\ results'[B][I] = msg
              /\ \A b, i \in Nat : IsDue(b, i) => b < B \/ (b = B /\ i < I)
              /\ \A b, i \in Nat : IsDue(b, i) => IsDue(b, i)' /\ results'[b][i] = results[b][i]
              /\ \A b, i \in Nat : IsDue(b, i)' => IsDue(b, i) \/ (b = B /\ i = I)
<1>0. /\ results \in Seq(ResultBatches) /\ Len(results) \in Nat /\ next \in Nat \ {0}
      /\ Len(results) = 0 => next = 1
  BY BoundTypes, LenProperties, EmptySeq DEF PipelineTypes
<1>. PICK n \in Nat : n = Len(results)
  BY <1>0
<1>1. results \in Seq(ResultBatches) /\ next \in Nat \ {0} /\ (n = 0 => next = 1)
  BY <1>0
<1>2. CASE /\ Len(results') = n + 1
           /\ \A i \in 1..n : results'[i] = results[i]
           /\ results'[n + 1] = <<msg>>
  <2>1. Len(results'[n + 1]) = 1 /\ results'[n + 1][1] = msg
    BY <1>2
  <2>2. IsDue(n + 1, 1)'
    <3>1. n + 1 \in 1..Len(results') /\ 1 \in 1..Len(results'[n + 1])
      BY <1>1, <1>2, <2>1
    <3>2. n + 1 = 1 => next' <= 1
      BY <1>1
    <3>. QED
      BY <3>1, <3>2 DEF IsDue
  <2>3. ASSUME NEW b \in Nat, NEW i \in Nat, IsDue(b, i)
        PROVE  b < n + 1 /\ IsDue(b, i)' /\ results'[b][i] = results[b][i]
    <3>1. b \in 1..n /\ b \in 1..n + 1 /\ b < n + 1
      BY <1>1, <2>3 DEF IsDue
    <3>2. results'[b] = results[b]
      BY <1>2, <3>1
    <3>. QED
      BY <1>2, <2>3, <3>1, <3>2 DEF IsDue
  <2>4. ASSUME NEW b \in Nat, NEW i \in Nat, IsDue(b, i)', b # n + 1
        PROVE  IsDue(b, i)
    <3>1. b \in 1..n
      BY <1>1, <1>2, <2>4 DEF IsDue
    <3>2. results'[b] = results[b]
      BY <1>2, <3>1
    <3>. QED
      BY <2>4, <3>1, <3>2 DEF IsDue
  <2>5. ASSUME NEW i \in Nat, IsDue(n + 1, i)'
        PROVE  i = 1
    BY <2>1, <2>5 DEF IsDue
  <2>6. n + 1 \in Nat /\ 1 \in Nat
    BY <1>1
  <2>7. /\ IsDue(n + 1, 1)' /\ results'[n + 1][1] = msg
        /\ \A b, i \in Nat : IsDue(b, i) => b < n + 1 \/ (b = n + 1 /\ i < 1)
        /\ \A b, i \in Nat : IsDue(b, i) => IsDue(b, i)' /\ results'[b][i] = results[b][i]
        /\ \A b, i \in Nat : IsDue(b, i)' => IsDue(b, i) \/ (b = n + 1 /\ i = 1)
    BY <2>1, <2>2, <2>3, <2>4, <2>5
  <2>. QED
    BY <2>6, <2>7
<1>3. CASE /\ n > 1 /\ Len(results') = n
           /\ \A i \in 1..n - 1 : results'[i] = results[i]
           /\ results'[n] = Append(results[n], msg)
  <2>0. results[n] \in Seq(ResultMessages) /\ Len(results[n]) \in Nat
    <3>1. results[n] \in ResultBatches
      BY <1>1, <1>3, ElementOfSeq
    <3>. QED
      BY <3>1, LenProperties DEF ResultBatches
  <2>. PICK k \in Nat : k = Len(results[n])
    BY <2>0
  <2>1. results[n] \in Seq(ResultMessages)
    BY <2>0
  <2>2. /\ Len(results'[n]) = k + 1 /\ results'[n][k + 1] = msg
        /\ \A i \in 1..k : results'[n][i] = results[n][i]
    BY <1>3, <2>1, AppendProperties
  <2>3. IsDue(n, k + 1)'
    <3>1. n \in 1..n /\ n # 1
      BY <1>1, <1>3
    <3>2. k + 1 \in 1..k + 1
      OBVIOUS
    <3>3. Len(results') = n /\ Len(results'[n]) = k + 1
      BY <1>3, <2>2
    <3>. QED
      BY <3>1, <3>2, <3>3 DEF IsDue
  <2>4. ASSUME NEW b \in Nat, NEW i \in Nat, IsDue(b, i)
        PROVE  /\ b < n \/ (b = n /\ i < k + 1)
               /\ IsDue(b, i)' /\ results'[b][i] = results[b][i]
    <3>1. CASE b = n
      <4>1. i \in 1..k /\ i \in 1..k + 1 /\ i < k + 1
        BY <2>1, <2>4, <3>1 DEF IsDue
      <4>. QED
        BY <1>1, <1>3, <2>2, <2>4, <3>1, <4>1 DEF IsDue
    <3>2. CASE b # n
      <4>1. b \in 1..n - 1 /\ b < n
        BY <1>1, <2>4, <3>2 DEF IsDue
      <4>2. results'[b] = results[b]
        BY <1>3, <4>1
      <4>. QED
        BY <1>3, <2>4, <4>1, <4>2 DEF IsDue
    <3>. QED
      BY <3>1, <3>2
  <2>5. ASSUME NEW b \in Nat, NEW i \in Nat, IsDue(b, i)', ~(b = n /\ i = k + 1)
        PROVE  IsDue(b, i)
    <3>1. CASE b = n
      <4>1. i \in 1..k
        BY <2>1, <2>2, <2>5, <3>1 DEF IsDue
      <4>. QED
        BY <1>1, <1>3, <2>5, <3>1, <4>1 DEF IsDue
    <3>2. CASE b # n
      <4>1. b \in 1..n - 1
        BY <1>1, <1>3, <2>5, <3>2 DEF IsDue
      <4>2. results'[b] = results[b]
        BY <1>3, <4>1
      <4>. QED
        BY <1>3, <2>5, <4>1, <4>2 DEF IsDue
    <3>. QED
      BY <3>1, <3>2
  <2>6. n \in Nat /\ k + 1 \in Nat
    BY <1>1, <2>1
  <2>7. /\ IsDue(n, k + 1)' /\ results'[n][k + 1] = msg
        /\ \A b, i \in Nat : IsDue(b, i) => b < n \/ (b = n /\ i < k + 1)
        /\ \A b, i \in Nat : IsDue(b, i) => IsDue(b, i)' /\ results'[b][i] = results[b][i]
        /\ \A b, i \in Nat : IsDue(b, i)' => IsDue(b, i) \/ (b = n /\ i = k + 1)
    BY <2>2, <2>3, <2>4, <2>5
  <2>. QED
    BY <2>6, <2>7
<1>. QED
  BY <1>1, <1>2, <1>3, PublishIs

LEMMA PublishDue ==
    ASSUME PipelineTypes, NEW msg \in ResultMessages, Publish(msg), UNCHANGED next,
           DueOnce, DueInOrder, msg \notin DueMessages,
           \A n \in DueMessages : ~RowOf(msg, n)
    PROVE  DueOnce' /\ DueInOrder' /\ DueMessages' = DueMessages \cup {msg}
<1>1. PICK B, I \in Nat :
         /\ IsDue(B, I)' /\ results'[B][I] = msg
         /\ \A b, i \in Nat : IsDue(b, i) => b < B \/ (b = B /\ i < I)
         /\ \A b, i \in Nat : IsDue(b, i) => IsDue(b, i)' /\ results'[b][i] = results[b][i]
         /\ \A b, i \in Nat : IsDue(b, i)' => IsDue(b, i) \/ (b = B /\ i = I)
  BY PublishPlace
<1>2. ASSUME NEW b \in Nat, NEW i \in Nat, IsDue(b, i)
      PROVE  results[b][i] \in DueMessages
  BY <1>2, DuePlaceType DEF DueMessages
<1>3. DueOnce'
  <2> SUFFICES ASSUME NEW a \in Nat, NEW b \in Nat, NEW i \in Nat, NEW j \in Nat,
                      IsDue(a, i)', IsDue(b, j)', results'[a][i] = results'[b][j]
               PROVE  a = b /\ i = j
    BY DEF DueOnce
  <2>1. CASE IsDue(a, i) /\ IsDue(b, j)
    BY <1>1, <2>1 DEF DueOnce
  <2>2. CASE IsDue(a, i) /\ b = B /\ j = I
    BY <1>1, <1>2, <2>2
  <2>3. CASE IsDue(b, j) /\ a = B /\ i = I
    BY <1>1, <1>2, <2>3
  <2>. QED
    BY <1>1, <2>1, <2>2, <2>3
<1>4. DueInOrder'
  <2> SUFFICES ASSUME NEW a \in Nat, NEW b \in Nat, NEW i \in Nat, NEW j \in Nat,
                      IsDue(a, i)', IsDue(b, j)', RowOf(results'[a][i], results'[b][j])
               PROVE  a < b \/ (a = b /\ i < j)
    BY DEF DueInOrder
  <2>1. CASE IsDue(a, i) /\ IsDue(b, j)
    <3>1. RowOf(results[a][i], results[b][j])
      BY <1>1, <2>1
    <3>. QED
      BY <2>1, <3>1 DEF DueInOrder
  <2>2. CASE IsDue(a, i) /\ b = B /\ j = I
    BY <1>1, <2>2
  <2>3. CASE IsDue(b, j) /\ a = B /\ i = I
    <3>1. results'[a][i] = msg /\ results'[b][j] = results[b][j] /\ results[b][j] \in DueMessages
      BY <1>1, <1>2, <2>3
    <3>. QED
      BY <3>1
  <2>4. CASE a = B /\ i = I /\ b = B /\ j = I
    BY <1>1, <2>4 DEF RowOf
  <2>. QED
    BY <1>1, <2>1, <2>2, <2>3, <2>4
<1>5. DueMessages' = DueMessages \cup {msg}
  <2>1. ASSUME NEW m \in DueMessages' PROVE m \in DueMessages \cup {msg}
    <3>1. PICK b, i \in Nat : IsDue(b, i)' /\ results'[b][i] = m
      BY <2>1 DEF DueMessages
    <3>2. CASE IsDue(b, i)
      BY <1>1, <1>2, <3>1, <3>2
    <3>3. CASE b = B /\ i = I
      BY <1>1, <3>1, <3>3
    <3>. QED
      BY <1>1, <3>1, <3>2, <3>3
  <2>2. ASSUME NEW m \in DueMessages PROVE m \in DueMessages'
    <3>1. m \in ResultMessages /\ \E b, i \in Nat : IsDue(b, i) /\ results[b][i] = m
      BY DEF DueMessages
    <3>2. \E b, i \in Nat : IsDue(b, i)' /\ results'[b][i] = m
      BY <1>1, <3>1
    <3>. QED
      BY <3>1, <3>2 DEF DueMessages
  <2>3. msg \in DueMessages'
    BY <1>1 DEF DueMessages
  <2>. QED
    BY <2>1, <2>2, <2>3
<1>. QED
  BY <1>3, <1>4, <1>5

(* The message that is due goes first; the others stay in order.             *)
LEMMA AckDuePlace ==
    ASSUME PipelineTypes, results # <<>>, AckDue
    PROVE  \E k \in {0, 1} :
              /\ \A b, i \in Nat : IsDue(b, i)' =>
                    /\ IsDue(b + k, i) /\ ~(b + k = 1 /\ i = next)
                    /\ results'[b][i] = results[b + k][i]
              /\ \A b, i \in Nat : IsDue(b, i) /\ ~(b = 1 /\ i = next) =>
                    /\ b - k \in Nat /\ IsDue(b - k, i)'
                    /\ results'[b - k][i] = results[b][i]
<1>. DEFINE n == Len(results)
<1>1. /\ n \in Nat \ {0} /\ next \in 1..Len(results[1]) /\ Head(results) = results[1]
      /\ Len(results[1]) \in Nat
      /\ Len(Tail(results)) = n - 1 /\ \A i \in 1..n - 1 : Tail(results)[i] = results[i + 1]
  BY DueType
<1>2. CASE next = Len(Head(results))
  <2>1. results' = Tail(results) /\ next' = 1
    BY <1>2 DEF AckDue
  <2>2. ASSUME NEW b \in Nat, NEW i \in Nat, IsDue(b, i)'
        PROVE  /\ IsDue(b + 1, i) /\ ~(b + 1 = 1 /\ i = next)
               /\ results'[b][i] = results[b + 1][i]
    <3>1. b \in 1..n - 1
      BY <1>1, <2>1, <2>2 DEF IsDue
    <3>2. results'[b] = results[b + 1] /\ b + 1 \in 1..n /\ b + 1 # 1
      BY <1>1, <2>1, <3>1
    <3>. QED
      BY <2>2, <3>2 DEF IsDue
  <2>3. ASSUME NEW b \in Nat, NEW i \in Nat, IsDue(b, i), ~(b = 1 /\ i = next)
        PROVE  b - 1 \in Nat /\ IsDue(b - 1, i)' /\ results'[b - 1][i] = results[b][i]
    <3>1. b # 1
      BY <1>1, <1>2, <2>3 DEF IsDue
    <3>2. b - 1 \in 1..n - 1 /\ b - 1 \in Nat /\ (b - 1) + 1 = b
      BY <1>1, <2>3, <3>1 DEF IsDue
    <3>3. results'[b - 1] = results[b]
      BY <1>1, <2>1, <3>2
    <3>4. i \in 1..Len(results'[b - 1]) /\ 1 <= i
      BY <2>3, <3>3 DEF IsDue
    <3>. QED
      BY <1>1, <2>1, <3>2, <3>3, <3>4 DEF IsDue
  <2>. QED
    BY <2>2, <2>3
<1>3. CASE next # Len(Head(results))
  <2>1. results' = results /\ next' = next + 1
    BY <1>3 DEF AckDue
  <2>2. ASSUME NEW b \in Nat, NEW i \in Nat
        PROVE  IsDue(b, i)' <=> IsDue(b, i) /\ ~(b = 1 /\ i = next)
    BY <1>1, <2>1 DEF IsDue
  <2>3. \A b \in Nat : b + 0 = b /\ b - 0 = b
    OBVIOUS
  <2>. QED
    BY <2>1, <2>2, <2>3
<1>. QED
  BY <1>2, <1>3

LEMMA AckDueMessages ==
    ASSUME PipelineTypes, results # <<>>, AckDue, DueOnce, DueInOrder
    PROVE  /\ DueOnce' /\ DueInOrder' /\ DueMessages' = DueMessages \ {Due}
           /\ Due \in DueMessages /\ \A m \in DueMessages : ~RowOf(m, Due)
<1>0. /\ next \in 1..Len(results[1]) /\ Due = results[1][next] /\ Due \in ResultMessages
      /\ Len(results) \in Nat \ {0} /\ 1 \in Nat /\ next \in Nat
  BY DueType
<1>1. IsDue(1, next)
  BY <1>0 DEF IsDue
<1>2. PICK k \in {0, 1} :
         /\ \A b, i \in Nat : IsDue(b, i)' =>
               /\ IsDue(b + k, i) /\ ~(b + k = 1 /\ i = next)
               /\ results'[b][i] = results[b + k][i]
         /\ \A b, i \in Nat : IsDue(b, i) /\ ~(b = 1 /\ i = next) =>
               /\ b - k \in Nat /\ IsDue(b - k, i)'
               /\ results'[b - k][i] = results[b][i]
  BY AckDuePlace
<1>3. \A a \in Nat : a + k \in Nat
  OBVIOUS
<1>4. DueOnce'
  <2> SUFFICES ASSUME NEW a \in Nat, NEW b \in Nat, NEW i \in Nat, NEW j \in Nat,
                      IsDue(a, i)', IsDue(b, j)', results'[a][i] = results'[b][j]
               PROVE  a = b /\ i = j
    BY DEF DueOnce
  <2>1. /\ IsDue(a + k, i) /\ results'[a][i] = results[a + k][i]
        /\ IsDue(b + k, j) /\ results'[b][j] = results[b + k][j]
    BY <1>2
  <2>2. a + k = b + k /\ i = j
    BY <1>3, <2>1 DEF DueOnce
  <2>. QED
    BY <2>2
<1>5. DueInOrder'
  <2> SUFFICES ASSUME NEW a \in Nat, NEW b \in Nat, NEW i \in Nat, NEW j \in Nat,
                      IsDue(a, i)', IsDue(b, j)', RowOf(results'[a][i], results'[b][j])
               PROVE  a < b \/ (a = b /\ i < j)
    BY DEF DueInOrder
  <2>1. /\ IsDue(a + k, i) /\ results'[a][i] = results[a + k][i]
        /\ IsDue(b + k, j) /\ results'[b][j] = results[b + k][j]
    BY <1>2
  <2>2. a + k < b + k \/ (a + k = b + k /\ i < j)
    BY <1>3, <2>1 DEF DueInOrder
  <2>. QED
    BY <2>2
<1>6. ASSUME NEW m \in DueMessages' PROVE m \in DueMessages /\ m # Due
  <2>1. PICK b, i \in Nat : IsDue(b, i)' /\ results'[b][i] = m
    BY <1>6 DEF DueMessages
  <2>2. IsDue(b + k, i) /\ ~(b + k = 1 /\ i = next) /\ m = results[b + k][i]
    BY <1>2, <2>1
  <2>3. m \in ResultMessages
    BY <1>6 DEF DueMessages
  <2>. QED
    BY <1>0, <1>1, <1>3, <2>2, <2>3 DEF DueMessages, DueOnce
<1>7. ASSUME NEW m \in DueMessages, m # Due PROVE m \in DueMessages'
  <2>1. PICK b, i \in Nat : IsDue(b, i) /\ results[b][i] = m
    BY <1>7 DEF DueMessages
  <2>2. b - k \in Nat /\ IsDue(b - k, i)' /\ results'[b - k][i] = m
    BY <1>0, <1>2, <1>7, <2>1
  <2>3. m \in ResultMessages
    BY <1>7 DEF DueMessages
  <2>. QED
    BY <2>2, <2>3 DEF DueMessages
<1>8. Due \in DueMessages
  BY <1>0, <1>1 DEF DueMessages
<1>9. ASSUME NEW m \in DueMessages, RowOf(m, Due) PROVE FALSE
  <2>1. PICK b, i \in Nat : IsDue(b, i) /\ results[b][i] = m
    BY <1>9 DEF DueMessages
  <2>2. b < 1 \/ (b = 1 /\ i < next)
    BY <1>0, <1>1, <1>9, <2>1 DEF DueInOrder
  <2>. QED
    BY <1>0, <2>1, <2>2 DEF IsDue
<1>. QED
  BY <1>4, <1>5, <1>6, <1>7, <1>8, <1>9

-----------------------------------------------------------------------------
(* The messages on the way to a client and those it has received.            *)

Coming(c) == {m \in ResultMessages : \E i \in 1..Len(down[c]) : down[c][i] = m}
Got(c) == {m \in ResultMessages : \E i \in 1..Len(received[c]) : received[c][i] = m}

ComingOnce(c) ==
    \A i, j \in 1..Len(down[c]) :
        down[c][i] \in ResultMessages /\ down[c][i] = down[c][j] => i = j

ComingInOrder(c) ==
    \A i, j \in 1..Len(down[c]) :
        /\ down[c][i] \in ResultMessages /\ down[c][j] \in ResultMessages
        /\ RowOf(down[c][i], down[c][j])
        => i < j

GotOnce(c) == \A i, j \in 1..Len(received[c]) : received[c][i] = received[c][j] => i = j

LEMMA AckIsNoResult == Ack \notin ResultMessages /\ \A m \in ResultMessages : m.kind # "ACK"
BY DEF Ack, ResultMessages

(* An ACK or a new result is written.                                        *)
LEMMA WriteComing ==
    ASSUME NEW c \in Clients, down[c] \in Seq(DownMessages), NEW msg \in DownMessages,
           down'[c] = Append(down[c], msg), ComingOnce(c), ComingInOrder(c),
           msg \notin Coming(c), \A n \in Coming(c) : msg = Ack \/ ~RowOf(msg, n)
    PROVE  /\ ComingOnce(c)' /\ ComingInOrder(c)'
           /\ Coming(c)' = IF msg = Ack THEN Coming(c) ELSE Coming(c) \cup {msg}
<1>. DEFINE n == Len(down[c])
<1>1. /\ n \in Nat /\ Len(down'[c]) = n + 1 /\ down'[c][n + 1] = msg
      /\ \A i \in 1..n : down'[c][i] = down[c][i]
  BY AppendProperties, LenProperties
<1>2. \A i \in 1..n + 1 : i \in 1..n \/ i = n + 1
  BY <1>1
<1>3. \A i \in 1..n : i \in 1..n + 1 /\ i < n + 1 /\ i # n + 1
  BY <1>1
<1>4. n + 1 \in 1..n + 1
  BY <1>1
<1>5. \A i \in 1..n : down[c][i] \in ResultMessages => down[c][i] \in Coming(c)
  BY DEF Coming
<1>. HIDE DEF n
<1>6. ComingOnce(c)'
  <2> SUFFICES ASSUME NEW i \in 1..n + 1, NEW j \in 1..n + 1,
                      down'[c][i] \in ResultMessages, down'[c][i] = down'[c][j]
               PROVE  i = j
    BY <1>1 DEF ComingOnce
  <2>1. CASE i \in 1..n /\ j \in 1..n
    BY <1>1, <2>1 DEF ComingOnce, n
  <2>2. CASE i \in 1..n /\ j = n + 1
    BY <1>1, <1>5, <2>2
  <2>3. CASE j \in 1..n /\ i = n + 1
    BY <1>1, <1>5, <2>3
  <2>. QED
    BY <1>2, <2>1, <2>2, <2>3
<1>7. ComingInOrder(c)'
  <2> SUFFICES ASSUME NEW i \in 1..n + 1, NEW j \in 1..n + 1,
                      down'[c][i] \in ResultMessages, down'[c][j] \in ResultMessages,
                      RowOf(down'[c][i], down'[c][j])
               PROVE  i < j
    BY <1>1 DEF ComingInOrder
  <2>1. CASE i \in 1..n /\ j \in 1..n
    <3>1. down'[c][i] = down[c][i] /\ down'[c][j] = down[c][j]
      BY <1>1, <2>1
    <3>. QED
      BY <2>1, <3>1 DEF ComingInOrder, n
  <2>2. CASE i \in 1..n /\ j = n + 1
    BY <1>3, <2>2
  <2>3. CASE j \in 1..n /\ i = n + 1
    <3>1. down'[c][j] \in Coming(c) /\ down'[c][i] = msg /\ msg # Ack
      BY <1>1, <1>5, <2>3, AckIsNoResult
    <3>. QED
      BY <3>1
  <2>4. CASE i = n + 1 /\ j = n + 1
    BY <2>4 DEF RowOf
  <2>. QED
    BY <1>2, <2>1, <2>2, <2>3, <2>4
<1>8. ASSUME NEW m \in ResultMessages
      PROVE  m \in Coming(c)' <=> m \in Coming(c) \/ m = msg
  <2>1. m \in Coming(c)' <=> \E i \in 1..n + 1 : down'[c][i] = m
    BY <1>1 DEF Coming
  <2>2. m \in Coming(c) <=> \E i \in 1..n : down[c][i] = m
    BY DEF Coming, n
  <2>. QED
    BY <1>1, <1>2, <1>3, <1>4, <2>1, <2>2
<1>9. Coming(c) \subseteq ResultMessages /\ Coming(c)' \subseteq ResultMessages
  BY DEF Coming, ResultMessages
<1>10. msg \in ResultMessages <=> msg # Ack
  BY AckIsNoResult DEF DownMessages
<1>. QED
  BY <1>6, <1>7, <1>8, <1>9, <1>10

(* The first message is read.                                                *)
LEMMA ReadComing ==
    ASSUME NEW c \in Clients, down[c] \in Seq(DownMessages), down[c] # <<>>,
           down'[c] = Tail(down[c]), ComingOnce(c), ComingInOrder(c)
    PROVE  /\ ComingOnce(c)' /\ ComingInOrder(c)'
           /\ Coming(c)' = Coming(c) \ {Head(down[c])}
           /\ Head(down[c]) \in DownMessages
           /\ Head(down[c]) # Ack => /\ Head(down[c]) \in Coming(c)
                                     /\ \A m \in Coming(c) : ~RowOf(m, Head(down[c]))
<1>. DEFINE n == Len(down[c])
            h == Head(down[c])
<1>1. /\ n \in Nat \ {0} /\ Len(down'[c]) = n - 1 /\ h = down[c][1] /\ h \in DownMessages
      /\ \A i \in 1..n - 1 : down'[c][i] = down[c][i + 1]
  <2>1. n \in Nat \ {0}
    BY EmptySeq, LenProperties
  <2>. QED
    BY <2>1, HeadTailProperties
<1>2. /\ \A i \in 1..n - 1 : i + 1 \in 1..n /\ i \in Nat /\ i + 1 # 1
      /\ \A i \in 1..n : i # 1 => i - 1 \in 1..n - 1 /\ (i - 1) + 1 = i
      /\ 1 \in 1..n
  BY <1>1
<1>. HIDE DEF n, h
<1>3. ComingOnce(c)'
  <2> SUFFICES ASSUME NEW i \in 1..n - 1, NEW j \in 1..n - 1,
                      down'[c][i] \in ResultMessages, down'[c][i] = down'[c][j]
               PROVE  i = j
    BY <1>1 DEF ComingOnce
  <2>1. i + 1 = j + 1
    BY <1>1, <1>2 DEF ComingOnce, n
  <2>. QED
    BY <1>2, <2>1
<1>4. ComingInOrder(c)'
  <2> SUFFICES ASSUME NEW i \in 1..n - 1, NEW j \in 1..n - 1,
                      down'[c][i] \in ResultMessages, down'[c][j] \in ResultMessages,
                      RowOf(down'[c][i], down'[c][j])
               PROVE  i < j
    BY <1>1 DEF ComingInOrder
  <2>1. down'[c][i] = down[c][i + 1] /\ down'[c][j] = down[c][j + 1]
    BY <1>1
  <2>2. i + 1 < j + 1
    BY <1>2, <2>1 DEF ComingInOrder, n
  <2>. QED
    BY <1>2, <2>2
<1>5. ASSUME NEW m \in ResultMessages
      PROVE  m \in Coming(c)' <=> m \in Coming(c) /\ m # h
  <2>1. m \in Coming(c)' <=> \E i \in 1..n - 1 : down'[c][i] = m
    BY <1>1 DEF Coming
  <2>2. m \in Coming(c) <=> \E i \in 1..n : down[c][i] = m
    BY DEF Coming, n
  <2>3. ASSUME NEW i \in 1..n - 1, down'[c][i] = m PROVE m # h
    BY <1>1, <1>2, <2>3 DEF ComingOnce, n
  <2>4. ASSUME NEW i \in 1..n, down[c][i] = m, m # h
        PROVE  i - 1 \in 1..n - 1 /\ down'[c][i - 1] = m
    BY <1>1, <1>2, <2>4
  <2>. QED
    BY <1>1, <1>2, <2>1, <2>2, <2>3, <2>4
<1>6. ASSUME h # Ack
      PROVE  h \in Coming(c) /\ \A m \in Coming(c) : ~RowOf(m, h)
  <2>1. h \in ResultMessages
    BY <1>1, <1>6 DEF DownMessages
  <2>2. h \in Coming(c)
    BY <1>1, <1>2, <2>1 DEF Coming, n
  <2>3. ASSUME NEW m \in Coming(c), RowOf(m, h) PROVE FALSE
    <3>1. PICK i \in 1..n : down[c][i] = m
      BY <2>3 DEF Coming, n
    <3>2. m \in ResultMessages
      BY <2>3 DEF Coming
    <3>3. i < 1
      BY <1>1, <1>2, <2>1, <2>3, <3>1, <3>2 DEF ComingInOrder, n
    <3>. QED
      BY <1>1, <3>3
  <2>. QED
    BY <2>2, <2>3
<1>7. Coming(c) \subseteq ResultMessages /\ Coming(c)' \subseteq ResultMessages
  BY DEF Coming, ResultMessages
<1>. QED
  BY <1>1, <1>3, <1>4, <1>5, <1>6, <1>7 DEF h

LEMMA GrowGot ==
    ASSUME NEW c \in Clients, received[c] \in Seq(ResultMessages), NEW msg \in ResultMessages,
           received'[c] = Append(received[c], msg), GotOnce(c), msg \notin Got(c)
    PROVE  GotOnce(c)' /\ Got(c)' = Got(c) \cup {msg}
<1>. DEFINE n == Len(received[c])
<1>1. /\ n \in Nat /\ Len(received'[c]) = n + 1 /\ received'[c][n + 1] = msg
      /\ \A i \in 1..n : received'[c][i] = received[c][i] /\ received[c][i] \in ResultMessages
  BY AppendProperties, LenProperties, ElementOfSeq
<1>2. /\ \A i \in 1..n + 1 : i \in 1..n \/ i = n + 1
      /\ \A i \in 1..n : i \in 1..n + 1
      /\ n + 1 \in 1..n + 1
  BY <1>1
<1>3. \A i \in 1..n : received[c][i] \in Got(c)
  BY <1>1 DEF Got
<1>. HIDE DEF n
<1>4. GotOnce(c)'
  <2> SUFFICES ASSUME NEW i \in 1..n + 1, NEW j \in 1..n + 1, received'[c][i] = received'[c][j]
               PROVE  i = j
    BY <1>1 DEF GotOnce
  <2>1. CASE i \in 1..n /\ j \in 1..n
    BY <1>1, <2>1 DEF GotOnce, n
  <2>2. CASE i = n + 1 \/ j = n + 1
    BY <1>1, <1>2, <1>3, <2>2
  <2>. QED
    BY <1>2, <2>1, <2>2
<1>5. ASSUME NEW m \in ResultMessages
      PROVE  m \in Got(c)' <=> m \in Got(c) \/ m = msg
  <2>1. m \in Got(c)' <=> \E i \in 1..n + 1 : received'[c][i] = m
    BY <1>1 DEF Got
  <2>2. m \in Got(c) <=> \E i \in 1..n : received[c][i] = m
    BY DEF Got, n
  <2>. QED
    BY <1>1, <1>2, <2>1, <2>2
<1>6. Got(c) \subseteq ResultMessages /\ Got(c)' \subseteq ResultMessages
  BY DEF Got, ResultMessages
<1>. QED
  BY <1>4, <1>5, <1>6

-----------------------------------------------------------------------------
(* The results of a client, while the gateway is not restarted.              *)

Row(c, q) == [kind |-> "ROW", query |-> q, client |-> c]
Eof(c, q) == [kind |-> "EOF", query |-> q, client |-> c]

Answered(m) ==
    \/ m.kind = "ROW" /\ answers[m.client][m.query] # "none"
    \/ m.kind = "EOF" /\ answers[m.client][m.query] = "EOF"

\* A result is in one place, once, and was answered.
InOnePlace(c) ==
    /\ GotOnce(c) /\ ComingOnce(c)
    /\ \A m \in Got(c) : m \notin Coming(c) /\ m \notin DueMessages
    /\ \A m \in Coming(c) : m \notin DueMessages
    /\ \A m \in Got(c) \cup Coming(c) : Answered(m)

\* No row is behind its EOF, and none of a client that is there is lost.
RowFirst(c) ==
    /\ ComingInOrder(c)
    /\ \A n \in Coming(c), m \in DueMessages : ~RowOf(m, n)
    /\ \A q \in Queries : Eof(c, q) \in Got(c) => Row(c, q) \in Got(c)
    /\ Open(c) => \A q \in Queries :
          answers[c][q] # "none" => Row(c, q) \in Got(c) \cup Coming(c) \cup DueMessages

\* A client is listed from the moment it connects, and closes with all its EOFs.
Course(c) ==
    /\ phase[c] = "new" => /\ received[c] = <<>> /\ announced[c] = <<>> /\ down[c] = <<>>
                           /\ \A q \in Queries : answers[c][q] = "none"
    /\ phase[c] # "new" => c \in clientList
    /\ phase[c] \in {"closing", "done"} => EofsReceived(c) >= Cardinality(Queries)

QueueInv == DueOnce /\ DueInOrder /\ \A m \in DueMessages : Answered(m)

PlacesInv == QueueInv /\ \A c \in Clients : InOnePlace(c) /\ RowFirst(c) /\ Course(c)

RunInv == restarts \in Nat /\ (restarts = 0 => PlacesInv)

LEMMA InitRun == Init => RunInv
<1> SUFFICES ASSUME Init
             PROVE  RunInv
  OBVIOUS
<1>1. results = <<>> /\ Len(results) = 0 /\ restarts = 0
  BY DEF Init
<1>2. \A b, i \in Nat : ~IsDue(b, i)
  BY <1>1 DEF IsDue
<1>3. DueMessages = {} /\ QueueInv
  BY <1>2 DEF DueMessages, QueueInv, DueOnce, DueInOrder
<1>4. ASSUME NEW c \in Clients
      PROVE  InOnePlace(c) /\ RowFirst(c) /\ Course(c)
  <2>1. /\ received[c] = <<>> /\ down[c] = <<>> /\ Len(received[c]) = 0 /\ Len(down[c]) = 0
        /\ phase[c] = "new" /\ announced[c] = <<>> /\ \A q \in Queries : answers[c][q] = "none"
    BY <1>4 DEF Init
  <2>2. Got(c) = {} /\ Coming(c) = {} /\ \A i : i \notin 1..Len(down[c]) /\ i \notin 1..Len(received[c])
    BY <2>1 DEF Got, Coming
  <2>3. GotOnce(c) /\ ComingOnce(c) /\ ComingInOrder(c)
    BY <2>2 DEF GotOnce, ComingOnce, ComingInOrder
  <2>. QED
    BY <2>1, <2>2, <2>3 DEF InOnePlace, RowFirst, Course, Open
<1>. QED
  BY <1>1, <1>3, <1>4 DEF RunInv, PlacesInv

(* A client whose results and the queue stay as they are.                    *)
LEMMA StayPlaces ==
    ASSUME PlacesInv, NEW c \in Clients, UNCHANGED <<down[c], received[c], answers[c], answers>>,
           DueMessages' = DueMessages, clientList \subseteq clientList',
           phase'[c] = "new" <=> phase[c] = "new",
           phase[c] = "new" => UNCHANGED announced[c],
           phase'[c] \in {"closing", "done"} => phase[c] \in {"closing", "done"},
           Open(c)' => Open(c)
    PROVE  InOnePlace(c)' /\ RowFirst(c)' /\ Course(c)'
<1>1. /\ Got(c)' = Got(c) /\ Coming(c)' = Coming(c)
      /\ EofsReceived(c)' = EofsReceived(c)
  BY DEF Got, Coming, EofsReceived
<1>2. GotOnce(c) /\ ComingOnce(c) /\ ComingInOrder(c) => GotOnce(c)' /\ ComingOnce(c)' /\ ComingInOrder(c)'
  BY DEF GotOnce, ComingOnce, ComingInOrder
<1>3. \A m : Answered(m) => Answered(m)'
  BY DEF Answered
<1>4. InOnePlace(c) /\ RowFirst(c) /\ Course(c)
  BY DEF PlacesInv
<1>5. InOnePlace(c)'
  BY <1>1, <1>2, <1>3, <1>4 DEF InOnePlace, RowFirst
<1>6. RowFirst(c)'
  BY <1>1, <1>2, <1>4 DEF InOnePlace, RowFirst
<1>7. Course(c)'
  BY <1>1, <1>4 DEF Course
<1>. QED
  BY <1>5, <1>6, <1>7

LEMMA StayQueue ==
    ASSUME QueueInv, UNCHANGED <<results, next, answers>>
    PROVE  QueueInv' /\ DueMessages' = DueMessages
<1>1. \A b, i : IsDue(b, i)' = IsDue(b, i)
  BY DEF IsDue
<1>2. DueMessages' = DueMessages /\ DueOnce' /\ DueInOrder'
  BY <1>1 DEF QueueInv, DueMessages, DueOnce, DueInOrder, ResultMessages
<1>. QED
  BY <1>2 DEF QueueInv, Answered

LEMMA ConnectPlaces ==
    ASSUME SessionInv, PlacesInv, NEW c \in Clients, Connect(c)
    PROVE  PlacesInv'
<1>1. /\ phase[c] = "new" /\ phase' = [phase EXCEPT ![c] = "sending"]
      /\ clientList' = clientList \cup {c}
      /\ UNCHANGED <<down, received, answers, results, next, announced>>
  BY DEF Connect, session, pipeline
<1>2. QueueInv' /\ DueMessages' = DueMessages
  BY <1>1, StayQueue DEF PlacesInv
<1>3. phase'[c] = "sending" /\ \A d \in Clients : d # c => phase'[d] = phase[d]
  BY <1>1 DEF SessionInv, ProgramTypes
<1>4. ASSUME NEW d \in Clients, d # c PROVE InOnePlace(d)' /\ RowFirst(d)' /\ Course(d)'
  BY <1>1, <1>2, <1>3, <1>4, StayPlaces DEF Open
<1>5. InOnePlace(c)' /\ RowFirst(c)' /\ Course(c)'
  <2>1. /\ Got(c)' = Got(c) /\ Coming(c)' = Coming(c) /\ GotOnce(c)' = GotOnce(c)
        /\ ComingOnce(c)' = ComingOnce(c) /\ ComingInOrder(c)' = ComingInOrder(c)
    BY <1>1 DEF Got, Coming, GotOnce, ComingOnce, ComingInOrder
  <2>2. \A m : Answered(m) => Answered(m)'
    BY <1>1 DEF Answered
  <2>3. InOnePlace(c) /\ RowFirst(c) /\ \A q \in Queries : answers'[c][q] = "none"
    BY <1>1 DEF PlacesInv, Course
  <2>4. InOnePlace(c)'
    BY <1>2, <2>1, <2>2, <2>3 DEF InOnePlace
  <2>5. RowFirst(c)'
    BY <1>2, <2>1, <2>3 DEF RowFirst
  <2>6. Course(c)'
    BY <1>1, <1>3 DEF Course
  <2>. QED
    BY <2>4, <2>5, <2>6
<1>. QED
  BY <1>2, <1>4, <1>5 DEF PlacesInv

(* A client that closes has the EOFs it counted.                             *)
LEMMA ClosePlaces ==
    ASSUME SessionInv, PlacesInv, NEW c \in Clients, Close(c)
    PROVE  PlacesInv'
<1>1. /\ phase[c] = "sending" /\ phase' = [phase EXCEPT ![c] = "closing"]
      /\ EofsReceived(c) >= Cardinality(Queries)
      /\ UNCHANGED <<down, received, answers, results, next, announced, clientList>>
  BY DEF Close, Free, session, pipeline
<1>2. QueueInv' /\ DueMessages' = DueMessages
  BY <1>1, StayQueue DEF PlacesInv
<1>3. phase'[c] = "closing" /\ \A d \in Clients : d # c => phase'[d] = phase[d]
  BY <1>1 DEF SessionInv, ProgramTypes
<1>4. ASSUME NEW d \in Clients, d # c PROVE InOnePlace(d)' /\ RowFirst(d)' /\ Course(d)'
  BY <1>1, <1>2, <1>3, <1>4, StayPlaces DEF Open
<1>5. InOnePlace(c)' /\ RowFirst(c)' /\ Course(c)'
  <2>1. /\ Got(c)' = Got(c) /\ Coming(c)' = Coming(c) /\ GotOnce(c)' = GotOnce(c)
        /\ ComingOnce(c)' = ComingOnce(c) /\ ComingInOrder(c)' = ComingInOrder(c)
        /\ EofsReceived(c)' = EofsReceived(c)
    BY <1>1 DEF Got, Coming, GotOnce, ComingOnce, ComingInOrder, EofsReceived
  <2>2. \A m : Answered(m) => Answered(m)'
    BY <1>1 DEF Answered
  <2>3. InOnePlace(c) /\ RowFirst(c) /\ Course(c) /\ Open(c)
    BY <1>1 DEF PlacesInv, Open
  <2>4. InOnePlace(c)'
    BY <1>2, <2>1, <2>2, <2>3 DEF InOnePlace
  <2>5. RowFirst(c)'
    BY <1>1, <1>2, <2>1, <2>3 DEF RowFirst
  <2>6. Course(c)'
    BY <1>1, <1>3, <2>1, <2>3 DEF Course
  <2>. QED
    BY <2>4, <2>5, <2>6
<1>. QED
  BY <1>2, <1>4, <1>5 DEF PlacesInv

LEMMA EofsGrow ==
    ASSUME SessionInv, NEW c \in Clients
    PROVE  /\ EofsReceived(c) = Cardinality(KindAt(received[c], "EOF")) /\ EofsReceived(c) \in Nat
           /\ \A m \in ResultMessages :
                 received'[c] = Append(received[c], m) => EofsReceived(c)' >= EofsReceived(c)
<1>1. received[c] \in Seq(ResultMessages)
  BY DEF SessionInv, ProgramTypes
<1>2. EofsReceived(c) = Cardinality(KindAt(received[c], "EOF"))
  BY DEF EofsReceived, KindAt
<1>3. EofsReceived(c) \in Nat
  BY <1>1, <1>2, KindCount
<1>4. ASSUME NEW m \in ResultMessages, received'[c] = Append(received[c], m)
      PROVE  EofsReceived(c)' >= EofsReceived(c)
  <2>1. EofsReceived(c)' = Cardinality(KindAt(Append(received[c], m), "EOF"))
    BY <1>4 DEF EofsReceived, KindAt
  <2>2. Cardinality(KindAt(Append(received[c], m), "EOF")) =
           Cardinality(KindAt(received[c], "EOF")) + (IF m.kind = "EOF" THEN 1 ELSE 0)
    BY <1>1, KindAppend
  <2>3. CASE m.kind = "EOF"
    BY <1>2, <1>3, <2>1, <2>2, <2>3
  <2>4. CASE m.kind # "EOF"
    BY <1>2, <1>3, <2>1, <2>2, <2>4
  <2>. QED
    BY <2>3, <2>4
<1>. QED
  BY <1>2, <1>3, <1>4

(* An EOF that arrives finds its row received: the row was answered, and is  *)
(* neither behind it on the way nor in the queue.                            *)
LEMMA ReceivePlaces ==
    ASSUME SessionInv, PlacesInv, NEW c \in Clients, Receive(c)
    PROVE  PlacesInv'
<1>. DEFINE h == Head(down[c])
<1>1. /\ Open(c) /\ down[c] # <<>> /\ down' = [down EXCEPT ![c] = Tail(@)]
      /\ IF h.kind = "ACK" THEN received' = received
                           ELSE received' = [received EXCEPT ![c] = Append(@, h)]
      /\ UNCHANGED <<phase, answers, results, next, announced, clientList>>
  BY DEF Receive, session, pipeline, program
<1>2. QueueInv' /\ DueMessages' = DueMessages
  BY <1>1, StayQueue DEF PlacesInv
<1>3. /\ down \in [Clients -> Seq(DownMessages)] /\ received \in [Clients -> Seq(ResultMessages)]
      /\ down'[c] = Tail(down[c]) /\ \A d \in Clients : d # c => down'[d] = down[d]
  BY <1>1 DEF SessionInv, LinkTypes, ProgramTypes
<1>4. InOnePlace(c) /\ RowFirst(c) /\ Course(c)
  BY DEF PlacesInv
<1>5. /\ ComingOnce(c)' /\ ComingInOrder(c)' /\ Coming(c)' = Coming(c) \ {h}
      /\ h \in DownMessages
      /\ h # Ack => h \in Coming(c) /\ \A m \in Coming(c) : ~RowOf(m, h)
  BY <1>1, <1>3, <1>4, ReadComing DEF InOnePlace, RowFirst
<1>6. \A m : Answered(m) => Answered(m)'
  BY <1>1 DEF Answered
<1>7. ASSUME NEW d \in Clients, d # c PROVE InOnePlace(d)' /\ RowFirst(d)' /\ Course(d)'
  <2>1. down'[d] = down[d] /\ received'[d] = received[d]
    BY <1>1, <1>3, <1>7
  <2>. QED
    BY <1>1, <1>2, <2>1, StayPlaces DEF Open
<1>8. CASE h = Ack
  <2>1. received' = received /\ h \notin Coming(c)
    BY <1>1, <1>8, AckIsNoResult DEF Ack, Coming
  <2>2. Got(c)' = Got(c) /\ GotOnce(c)' = GotOnce(c) /\ EofsReceived(c)' = EofsReceived(c)
    BY <2>1 DEF Got, GotOnce, EofsReceived
  <2>3. Coming(c)' = Coming(c)
    BY <1>5, <2>1
  <2>4. InOnePlace(c)'
    BY <1>2, <1>4, <1>5, <1>6, <2>2, <2>3 DEF InOnePlace
  <2>5. RowFirst(c)'
    BY <1>1, <1>2, <1>4, <1>5, <2>2, <2>3 DEF RowFirst, Open
  <2>6. Course(c)'
    BY <1>1, <1>4, <2>1, <2>2 DEF Course, Open
  <2>. QED
    BY <1>2, <1>7, <2>4, <2>5, <2>6 DEF PlacesInv
<1>9. CASE h # Ack
  <2>1. h \in ResultMessages /\ h \in Coming(c) /\ h.kind # "ACK"
    BY <1>5, <1>9, AckIsNoResult DEF DownMessages
  <2>2. received'[c] = Append(received[c], h)
    BY <1>1, <1>3, <2>1
  <2>3. h \notin Got(c) /\ h \notin DueMessages /\ Answered(h)
    BY <1>4, <2>1 DEF InOnePlace
  <2>4. GotOnce(c)' /\ Got(c)' = Got(c) \cup {h}
    BY <1>3, <1>4, <2>1, <2>2, <2>3, GrowGot DEF InOnePlace
  <2>5. InOnePlace(c)'
    <3>1. GotOnce(c)' /\ ComingOnce(c)'
      BY <1>5, <2>4
    <3>2. \A m \in Got(c)' : m \notin Coming(c)' /\ m \notin DueMessages'
      BY <1>2, <1>4, <1>5, <2>3, <2>4 DEF InOnePlace
    <3>3. \A m \in Coming(c)' : m \notin DueMessages'
      BY <1>2, <1>4, <1>5 DEF InOnePlace
    <3>4. \A m \in Got(c)' \cup Coming(c)' : Answered(m)'
      BY <1>4, <1>5, <1>6, <2>3, <2>4 DEF InOnePlace
    <3>. QED
      BY <3>1, <3>2, <3>3, <3>4 DEF InOnePlace
  <2>6. RowFirst(c)'
    <3>1. \A n \in Coming(c)', m \in DueMessages' : ~RowOf(m, n)
      BY <1>2, <1>4, <1>5 DEF RowFirst
    <3>2. ASSUME NEW q \in Queries, Eof(c, q) \in Got(c)'
          PROVE  Row(c, q) \in Got(c)'
      <4>1. CASE Eof(c, q) \in Got(c)
        BY <1>4, <2>4, <4>1 DEF RowFirst
      <4>2. CASE Eof(c, q) = h
        <5>1. answers[c][q] # "none"
          BY <2>3, <4>2 DEF Answered, Eof
        <5>2. Row(c, q) \in Got(c) \cup Coming(c) \cup DueMessages
          BY <1>1, <1>4, <5>1 DEF RowFirst
        <5>3. RowOf(Row(c, q), h)
          BY <4>2 DEF RowOf, Row, Eof
        <5>4. Row(c, q) \notin Coming(c) /\ Row(c, q) \notin DueMessages
          BY <1>4, <1>5, <1>9, <2>1, <5>3 DEF RowFirst
        <5>. QED
          BY <2>4, <5>2, <5>4
      <4>. QED
        BY <2>4, <3>2, <4>1, <4>2
    <3>3. ASSUME Open(c)', NEW q \in Queries, answers'[c][q] # "none"
          PROVE  Row(c, q) \in Got(c)' \cup Coming(c)' \cup DueMessages'
      <4>1. Row(c, q) \in Got(c) \cup Coming(c) \cup DueMessages
        BY <1>1, <1>4, <3>3 DEF RowFirst
      <4>. QED
        BY <1>2, <1>5, <2>4, <4>1
    <3>. QED
      BY <1>5, <3>1, <3>2, <3>3 DEF RowFirst
  <2>7. Course(c)'
    <3>1. EofsReceived(c)' >= EofsReceived(c) /\ EofsReceived(c) \in Nat
      BY <2>1, <2>2, EofsGrow
    <3>2. Cardinality(Queries) \in Nat
      BY BoundTypes, FS_CardinalityType
    <3>3. \/ EofsReceived(c)' >= Cardinality(Queries)
          \/ phase'[c] \notin {"closing", "done"}
      <4>1. CASE phase[c] \in {"closing", "done"}
        <5>. DEFINE x == EofsReceived(c)
                    y == EofsReceived(c)'
                    z == Cardinality(Queries)
        <5>1. y >= x /\ x >= z /\ x \in Nat /\ z \in Nat
          BY <1>4, <3>1, <3>2, <4>1 DEF Course
        <5>2. y \in Nat
          <6>1. received'[c] \in Seq(ResultMessages)
            BY <1>3, <2>1, <2>2, AppendProperties
          <6>2. EofsReceived(c)' = Cardinality(KindAt(received'[c], "EOF"))
            BY DEF EofsReceived, KindAt
          <6>. QED
            BY <6>1, <6>2, KindCount
        <5>. HIDE DEF x, y, z
        <5>3. y >= z
          BY <5>1, <5>2
        <5>. QED
          BY <5>3 DEF y, z
      <4>2. CASE phase[c] \notin {"closing", "done"}
        BY <1>1, <4>2
      <4>. QED
        BY <4>1, <4>2
    <3>4. phase'[c] # "new" /\ (phase'[c] # "new" => c \in clientList')
      BY <1>1, <1>4 DEF Course, Open
    <3>. QED
      BY <3>3, <3>4 DEF Course
  <2>. QED
    BY <1>2, <1>7, <2>5, <2>6, <2>7 DEF PlacesInv
<1>. QED
  BY <1>8, <1>9

(* An ACK is no result.                                                      *)
LEMMA HandlePlaces ==
    ASSUME SessionInv, PlacesInv, NEW c \in Clients, HandleRequest(c)
    PROVE  PlacesInv'
<1>1. /\ handler[c] = "serving" /\ ToClient(c, Ack)
      /\ UNCHANGED <<phase, received, answers, results, next, clientList>>
      /\ HandleAccount(c) \/ HandleTransaction(c) \/ HandleEof(c) \/ UNCHANGED session
  BY DEF HandleRequest, Ack, pipeline, program
<1>2. QueueInv' /\ DueMessages' = DueMessages
  BY <1>1, StayQueue DEF PlacesInv
<1>3. phase[c] # "new" /\ down \in [Clients -> Seq(DownMessages)] /\ SessionTypes
  BY <1>1 DEF SessionInv, PoolTypes, LinkTypes
<1>4. ASSUME NEW d \in Clients, d # c PROVE announced'[d] = announced[d]
  BY <1>1, <1>3, <1>4, EofSession DEF HandleAccount, HandleTransaction, session
<1>5. ASSUME NEW d \in Clients, d # c \/ ~Open(c)
      PROVE InOnePlace(d)' /\ RowFirst(d)' /\ Course(d)'
  <2>1. down'[d] = down[d]
    BY <1>1, <1>3, <1>5 DEF ToClient
  <2>2. phase[d] = "new" => announced'[d] = announced[d]
    BY <1>3, <1>4
  <2>. QED
    BY <1>1, <1>2, <2>1, <2>2, StayPlaces DEF Open
<1>6. ASSUME Open(c) PROVE InOnePlace(c)' /\ RowFirst(c)' /\ Course(c)'
  <2>1. down'[c] = Append(down[c], Ack) /\ Ack \in DownMessages /\ Ack \notin Coming(c)
    BY <1>1, <1>3, <1>6, AckIsNoResult DEF ToClient, DownMessages, Coming
  <2>2. InOnePlace(c) /\ RowFirst(c) /\ Course(c)
    BY DEF PlacesInv
  <2>3. ComingOnce(c)' /\ ComingInOrder(c)' /\ Coming(c)' = Coming(c)
    BY <1>3, <2>1, <2>2, WriteComing DEF InOnePlace, RowFirst
  <2>4. Got(c)' = Got(c) /\ GotOnce(c)' = GotOnce(c) /\ EofsReceived(c)' = EofsReceived(c)
    BY <1>1 DEF Got, GotOnce, EofsReceived
  <2>5. \A m : Answered(m) => Answered(m)'
    BY <1>1 DEF Answered
  <2>6. InOnePlace(c)'
    BY <1>2, <2>2, <2>3, <2>4, <2>5 DEF InOnePlace
  <2>7. RowFirst(c)'
    BY <1>1, <1>2, <2>2, <2>3, <2>4 DEF RowFirst, Open
  <2>8. Course(c)'
    BY <1>1, <1>3, <2>2, <2>4 DEF Course
  <2>. QED
    BY <2>6, <2>7, <2>8
<1>. QED
  BY <1>2, <1>5, <1>6 DEF PlacesInv

(* The message that is due moves from the queue to the connection, or is     *)
(* lost with a client that is no longer there.                               *)
LEMMA DeliverPlaces ==
    ASSUME SessionInv, PlacesInv, DeliverResult
    PROVE  PlacesInv'
<1>1. /\ results # <<>> /\ AckDue
      /\ UNCHANGED <<phase, received, answers, announced, clientList>>
  BY DEF DeliverResult, program, session
<1>. PICK c \in Match(Due) : ToClient(c, Due)
  BY DEF DeliverResult
<1>2. c \in Clients /\ Due.client = c /\ Due \in ResultMessages /\ Due \in DownMessages /\ Due # Ack
  BY <1>1, DueType, AckIsNoResult DEF SessionInv, Match, PoolTypes, DownMessages
<1>3. /\ DueOnce' /\ DueInOrder' /\ DueMessages' = DueMessages \ {Due}
      /\ Due \in DueMessages /\ \A m \in DueMessages : ~RowOf(m, Due)
  BY <1>1, AckDueMessages DEF SessionInv, PlacesInv, QueueInv
<1>4. \A m : Answered(m) <=> Answered(m)'
  BY <1>1 DEF Answered
<1>5. QueueInv' /\ Answered(Due)
  BY <1>3, <1>4 DEF PlacesInv, QueueInv
<1>6. down \in [Clients -> Seq(DownMessages)]
  BY DEF SessionInv, LinkTypes
<1>. PICK msg : msg = Due
  OBVIOUS
<1>7. ASSUME NEW d \in Clients
      PROVE  /\ InOnePlace(d) /\ RowFirst(d) /\ Course(d)
             /\ Got(d)' = Got(d) /\ GotOnce(d)' = GotOnce(d) /\ Course(d)'
             /\ Open(d)' <=> Open(d)
  <2>1. InOnePlace(d) /\ RowFirst(d) /\ Course(d)
    BY DEF PlacesInv
  <2>2. Got(d)' = Got(d) /\ GotOnce(d)' = GotOnce(d) /\ EofsReceived(d)' = EofsReceived(d)
    BY <1>1 DEF Got, GotOnce, EofsReceived
  <2>3. phase[d] = "new" => down'[d] = down[d]
    BY <1>2, <1>6 DEF ToClient, Open
  <2>4. Course(d)'
    BY <1>1, <2>1, <2>2, <2>3 DEF Course
  <2>. QED
    BY <1>1, <2>1, <2>2, <2>4 DEF Open
<1>8. ASSUME NEW d \in Clients, d # c \/ ~Open(c)
      PROVE  InOnePlace(d)' /\ RowFirst(d)' /\ Course(d)'
  <2>1. down'[d] = down[d]
    BY <1>2, <1>6, <1>8 DEF ToClient
  <2>2. /\ Coming(d)' = Coming(d) /\ ComingOnce(d)' = ComingOnce(d)
        /\ ComingInOrder(d)' = ComingInOrder(d)
    BY <2>1 DEF Coming, ComingOnce, ComingInOrder
  <2>3. InOnePlace(d)'
    BY <1>3, <1>4, <1>7, <2>2 DEF InOnePlace
  <2>4. Open(d) => \A q \in Queries : Row(d, q) # Due
    BY <1>2, <1>8 DEF Row
  <2>5. RowFirst(d)'
    BY <1>1, <1>3, <1>7, <2>2, <2>4 DEF RowFirst
  <2>. QED
    BY <1>7, <2>3, <2>5
<1>9. ASSUME Open(c)
      PROVE  InOnePlace(c)' /\ RowFirst(c)' /\ Course(c)'
  <2>1. down'[c] = Append(down[c], msg) /\ msg \in DownMessages /\ msg # Ack
    BY <1>2, <1>6, <1>9 DEF ToClient
  <2>2. InOnePlace(c) /\ RowFirst(c)
    BY <1>2, <1>7
  <2>3. msg \notin Coming(c) /\ msg \notin Got(c) /\ \A n \in Coming(c) : ~RowOf(msg, n)
    BY <1>3, <2>2 DEF InOnePlace, RowFirst
  <2>4. ComingOnce(c)' /\ ComingInOrder(c)' /\ Coming(c)' = Coming(c) \cup {msg}
    BY <1>2, <1>6, <2>1, <2>2, <2>3, WriteComing DEF InOnePlace, RowFirst
  <2>5. Got(c)' = Got(c) /\ GotOnce(c)' = GotOnce(c) /\ Course(c)' /\ (Open(c)' <=> Open(c))
    BY <1>2, <1>7
  <2>6. InOnePlace(c)'
    BY <1>3, <1>4, <1>5, <2>2, <2>3, <2>4, <2>5 DEF InOnePlace
  <2>7. RowFirst(c)'
    <3>1. \A n \in Coming(c)', m \in DueMessages' : ~RowOf(m, n)
      BY <1>3, <2>2, <2>4 DEF RowFirst
    <3>2. \A q \in Queries : Eof(c, q) \in Got(c)' => Row(c, q) \in Got(c)'
      BY <2>2, <2>5 DEF RowFirst
    <3>3. Open(c)' => \A q \in Queries :
             answers'[c][q] # "none" => Row(c, q) \in Got(c)' \cup Coming(c)' \cup DueMessages'
      BY <1>1, <1>3, <2>2, <2>4, <2>5 DEF RowFirst
    <3>. QED
      BY <2>4, <3>1, <3>2, <3>3 DEF RowFirst
  <2>. QED
    BY <2>5, <2>6, <2>7
<1>. QED
  BY <1>2, <1>5, <1>8, <1>9 DEF PlacesInv

(* While no restart empties the list of clients, every result has its        *)
(* client there and no batch is put back.                                    *)
LEMMA NackPlaces ==
    ASSUME SessionInv, PlacesInv, NackResult
    PROVE  FALSE
<1>1. results # <<>> /\ Match(Due) = {}
  BY DEF NackResult
<1>2. /\ next \in 1..Len(results[1]) /\ Due = results[1][next] /\ Due \in ResultMessages
      /\ Len(results) \in Nat \ {0} /\ 1 \in Nat /\ next \in Nat
  BY <1>1, DueType DEF SessionInv
<1>3. IsDue(1, next)
  BY <1>2 DEF IsDue
<1>4. Due \in DueMessages
  BY <1>2, <1>3 DEF DueMessages
<1>5. Answered(Due)
  BY <1>4 DEF PlacesInv, QueueInv
<1>6. Due.client \in Clients /\ Due.query \in Queries
  BY <1>2 DEF ResultMessages
<1>7. answers[Due.client][Due.query] # "none"
  BY <1>5 DEF Answered
<1>8. Due.client \in clientList
  BY <1>6, <1>7 DEF PlacesInv, Course
<1>. QED
  BY <1>1, <1>8, <1>6 DEF Match

(* A new answer is nowhere yet, and no EOF of its query is, when it is a row. *)
LEMMA AnswerPlaces ==
    ASSUME SessionInv, PlacesInv, NEW c \in Clients, NEW q \in Queries, Answer(c, q)
    PROVE  PlacesInv'
<1>1. /\ Len(announced[c]) = 2
      /\ UNCHANGED <<phase, received, down, next, announced, clientList>>
  BY DEF Answer, program, session
<1>2. answers \in [Clients -> [Queries -> {"none", "row", "EOF"}]]
  BY DEF SessionInv, PipelineTypes
<1>3. PICK msg \in {Row(c, q), Eof(c, q)} :
         /\ Publish(msg)
         /\ \/ msg = Row(c, q) /\ answers[c][q] = "none" /\ answers' = [answers EXCEPT ![c][q] = "row"]
            \/ msg = Eof(c, q) /\ answers[c][q] = "row" /\ answers' = [answers EXCEPT ![c][q] = "EOF"]
  <2>1. CASE /\ answers[c][q] = "none" /\ answers' = [answers EXCEPT ![c][q] = "row"]
             /\ Publish(Row(c, q))
    BY <2>1
  <2>2. CASE /\ answers[c][q] = "row" /\ answers' = [answers EXCEPT ![c][q] = "EOF"]
             /\ Publish(Eof(c, q))
    BY <2>2
  <2>. QED
    BY <2>1, <2>2 DEF Answer, Row, Eof
<1>4. msg \in ResultMessages /\ msg.client = c /\ msg.query = q
  BY DEF Row, Eof, ResultMessages
<1>5. \A d \in Clients, x \in Queries : d # c \/ x # q => answers'[d][x] = answers[d][x]
  BY <1>2, <1>3
<1>6. answers'[c][q] = IF msg = Row(c, q) THEN "row" ELSE "EOF"
  BY <1>2, <1>3 DEF Row, Eof
<1>7. ~Answered(msg) /\ Answered(msg)'
  BY <1>3, <1>6 DEF Answered, Row, Eof
<1>8. ASSUME NEW m \in ResultMessages, Answered(m)
      PROVE  Answered(m)' /\ ~RowOf(msg, m)
  <2>1. m.client \in Clients /\ m.query \in Queries
    BY DEF ResultMessages
  <2>2. CASE m.client = c /\ m.query = q
    BY <1>3, <1>6, <1>8, <2>2 DEF Answered, Row, Eof, RowOf
  <2>3. CASE m.client # c \/ m.query # q
    BY <1>4, <1>5, <1>8, <2>1, <2>3 DEF Answered, RowOf
  <2>. QED
    BY <2>2, <2>3
<1>9. QueueInv /\ \A d \in Clients : InOnePlace(d) /\ RowFirst(d) /\ Course(d)
  BY DEF PlacesInv
<1>10. \A m \in DueMessages : m \in ResultMessages /\ Answered(m)
  BY <1>9 DEF QueueInv, DueMessages
<1>11. DueOnce' /\ DueInOrder' /\ DueMessages' = DueMessages \cup {msg}
  BY <1>1, <1>3, <1>4, <1>7, <1>8, <1>9, <1>10, PublishDue DEF SessionInv, QueueInv
<1>12. QueueInv'
  BY <1>7, <1>8, <1>10, <1>11 DEF QueueInv
<1>13. phase[c] # "new"
  BY <1>1, <1>9, EmptySeq DEF Course
<1>14. ASSUME NEW d \in Clients
       PROVE  InOnePlace(d)' /\ RowFirst(d)' /\ Course(d)'
  <2>1. /\ Got(d)' = Got(d) /\ Coming(d)' = Coming(d) /\ GotOnce(d)' = GotOnce(d)
        /\ ComingOnce(d)' = ComingOnce(d) /\ ComingInOrder(d)' = ComingInOrder(d)
        /\ EofsReceived(d)' = EofsReceived(d) /\ (Open(d)' <=> Open(d))
    BY <1>1 DEF Got, Coming, GotOnce, ComingOnce, ComingInOrder, EofsReceived, Open
  <2>2. InOnePlace(d) /\ RowFirst(d) /\ Course(d)
    BY <1>9
  <2>3. \A m \in Got(d) \cup Coming(d) : m \in ResultMessages /\ Answered(m)
    BY <2>2 DEF InOnePlace, Got, Coming
  <2>4. InOnePlace(d)'
    <3>1. msg \notin Got(d) /\ msg \notin Coming(d)
      BY <1>7, <2>3
    <3>. QED
      BY <1>8, <1>11, <2>1, <2>2, <2>3, <3>1 DEF InOnePlace
  <2>5. RowFirst(d)'
    <3>1. \A n \in Coming(d)', m \in DueMessages' : ~RowOf(m, n)
      BY <1>8, <1>11, <2>1, <2>2, <2>3 DEF RowFirst
    <3>2. \A x \in Queries : Eof(d, x) \in Got(d)' => Row(d, x) \in Got(d)'
      BY <2>1, <2>2 DEF RowFirst
    <3>3. ASSUME Open(d)', NEW x \in Queries, answers'[d][x] # "none"
          PROVE  Row(d, x) \in Got(d)' \cup Coming(d)' \cup DueMessages'
      <4>1. CASE answers[d][x] # "none"
        BY <1>11, <2>1, <2>2, <3>3, <4>1 DEF RowFirst
      <4>2. CASE answers[d][x] = "none"
        <5>1. d = c /\ x = q
          BY <1>5, <3>3, <4>2
        <5>2. msg = Row(d, x)
          BY <1>3, <4>2, <5>1
        <5>. QED
          BY <1>11, <5>2
      <4>. QED
        BY <4>1, <4>2
    <3>. QED
      BY <2>1, <2>2, <3>1, <3>2, <3>3 DEF RowFirst
  <2>6. Course(d)'
    BY <1>1, <1>5, <1>13, <2>1, <2>2 DEF Course
  <2>. QED
    BY <2>4, <2>5, <2>6
<1>. QED
  BY <1>12, <1>14 DEF PlacesInv

LEMMA NextRun == SessionInv /\ RunInv /\ [Next]_vars => RunInv'
<1> SUFFICES ASSUME SessionInv, RunInv, [Next]_vars
             PROVE  RunInv'
  OBVIOUS
<1>1. CASE Restart
  BY <1>1 DEF Restart, RunInv
<1>2. CASE ~Restart
  <2>1. restarts' = restarts
    BY <1>2 DEF Next, ClientStep, GatewayStep, Connect, SendRecord, Flush, SendEof, TakeAck, Close,
                GiveUp, Receive, Vanish, HandleRequest, EndRequest, Answer, Serve, DeliverResult,
                NackResult, vars, bounds
  <2> SUFFICES ASSUME PlacesInv
               PROVE  PlacesInv'
    BY <2>1 DEF RunInv
  <2>2. phase \in [Clients -> {"new", "sending", "closing", "done", "failed", "gone"}]
    BY DEF SessionInv, ProgramTypes
  <2>3. ASSUME UNCHANGED <<down, received, answers, results, next, announced, clientList>>,
               \A d \in Clients :
                  /\ phase'[d] = "new" <=> phase[d] = "new"
                  /\ phase'[d] \in {"closing", "done"} => phase[d] \in {"closing", "done"}
                  /\ Open(d)' => Open(d)
        PROVE  PlacesInv'
    <3>1. QueueInv' /\ DueMessages' = DueMessages
      BY <2>3, StayQueue DEF PlacesInv
    <3>. QED
      BY <2>3, <3>1, StayPlaces DEF PlacesInv
  <2>4. ASSUME NEW c \in Clients, ClientStep(c) PROVE PlacesInv'
    <3>1. CASE SendRecord(c) \/ Flush(c) \/ SendEof(c)
      BY <2>3, <3>1 DEF SendRecord, Flush, SendEof, session, pipeline, Open
    <3>2. CASE TakeAck(c)
      <4>1. /\ UNCHANGED <<down, received, answers, results, next, announced, clientList>>
            /\ \A d \in Clients : phase'[d] = phase[d] \/ (phase[d] = "closing" /\ phase'[d] = "done")
        BY <2>2, <3>2 DEF TakeAck, session, pipeline
      <4>. QED
        BY <2>3, <4>1 DEF Open
    <3>3. CASE GiveUp(c)
      <4>1. /\ UNCHANGED <<down, received, answers, results, next, announced, clientList>>
            /\ \A d \in Clients : phase'[d] = phase[d] \/ (Open(d) /\ phase'[d] = "failed")
        BY <2>2, <3>3 DEF GiveUp, session, pipeline
      <4>. QED
        BY <2>3, <4>1 DEF Open
    <3>. QED
      BY <2>4, <3>1, <3>2, <3>3, ConnectPlaces, ClosePlaces DEF ClientStep
  <2>5. ASSUME NEW c \in Clients, Vanish(c) PROVE PlacesInv'
    <3>1. /\ UNCHANGED <<down, received, answers, results, next, announced, clientList>>
          /\ \A d \in Clients : phase'[d] = phase[d] \/ (Open(d) /\ phase'[d] = "gone")
      BY <2>2, <2>5 DEF Vanish, session, pipeline
    <3>. QED
      BY <2>3, <3>1 DEF Open
  <2>6. ASSUME NEW c \in Clients, EndRequest(c) PROVE PlacesInv'
    BY <2>3, <2>6 DEF EndRequest, program, session, pipeline, Open
  <2>7. CASE Serve \/ UNCHANGED vars
    BY <2>3, <2>7 DEF Serve, vars, program, session, pipeline, Open
  <2>. QED
    BY <1>2, <2>4, <2>5, <2>6, <2>7, ReceivePlaces, HandlePlaces, AnswerPlaces, DeliverPlaces,
       NackPlaces DEF Next, GatewayStep
<1>. QED
  BY <1>1, <1>2

(* As many EOFs as there are queries, no two alike, are one of each query.   *)
LEMMA AllEofs ==
    ASSUME NEW c \in Clients, received[c] \in Seq(ResultsOf(c)), GotOnce(c),
           EofsReceived(c) >= Cardinality(Queries)
    PROVE  \A q \in Queries : \E i \in 1..Len(received[c]) : received[c][i] = Eof(c, q)
<1>. DEFINE S == KindAt(received[c], "EOF")
            f == [i \in S |-> received[c][i].query]
<1>1. DOMAIN received[c] = 1..Len(received[c])
  OBVIOUS
<1>2. ASSUME NEW i \in S
      PROVE  /\ i \in 1..Len(received[c]) /\ f[i] \in Queries /\ received[c][i] = Eof(c, f[i])
  <2>1. i \in 1..Len(received[c]) /\ received[c][i].kind = "EOF"
    BY <1>1 DEF KindAt
  <2>2. received[c][i] \in ResultsOf(c)
    BY <2>1, ElementOfSeq
  <2>3. received[c][i] \in ResultMessages /\ received[c][i].client = c
    BY <2>2 DEF ResultsOf
  <2>. QED
    BY <2>1, <2>3 DEF ResultMessages, Eof
<1>3. f \in Injection(S, Queries)
  <2>1. f \in [S -> Queries]
    BY <1>2
  <2>2. ASSUME NEW i \in S, NEW j \in S, f[i] = f[j] PROVE i = j
    BY <1>2, <2>2 DEF GotOnce
  <2>. QED
    BY <2>1, <2>2 DEF Injection, IsInjective
<1>4. IsFiniteSet(Queries)
  BY ResultAssumption
<1>5. EofsReceived(c) = Cardinality(S)
  BY DEF EofsReceived, KindAt
<1>. HIDE DEF S, f
<1>6. IsFiniteSet(S) /\ Cardinality(S) <= Cardinality(Queries)
      /\ (Cardinality(S) = Cardinality(Queries) <=> f \in Surjection(S, Queries))
  BY <1>3, <1>4, FS_Injection
<1>7. Cardinality(S) = Cardinality(Queries)
  <2>1. Cardinality(S) \in Nat /\ Cardinality(Queries) \in Nat
    BY <1>4, <1>6, FS_CardinalityType
  <2>2. Cardinality(S) >= Cardinality(Queries)
    BY <1>5
  <2>. DEFINE x == Cardinality(S)
              y == Cardinality(Queries)
  <2>3. x \in Nat /\ y \in Nat /\ x >= y /\ x <= y
    BY <1>6, <2>1, <2>2
  <2>. HIDE DEF x, y
  <2>4. x = y
    BY <2>3
  <2>. QED
    BY <2>4 DEF x, y
<1>8. \A q \in Queries : \E i \in S : f[i] = q
  BY <1>6, <1>7 DEF Surjection
<1>. QED
  BY <1>2, <1>8

(* While the gateway runs, a client gets its own results only, each once,    *)
(* and one that is done has the row and the EOF of every query, though it    *)
(* counts EOFs without looking whose they are: main stops at                 *)
(* EXPECTED_RESULT_EOFS.                                                     *)
THEOREM ResultsExactHolds == Spec => []ResultsExact
<1>1. SessionInv /\ OwnInv /\ RunInv => ResultsExact
  <2> SUFFICES ASSUME SessionInv, OwnInv, PlacesInv, NEW c \in Clients
               PROVE  /\ \A i \in 1..Len(received[c]) : received[c][i].client = c
                      /\ IsInjective(received[c])
                      /\ phase[c] = "done" =>
                            {<<m.kind, m.query>> : m \in ToSet(received[c])} = {"ROW", "EOF"} \X Queries
    BY DEF ResultsExact, RunInv
  <2>1. received[c] \in Seq(ResultsOf(c)) /\ DOMAIN received[c] = 1..Len(received[c])
    <3>1. received[c] \in Seq(ResultsOf(c))
      BY DEF OwnInv
    <3>. QED
      BY <3>1
  <2>2. \A i \in 1..Len(received[c]) : received[c][i] \in ResultMessages /\ received[c][i].client = c
    BY <2>1, ElementOfSeq DEF ResultsOf
  <2>3. GotOnce(c) /\ RowFirst(c) /\ Course(c)
    BY DEF PlacesInv, InOnePlace
  <2>4. IsInjective(received[c])
    BY <2>1, <2>3 DEF IsInjective, GotOnce
  <2>5. ASSUME phase[c] = "done"
        PROVE  {<<m.kind, m.query>> : m \in ToSet(received[c])} = {"ROW", "EOF"} \X Queries
    <3>1. EofsReceived(c) >= Cardinality(Queries)
      BY <2>3, <2>5 DEF Course
    <3>2. ASSUME NEW q \in Queries
          PROVE  /\ \E i \in 1..Len(received[c]) : received[c][i] = Row(c, q)
                 /\ \E i \in 1..Len(received[c]) : received[c][i] = Eof(c, q)
      <4>1. PICK i \in 1..Len(received[c]) : received[c][i] = Eof(c, q)
        BY <2>1, <2>3, <3>1, AllEofs
      <4>2. Eof(c, q) \in Got(c)
        BY <2>2, <4>1 DEF Got
      <4>3. Row(c, q) \in Got(c)
        BY <2>3, <4>2 DEF RowFirst
      <4>. QED
        BY <4>1, <4>3 DEF Got
    <3>3. \A m \in ToSet(received[c]) : <<m.kind, m.query>> \in {"ROW", "EOF"} \X Queries
      BY <2>1, <2>2 DEF ToSet, ResultMessages
    <3>4. ASSUME NEW q \in Queries, NEW k \in {"ROW", "EOF"}
          PROVE  \E m \in ToSet(received[c]) : <<m.kind, m.query>> = <<k, q>>
      <4>1. CASE k = "ROW"
        <5>1. PICK i \in 1..Len(received[c]) : received[c][i] = Row(c, q)
          BY <3>2
        <5>2. Row(c, q) \in ToSet(received[c])
          BY <2>1, <5>1 DEF ToSet
        <5>3. Row(c, q).kind = k /\ Row(c, q).query = q
          BY <4>1 DEF Row
        <5>. QED
          BY <5>2, <5>3
      <4>2. CASE k = "EOF"
        <5>1. PICK i \in 1..Len(received[c]) : received[c][i] = Eof(c, q)
          BY <3>2
        <5>2. Eof(c, q) \in ToSet(received[c])
          BY <2>1, <5>1 DEF ToSet
        <5>3. Eof(c, q).kind = k /\ Eof(c, q).query = q
          BY <4>2 DEF Eof
        <5>. QED
          BY <5>2, <5>3
      <4>. QED
        BY <4>1, <4>2
    <3>. QED
      BY <3>3, <3>4
  <2>. QED
    BY <2>2, <2>4, <2>5
<1>. QED
  BY <1>1, InitRun, NextRun, SpecOwn, SpecSession, PTL DEF Spec
=============================================================================
