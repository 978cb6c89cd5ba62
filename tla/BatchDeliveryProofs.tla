------------------------ MODULE BatchDeliveryProofs -------------------------
(***************************************************************************)
(* Delivery, deduplication and acknowledgement of batches, for any number  *)
(* of processes, batches, exceptions, dead publishers, kills and restarts. *)
(***************************************************************************)
EXTENDS BatchDelivery, SequenceTheorems, TLAPS

Labels == Handling \cup {"idle", "stopping", "stopped"}

\* The deduplicator's keys of the messages that have one.
Keys == {Key(m) : m \in Messages}

Types ==
    /\ pc \in [Workers -> Labels]
    /\ held \in [Workers -> Batches \cup {NoBatch}]
    /\ pos \in [Workers -> Nat]
    /\ pending \in [Workers -> Nat]
    /\ seen \in [Workers -> SUBSET Keys]
    /\ counted \in [Workers -> [Messages -> Nat]]
    /\ outbox \in [Workers -> Seq(Messages)]
    /\ published \subseteq Messages
    /\ broken \in [Workers -> BOOLEAN]
    /\ lost \subseteq Messages
    /\ catches \in BOOLEAN
    /\ poison \subseteq Messages
    /\ ended \in BOOLEAN
    /\ faults \in Nat

PlaceInv == Types /\ OnePlace

-----------------------------------------------------------------------------
(* A batch has messages, and the message a process is on is one of them.     *)
LEMMA BodyType ==
    ASSUME NEW b \in Batches
    PROVE  /\ Body[b] \in Seq(Messages) /\ Len(Body[b]) \in Nat \ {0}
           /\ DOMAIN Body[b] = 1..Len(Body[b])
           /\ \A i \in 1..Len(Body[b]) : Body[b][i] \in Messages
           /\ b # NoBatch
<1>1. Body[b] \in Seq(Messages) /\ Body[b] # <<>>
  BY BodyAssumption
<1>2. Len(Body[b]) \in Nat \ {0}
  BY <1>1, EmptySeq, LenProperties
<1>3. DOMAIN Body[b] = 1..Len(Body[b]) /\ \A i \in 1..Len(Body[b]) : Body[b][i] \in Messages
  BY <1>1, LenProperties, ElementOfSeq
<1>. QED
  BY <1>1, <1>2, <1>3, BatchAssumption

LEMMA CurrentType ==
    ASSUME PlaceInv, NEW w \in Workers, pc[w] \in Handling
    PROVE  held[w] \in Batches /\ pos[w] \in 1..Len(Body[held[w]]) /\ Current(w) \in Messages
<1>1. held[w] \in Batches /\ pos[w] \in 1..Len(Body[held[w]])
  BY DEF PlaceInv, OnePlace
<1>. QED
  BY <1>1, BodyType DEF Current

(* What a process that leaves its batch gives back.                          *)
LEMMA RequeuePlace ==
    ASSUME PlaceInv, NEW w \in Workers, Requeue(w), NEW label \in {"idle", "stopping", "stopped"},
           Goto(w, label), UNCHANGED <<acked, counted>>, outbox' \in [Workers -> Seq(Messages)]
    PROVE  /\ OnePlace'
           /\ pc' \in [Workers -> Labels] /\ held' \in [Workers -> Batches \cup {NoBatch}]
           /\ pos' \in [Workers -> Nat] /\ pending' \in [Workers -> Nat]
<1>t. /\ pc \in [Workers -> Labels] /\ held \in [Workers -> Batches \cup {NoBatch}]
      /\ pos \in [Workers -> Nat] /\ pending \in [Workers -> Nat]
      /\ counted \in [Workers -> [Messages -> Nat]]
  BY DEF PlaceInv, Types
<1>1. /\ pc' = [pc EXCEPT ![w] = label] /\ held' = [held EXCEPT ![w] = NoBatch]
      /\ pos' = [pos EXCEPT ![w] = 0] /\ pending' = [pending EXCEPT ![w] = 0]
      /\ ready' = (ready \cup {held[w]}) \ {NoBatch}
  BY DEF Requeue, LeaveBatch, Goto
<1>2. /\ pc' \in [Workers -> Labels] /\ held' \in [Workers -> Batches \cup {NoBatch}]
      /\ pos' \in [Workers -> Nat] /\ pending' \in [Workers -> Nat]
  BY <1>1, <1>t DEF Labels
<1>3. ready' \subseteq Batches /\ acked' \subseteq Batches /\ ready' \cap acked' = {}
  BY <1>1, <1>t DEF PlaceInv, OnePlace
<1>4. ASSUME NEW x \in Workers
      PROVE  /\ pc'[x] \in Labels
             /\ (pc'[x] \in Handling) = (held'[x] # NoBatch)
             /\ held'[x] # NoBatch =>
                  /\ held'[x] \in Batches \ (ready' \cup acked')
                  /\ pos'[x] \in 1..Len(Body[held'[x]])
                  /\ pending'[x] = Len(Body[held'[x]]) - pos'[x] + 1
                  /\ \A v \in Workers \ {x} : held'[v] # held'[x]
             /\ \A m \in Messages : counted'[x][m] \in Nat
             /\ outbox'[x] \in Seq(Messages)
  <2>1. CASE x = w
    <3>1. pc'[x] = label /\ held'[x] = NoBatch
      BY <1>1, <1>t, <2>1
    <3>2. label \notin Handling
      BY DEF Handling
    <3>. QED
      BY <1>t, <1>2, <3>1, <3>2
  <2>2. CASE x # w
    <3>1. /\ pc'[x] = pc[x] /\ held'[x] = held[x] /\ pos'[x] = pos[x] /\ pending'[x] = pending[x]
          /\ \A v \in Workers : held'[v] = held[v] \/ held'[v] = NoBatch
      BY <1>1, <1>t, <2>2
    <3>2. (pc[x] \in Handling) = (held[x] # NoBatch)
      BY DEF PlaceInv, OnePlace
    <3>3. ASSUME held[x] # NoBatch
          PROVE  /\ held[x] \in Batches \ (ready \cup acked) /\ held[x] # held[w]
                 /\ pos[x] \in 1..Len(Body[held[x]])
                 /\ pending[x] = Len(Body[held[x]]) - pos[x] + 1
                 /\ \A v \in Workers \ {x} : held[v] # held[x]
      BY <2>2, <3>3 DEF PlaceInv, OnePlace
    <3>4. held'[x] # NoBatch =>
            /\ held'[x] \in Batches \ (ready' \cup acked')
            /\ pos'[x] \in 1..Len(Body[held'[x]])
            /\ pending'[x] = Len(Body[held'[x]]) - pos'[x] + 1
            /\ \A v \in Workers \ {x} : held'[v] # held'[x]
      BY <1>1, <3>1, <3>3
    <3>. QED
      BY <1>t, <1>2, <3>1, <3>2, <3>4
  <2>. QED
    BY <2>1, <2>2
<1>. QED
  BY <1>2, <1>3, <1>4 DEF OnePlace, Labels

(* Steps that leave every batch where it is.                                 *)
LEMMA StayPlace ==
    ASSUME PlaceInv, UNCHANGED <<broker, place>>, Types',
           \A x \in Workers : pc'[x] \in Handling <=> pc[x] \in Handling
    PROVE  PlaceInv'
<1>1. UNCHANGED <<ready, acked, held, pos, pending>>
  BY DEF broker, place
<1>2. ASSUME NEW x \in Workers
      PROVE  (pc'[x] \in Handling) = (held'[x] # NoBatch)
  BY <1>1 DEF PlaceInv, OnePlace
<1>3. \A x \in Workers : /\ pc'[x] \in Labels
                         /\ \A m \in Messages : counted'[x][m] \in Nat
                         /\ outbox'[x] \in Seq(Messages)
  BY DEF Types
<1>. QED
  BY <1>1, <1>2, <1>3 DEF PlaceInv, OnePlace, Labels

LEMMA OutputsType ==
    ASSUME NEW s \in Seq(Messages)
    PROVE  Outputs(s) \subseteq Messages
BY ElementOfSeq DEF Outputs

LEMMA NothingType == Nothing \in [Messages -> Nat]
BY DEF Nothing

-----------------------------------------------------------------------------
LEMMA InitPlace == Init => PlaceInv
<1> SUFFICES ASSUME Init
             PROVE  PlaceInv
  OBVIOUS
<1>1. Types
  BY NothingType, BoundAssumption, EmptySeq DEF Init, Types, Labels
<1>2. ASSUME NEW w \in Workers
      PROVE  /\ pc[w] = "idle" /\ held[w] = NoBatch
             /\ \A m \in Messages : counted[w][m] \in Nat
             /\ outbox[w] \in Seq(Messages)
  BY <1>1 DEF Init, Types
<1>3. "idle" \notin Handling
  BY DEF Handling
<1>4. ready \subseteq Batches /\ acked \subseteq Batches /\ ready \cap acked = {}
  BY DEF Init
<1>. QED
  BY <1>1, <1>2, <1>3, <1>4 DEF PlaceInv, OnePlace

LEMMA DeliverPlace ==
    ASSUME PlaceInv, NEW w \in Workers, NEW b \in Batches, Deliver(w, b)
    PROVE  PlaceInv'
<1>t. Types
  BY DEF PlaceInv
<1>1. /\ pc' = [pc EXCEPT ![w] = "check"] /\ held' = [held EXCEPT ![w] = b]
      /\ pos' = [pos EXCEPT ![w] = 1] /\ pending' = [pending EXCEPT ![w] = Len(Body[b])]
      /\ b \in ready /\ ready' = ready \ {b} /\ pc[w] = "idle"
      /\ UNCHANGED <<acked, seen, counted, output, stage, ended, faults>>
  BY DEF Deliver, Goto, PendingAcks, memory
<1>2. Len(Body[b]) \in Nat \ {0} /\ b # NoBatch
  BY BodyType
<1>3. Types'
  BY <1>t, <1>1, <1>2 DEF Types, Labels, Handling, output, stage
<1>4. ready' \subseteq Batches /\ acked' \subseteq Batches /\ ready' \cap acked' = {} /\ b \notin acked
  BY <1>1 DEF PlaceInv, OnePlace
<1>5. ASSUME NEW x \in Workers, x # w
      PROVE  /\ pc'[x] = pc[x] /\ held'[x] = held[x] /\ pos'[x] = pos[x] /\ pending'[x] = pending[x]
             /\ held[x] # b
             /\ (pc[x] \in Handling) = (held[x] # NoBatch)
             /\ held[x] # NoBatch =>
                  /\ held[x] \in Batches \ (ready \cup acked)
                  /\ pos[x] \in 1..Len(Body[held[x]])
                  /\ pending[x] = Len(Body[held[x]]) - pos[x] + 1
                  /\ \A v \in Workers \ {x} : held[v] # held[x]
  BY <1>1, <1>2, <1>5, <1>t DEF PlaceInv, OnePlace, Types
<1>6. pc'[w] = "check" /\ held'[w] = b /\ pos'[w] = 1 /\ pending'[w] = Len(Body[b])
  BY <1>1, <1>t DEF Types
<1>7. ASSUME NEW x \in Workers
      PROVE  /\ (pc'[x] \in Handling) = (held'[x] # NoBatch)
             /\ held'[x] # NoBatch =>
                  /\ held'[x] \in Batches \ (ready' \cup acked')
                  /\ pos'[x] \in 1..Len(Body[held'[x]])
                  /\ pending'[x] = Len(Body[held'[x]]) - pos'[x] + 1
                  /\ \A v \in Workers \ {x} : held'[v] # held'[x]
  <2>1. CASE x = w
    <3>1. (pc'[x] \in Handling) = (held'[x] # NoBatch)
      BY <1>2, <1>6, <2>1 DEF Handling
    <3>2. \A v \in Workers \ {x} : held'[v] # held'[x]
      BY <1>5, <1>6, <2>1
    <3>3. pos'[x] \in 1..Len(Body[b]) /\ pending'[x] = Len(Body[b]) - pos'[x] + 1
      BY <1>2, <1>6, <2>1
    <3>. QED
      BY <1>1, <1>4, <1>6, <2>1, <3>1, <3>2, <3>3
  <2>2. CASE x # w
    <3>1. \A v \in Workers \ {x} : held[x] # NoBatch => held'[v] # held'[x]
      BY <1>5, <1>6, <2>2
    <3>. QED
      BY <1>1, <1>5, <2>2, <3>1
  <2>. QED
    BY <2>1, <2>2
<1>8. \A x \in Workers : /\ pc'[x] \in Labels
                         /\ \A m \in Messages : counted'[x][m] \in Nat
                         /\ outbox'[x] \in Seq(Messages)
  BY <1>3 DEF Types
<1>. QED
  BY <1>3, <1>4, <1>7, <1>8 DEF PlaceInv, OnePlace, Labels

LEMMA AckPlace ==
    ASSUME PlaceInv, NEW w \in Workers, Ack(w)
    PROVE  PlaceInv'
<1>t. Types
  BY DEF PlaceInv
<1>1. /\ pc[w] = "ack" /\ pending' = [pending EXCEPT ![w] = @ - 1]
      /\ UNCHANGED <<ready, seen, counted, output, stage, ended, faults>>
  BY DEF Ack, memory
<1>2. /\ held[w] \in Batches \ (ready \cup acked) /\ pos[w] \in 1..Len(Body[held[w]])
      /\ pending[w] = Len(Body[held[w]]) - pos[w] + 1
      /\ \A v \in Workers \ {w} : held[v] # held[w]
      /\ held[w] # NoBatch /\ Len(Body[held[w]]) \in Nat
  <2>1. pc[w] \in Handling
    BY <1>1 DEF Handling
  <2>. QED
    BY <2>1, BodyType DEF PlaceInv, OnePlace
<1>n. pending[w] - 1 \in Nat /\ pos[w] + 1 \in Nat
  BY <1>2
<1>3. ASSUME NEW x \in Workers, x # w
      PROVE  /\ (pc[x] \in Handling) = (held[x] # NoBatch)
             /\ held[x] # NoBatch =>
                  /\ held[x] \in Batches \ (ready \cup acked) /\ held[x] # held[w]
                  /\ pos[x] \in 1..Len(Body[held[x]])
                  /\ pending[x] = Len(Body[held[x]]) - pos[x] + 1
                  /\ \A v \in Workers \ {x} : held[v] # held[x]
  BY <1>2, <1>3 DEF PlaceInv, OnePlace
<1>4. CASE pending[w] = 1
  <2>1. /\ acked' = acked \cup {held[w]} /\ held' = [held EXCEPT ![w] = NoBatch]
        /\ pos' = [pos EXCEPT ![w] = 0] /\ pc' = [pc EXCEPT ![w] = "idle"]
    BY <1>4 DEF Ack, Goto
  <2>2. Types'
    BY <1>t, <1>1, <1>n, <2>1 DEF Types, Labels, output, stage
  <2>3. ready' \subseteq Batches /\ acked' \subseteq Batches /\ ready' \cap acked' = {}
    BY <1>1, <1>2, <2>1 DEF PlaceInv, OnePlace
  <2>4. ASSUME NEW x \in Workers
        PROVE  /\ (pc'[x] \in Handling) = (held'[x] # NoBatch)
               /\ held'[x] # NoBatch =>
                    /\ held'[x] \in Batches \ (ready' \cup acked')
                    /\ pos'[x] \in 1..Len(Body[held'[x]])
                    /\ pending'[x] = Len(Body[held'[x]]) - pos'[x] + 1
                    /\ \A v \in Workers \ {x} : held'[v] # held'[x]
    <3>1. CASE x = w
      <4>1. pc'[x] = "idle" /\ held'[x] = NoBatch
        BY <1>t, <2>1, <3>1 DEF Types
      <4>. QED
        BY <4>1 DEF Handling
    <3>2. CASE x # w
      <4>1. /\ pc'[x] = pc[x] /\ held'[x] = held[x] /\ pos'[x] = pos[x] /\ pending'[x] = pending[x]
            /\ \A v \in Workers : held'[v] = held[v] \/ held'[v] = NoBatch
        BY <1>t, <1>1, <2>1, <3>2 DEF Types
      <4>. QED
        BY <1>1, <1>3, <2>1, <3>2, <4>1
    <3>. QED
      BY <3>1, <3>2
  <2>5. \A x \in Workers : /\ pc'[x] \in Labels
                           /\ \A m \in Messages : counted'[x][m] \in Nat
                           /\ outbox'[x] \in Seq(Messages)
    BY <2>2 DEF Types
  <2>. QED
    BY <2>2, <2>3, <2>4, <2>5 DEF PlaceInv, OnePlace, Labels
<1>5. CASE pending[w] # 1
  <2>1. /\ acked' = acked /\ held' = held
        /\ pos' = [pos EXCEPT ![w] = @ + 1] /\ pc' = [pc EXCEPT ![w] = "check"]
    BY <1>5 DEF Ack, Goto
  <2>2. Types'
    BY <1>t, <1>1, <1>n, <2>1 DEF Types, Labels, Handling, output, stage
  <2>3. ready' \subseteq Batches /\ acked' \subseteq Batches /\ ready' \cap acked' = {}
    BY <1>1, <2>1 DEF PlaceInv, OnePlace
  <2>4. ASSUME NEW x \in Workers
        PROVE  /\ (pc'[x] \in Handling) = (held'[x] # NoBatch)
               /\ held'[x] # NoBatch =>
                    /\ held'[x] \in Batches \ (ready' \cup acked')
                    /\ pos'[x] \in 1..Len(Body[held'[x]])
                    /\ pending'[x] = Len(Body[held'[x]]) - pos'[x] + 1
                    /\ \A v \in Workers \ {x} : held'[v] # held'[x]
    <3>1. CASE x = w
      <4>1. /\ pc'[x] = "check" /\ held'[x] = held[w] /\ pos'[x] = pos[w] + 1
            /\ pending'[x] = pending[w] - 1
        BY <1>t, <1>1, <2>1, <3>1 DEF Types
      <4>2. pos'[x] \in 1..Len(Body[held[w]]) /\ pending'[x] = Len(Body[held[w]]) - pos'[x] + 1
        BY <1>2, <1>5, <4>1
      <4>3. pc'[x] \in Handling
        BY <4>1 DEF Handling
      <4>. QED
        BY <1>1, <1>2, <2>1, <3>1, <4>1, <4>2, <4>3
    <3>2. CASE x # w
      <4>1. pc'[x] = pc[x] /\ pos'[x] = pos[x] /\ pending'[x] = pending[x]
        BY <1>t, <1>1, <2>1, <3>2 DEF Types
      <4>. QED
        BY <1>1, <1>3, <2>1, <3>2, <4>1
    <3>. QED
      BY <3>1, <3>2
  <2>5. \A x \in Workers : /\ pc'[x] \in Labels
                           /\ \A m \in Messages : counted'[x][m] \in Nat
                           /\ outbox'[x] \in Seq(Messages)
    BY <2>2 DEF Types
  <2>. QED
    BY <2>2, <2>3, <2>4, <2>5 DEF PlaceInv, OnePlace, Labels
<1>. QED
  BY <1>4, <1>5

(* The steps of a handler that leave the batch where it is.                  *)
LEMMA CheckPlace ==
    ASSUME PlaceInv, NEW w \in Workers, Check(w)
    PROVE  PlaceInv'
<1>t. Types
  BY DEF PlaceInv
<1>1. PICK label \in {"send", "ack"} : pc' = [pc EXCEPT ![w] = label]
  BY DEF Check, Goto
<1>2. pc[w] = "check" /\ UNCHANGED <<broker, place, memory, output, stage, ended, faults>>
  BY DEF Check
<1>3. Types'
  BY <1>t, <1>1, <1>2 DEF Types, Labels, Handling, place, memory, output, stage
<1>4. \A x \in Workers : pc'[x] \in Handling <=> pc[x] \in Handling
  BY <1>t, <1>1, <1>2 DEF Types, Handling
<1>. QED
  BY <1>2, <1>3, <1>4, StayPlace

LEMMA SendPlace ==
    ASSUME PlaceInv, NEW w \in Workers, Send(w)
    PROVE  PlaceInv'
<1>t. Types
  BY DEF PlaceInv
<1>1. /\ pc[w] = "send" /\ pc' = [pc EXCEPT ![w] = "count"]
      /\ outbox' = [outbox EXCEPT ![w] = Append(@, Current(w))]
      /\ UNCHANGED <<broker, place, memory, broken, published, lost, stage, ended, faults>>
  BY DEF Send, Goto
<1>2. Current(w) \in Messages
  BY <1>1, CurrentType DEF Handling
<1>3. outbox' \in [Workers -> Seq(Messages)]
  <2>1. outbox[w] \in Seq(Messages)
    BY <1>t DEF Types
  <2>2. Append(outbox[w], Current(w)) \in Seq(Messages)
    BY <1>2, <2>1, AppendProperties
  <2>. QED
    BY <1>1, <1>t, <2>2 DEF Types
<1>4. Types'
  BY <1>t, <1>1, <1>3 DEF Types, Labels, Handling, place, memory, stage
<1>5. \A x \in Workers : pc'[x] \in Handling <=> pc[x] \in Handling
  BY <1>t, <1>1 DEF Types, Handling
<1>. QED
  BY <1>1, <1>4, <1>5, StayPlace

LEMMA CountPlace ==
    ASSUME PlaceInv, NEW w \in Workers, Count(w)
    PROVE  PlaceInv'
<1>t. Types
  BY DEF PlaceInv
<1>1. /\ pc[w] = "count" /\ pc' = [pc EXCEPT ![w] = "mark"]
      /\ counted' = [counted EXCEPT ![w][Current(w)] = @ + 1]
      /\ UNCHANGED <<broker, place, seen, output, stage, ended, faults>>
  BY DEF Count, Goto
<1>2. Current(w) \in Messages
  BY <1>1, CurrentType DEF Handling
<1>3. counted' \in [Workers -> [Messages -> Nat]]
  <2>1. counted[w] \in [Messages -> Nat] /\ counted[w][Current(w)] + 1 \in Nat
    BY <1>t, <1>2 DEF Types
  <2>2. [counted[w] EXCEPT ![Current(w)] = @ + 1] \in [Messages -> Nat]
    BY <2>1
  <2>. QED
    BY <1>1, <1>t, <2>2 DEF Types
<1>4. Types'
  BY <1>t, <1>1, <1>3 DEF Types, Labels, Handling, place, output, stage
<1>5. \A x \in Workers : pc'[x] \in Handling <=> pc[x] \in Handling
  BY <1>t, <1>1 DEF Types, Handling
<1>. QED
  BY <1>1, <1>4, <1>5, StayPlace

LEMMA MarkPlace ==
    ASSUME PlaceInv, NEW w \in Workers, Mark(w)
    PROVE  PlaceInv'
<1>t. Types
  BY DEF PlaceInv
<1>1. /\ pc[w] = "mark" /\ pc' = [pc EXCEPT ![w] = "ack"]
      /\ seen' = [seen EXCEPT ![w] = IF Current(w).id = NoId THEN @
                                                            ELSE @ \cup {Key(Current(w))}]
      /\ UNCHANGED <<broker, place, counted, output, stage, ended, faults>>
  BY DEF Mark, Goto
<1>2. Key(Current(w)) \in Keys
  BY <1>1, CurrentType DEF Handling, Keys
<1>3. seen' \in [Workers -> SUBSET Keys]
  BY <1>t, <1>1, <1>2 DEF Types
<1>4. Types'
  BY <1>t, <1>1, <1>3 DEF Types, Labels, Handling, place, output, stage
<1>5. \A x \in Workers : pc'[x] \in Handling <=> pc[x] \in Handling
  BY <1>t, <1>1 DEF Types, Handling
<1>. QED
  BY <1>1, <1>4, <1>5, StayPlace

(* The steps of the publisher thread, of stopping and of starting again.     *)
LEMMA PublishPlace ==
    ASSUME PlaceInv, NEW w \in Workers, Publish(w)
    PROVE  PlaceInv'
<1>t. Types
  BY DEF PlaceInv
<1>1. PICK n \in 1..Len(outbox[w]) :
        /\ published' = published \cup Outputs(SubSeq(outbox[w], 1, n))
        /\ outbox' = [outbox EXCEPT ![w] = SubSeq(@, n + 1, Len(@))]
        /\ UNCHANGED <<broker, pc, place, memory, broken, lost, stage, ended, faults>>
  BY DEF Publish
<1>2. outbox[w] \in Seq(Messages) /\ Len(outbox[w]) \in Nat
  BY <1>t, LenProperties DEF Types
<1>3. SubSeq(outbox[w], 1, n) \in Seq(Messages)
  BY <1>1, <1>2, SubSeqProperties
<1>4. SubSeq(outbox[w], n + 1, Len(outbox[w])) \in Seq(Messages)
  BY <1>1, <1>2, SubSeqProperties
<1>5. published' \subseteq Messages
  BY <1>t, <1>1, <1>3, OutputsType DEF Types
<1>6. Types'
  BY <1>t, <1>1, <1>4, <1>5 DEF Types, place, memory, stage
<1>. QED
  BY <1>1, <1>6, StayPlace

LEMMA ClosePlace ==
    ASSUME PlaceInv, NEW w \in Workers, CloseResources(w)
    PROVE  PlaceInv'
<1>t. Types
  BY DEF PlaceInv
<1>1. /\ pc[w] = "stopping" /\ pc' = [pc EXCEPT ![w] = "stopped"]
      /\ published' = published \cup Outputs(outbox[w])
      /\ outbox' = [outbox EXCEPT ![w] = <<>>]
      /\ UNCHANGED <<broker, place, memory, broken, lost, stage, ended, faults>>
  BY DEF CloseResources, Goto
<1>2. published' \subseteq Messages
  BY <1>t, <1>1, OutputsType DEF Types
<1>3. Types'
  BY <1>t, <1>1, <1>2, EmptySeq DEF Types, Labels, place, memory, stage
<1>4. \A x \in Workers : pc'[x] \in Handling <=> pc[x] \in Handling
  BY <1>t, <1>1 DEF Types, Handling
<1>. QED
  BY <1>1, <1>3, <1>4, StayPlace

LEMMA RestartPlace ==
    ASSUME PlaceInv, NEW w \in Workers, Restart(w)
    PROVE  PlaceInv'
<1>t. Types
  BY DEF PlaceInv
<1>1. /\ pc[w] = "stopped" /\ pc' = [pc EXCEPT ![w] = "idle"]
      /\ seen' = [seen EXCEPT ![w] = {}] /\ counted' = [counted EXCEPT ![w] = Nothing]
      /\ broken' = [broken EXCEPT ![w] = FALSE]
      /\ UNCHANGED <<broker, place, outbox, published, lost, stage, ended, faults>>
  BY DEF Restart, Goto
<1>2. Types'
  BY <1>t, <1>1, NothingType DEF Types, Labels, place, stage
<1>3. \A x \in Workers : pc'[x] \in Handling <=> pc[x] \in Handling
  BY <1>t, <1>1 DEF Types, Handling
<1>. QED
  BY <1>1, <1>2, <1>3, StayPlace

LEMMA RaisePlace ==
    ASSUME PlaceInv, NEW w \in Workers, Raise(w)
    PROVE  PlaceInv'
<1>t. Types
  BY DEF PlaceInv
<1>1. PICK label \in {"idle", "stopping"} : Goto(w, label)
  BY DEF Raise
<1>2. /\ Requeue(w) /\ ended' = (ended \/ ~catches)
      /\ UNCHANGED <<acked, memory, output, stage, faults>>
  BY DEF Raise
<1>3. outbox' \in [Workers -> Seq(Messages)] /\ UNCHANGED <<acked, counted>>
  BY <1>t, <1>2 DEF Types, memory, output
<1>4. /\ OnePlace'
      /\ pc' \in [Workers -> Labels] /\ held' \in [Workers -> Batches \cup {NoBatch}]
      /\ pos' \in [Workers -> Nat] /\ pending' \in [Workers -> Nat]
  BY <1>1, <1>2, <1>3, RequeuePlace
<1>5. Types'
  BY <1>t, <1>2, <1>3, <1>4 DEF Types, memory, output, stage
<1>. QED
  BY <1>4, <1>5 DEF PlaceInv

LEMMA DropTypes ==
    ASSUME Types, NEW w \in Workers, Drop(w)
    PROVE  outbox' \in [Workers -> Seq(Messages)] /\ lost' \subseteq Messages
BY EmptySeq, OutputsType DEF Types, Drop

LEMMA DiePlace ==
    ASSUME PlaceInv, NEW w \in Workers, Die(w)
    PROVE  PlaceInv'
<1>t. Types
  BY DEF PlaceInv
<1>1. /\ faults' = faults + 1 /\ broken' = [broken EXCEPT ![w] = TRUE] /\ Drop(w)
      /\ UNCHANGED <<broker, pc, place, memory, published, stage, ended>>
  BY DEF Die
<1>2. Types'
  BY <1>t, <1>1, DropTypes DEF Types, place, memory, stage
<1>. QED
  BY <1>1, <1>2, StayPlace

LEMMA KillPlace ==
    ASSUME PlaceInv, NEW w \in Workers, Kill(w)
    PROVE  PlaceInv'
<1>t. Types
  BY DEF PlaceInv
<1>1. /\ Goto(w, "stopped") /\ Requeue(w) /\ faults' = faults + 1 /\ Drop(w) /\ ended' = TRUE
      /\ UNCHANGED <<acked, memory, broken, published, stage>>
  BY DEF Kill
<1>2. /\ outbox' \in [Workers -> Seq(Messages)] /\ lost' \subseteq Messages
      /\ UNCHANGED <<acked, counted>>
  BY <1>t, <1>1, DropTypes DEF memory
<1>3. /\ OnePlace'
      /\ pc' \in [Workers -> Labels] /\ held' \in [Workers -> Batches \cup {NoBatch}]
      /\ pos' \in [Workers -> Nat] /\ pending' \in [Workers -> Nat]
  BY <1>1, <1>2, RequeuePlace
<1>4. Types'
  BY <1>t, <1>1, <1>2, <1>3 DEF Types, memory, stage
<1>. QED
  BY <1>3, <1>4 DEF PlaceInv

LEMMA NextPlace == PlaceInv /\ [Next]_vars => PlaceInv'
<1> SUFFICES ASSUME PlaceInv, [Next]_vars
             PROVE  PlaceInv'
  OBVIOUS
<1>1. CASE UNCHANGED vars
  BY <1>1 DEF vars, PlaceInv, Types, OnePlace
<1>2. ASSUME NEW w \in Workers,
             Handle(w) \/ Publish(w) \/ Die(w) \/ CloseResources(w) \/ Kill(w) \/ Restart(w)
      PROVE  PlaceInv'
  BY <1>2, DeliverPlace, CheckPlace, SendPlace, CountPlace, MarkPlace, AckPlace, RaisePlace,
     PublishPlace, DiePlace, ClosePlace, KillPlace, RestartPlace DEF Handle, Take
<1>. QED
  BY <1>1, <1>2 DEF Next

(* A dead publisher holds nothing.                                           *)
DeadIsEmpty == \A w \in Workers : broken[w] => outbox[w] = <<>>

LEMMA NextDead == PlaceInv /\ DeadIsEmpty /\ [Next]_vars => DeadIsEmpty'
<1> SUFFICES ASSUME PlaceInv, DeadIsEmpty, [Next]_vars
             PROVE  DeadIsEmpty'
  OBVIOUS
<1>t. outbox \in [Workers -> Seq(Messages)] /\ broken \in [Workers -> BOOLEAN]
  BY DEF PlaceInv, Types
<1>0. CASE UNCHANGED <<broken, outbox>>
  BY <1>0 DEF DeadIsEmpty
<1>1. ASSUME NEW w \in Workers, Send(w) \/ Publish(w)
      PROVE  DeadIsEmpty'
  <2>1. /\ ~broken[w] /\ broken' = broken
        /\ \A x \in Workers \ {w} : outbox'[x] = outbox[x]
    BY <1>1, <1>t DEF Send, Publish
  <2>. QED
    BY <2>1 DEF DeadIsEmpty
<1>2. ASSUME NEW w \in Workers, Die(w) \/ CloseResources(w) \/ Kill(w)
      PROVE  DeadIsEmpty'
  <2>1. /\ outbox' = [outbox EXCEPT ![w] = <<>>]
        /\ \A x \in Workers \ {w} : broken'[x] = broken[x]
    BY <1>2, <1>t DEF Die, CloseResources, Kill, Drop
  <2>. QED
    BY <1>t, <2>1 DEF DeadIsEmpty
<1>3. ASSUME NEW w \in Workers, Restart(w)
      PROVE  DeadIsEmpty'
  BY <1>3, <1>t DEF Restart, DeadIsEmpty
<1>4. ASSUME NEW w \in Workers, Take(w) \/ Check(w) \/ Count(w) \/ Mark(w) \/ Ack(w) \/ Raise(w)
      PROVE  UNCHANGED <<broken, outbox>>
  BY <1>4 DEF Take, Deliver, Check, Count, Mark, Ack, Raise, output
<1>. QED
  BY <1>0, <1>1, <1>2, <1>3, <1>4 DEF Next, Handle, vars

(* The types of the variables, and a batch in one place: whatever fails and  *)
(* whichever process dies, a batch waits, or is at one process and on one of *)
(* its messages, or is acknowledged, and its pending acknowledgements are    *)
(* those of the messages left.  A dead publisher holds nothing.              *)
THEOREM TypeOKHolds == Spec => []TypeOK
<1>1. PlaceInv /\ DeadIsEmpty => TypeOK
  BY DEF PlaceInv, TypeOK, DeadIsEmpty
<1>2. Init => DeadIsEmpty
  BY DEF Init, DeadIsEmpty
<1>. QED
  BY <1>1, <1>2, InitPlace, NextPlace, NextDead, PTL DEF Spec

-----------------------------------------------------------------------------
(***************************************************************************)
(* What a process has counted it has marked, or is about to mark, or it is *)
(* dead; and a process that sends or counts was told so by its marks.      *)
(***************************************************************************)
LifeOf(w) ==
    /\ pc[w] \in {"send", "count"} => ShouldProcess(w, Current(w))
    /\ \A m \in Messages : m.id # NoId /\ counted[w][m] # 0 =>
         /\ counted[w][m] = 1
         /\ \/ Key(m) \in seen[w]
            \/ pc[w] = "mark" /\ Current(w) = m
            \/ pc[w] = "stopped"

LifeInv == \A w \in Workers : LifeOf(w)

(* What a process leaves of itself alone.                                    *)
LEMMA StayLife ==
    ASSUME LifeInv, NEW x \in Workers, pc'[x] = pc[x], held'[x] = held[x], pos'[x] = pos[x],
           seen'[x] = seen[x], counted'[x] = counted[x]
    PROVE  LifeOf(x)'
<1>1. LifeOf(x)
  BY DEF LifeInv
<1>2. Current(x)' = Current(x)
  BY DEF Current
<1>. QED
  BY <1>1, <1>2 DEF LifeOf, ShouldProcess

(* A process whose marks and counts stay and which does not leave a mark     *)
(* undone.                                                                   *)
LEMMA KeepLife ==
    ASSUME LifeInv, NEW w \in Workers, pc[w] # "mark", pc[w] # "stopped", UNCHANGED memory,
           pc'[w] \in {"send", "count"} => ShouldProcess(w, Current(w)')
    PROVE  LifeOf(w)'
<1>1. LifeOf(w)
  BY DEF LifeInv
<1>. QED
  BY <1>1 DEF LifeOf, ShouldProcess, memory

LEMMA InitLife == Init => LifeInv
BY DEF Init, LifeInv, LifeOf, Nothing

LEMMA NextLife == PlaceInv /\ LifeInv /\ [Next]_vars => LifeInv'
<1> SUFFICES ASSUME PlaceInv, LifeInv, [Next]_vars
             PROVE  LifeInv'
  OBVIOUS
<1>t. Types
  BY DEF PlaceInv
<1>0. CASE UNCHANGED vars
  BY <1>0, StayLife DEF vars, LifeInv
<1>1. ASSUME NEW w \in Workers, NEW b \in Batches, Deliver(w, b)
      PROVE  LifeInv'
  <2>1. /\ pc[w] = "idle" /\ pc' = [pc EXCEPT ![w] = "check"]
        /\ held' = [held EXCEPT ![w] = b] /\ pos' = [pos EXCEPT ![w] = 1]
        /\ UNCHANGED memory
    BY <1>1 DEF Deliver, Goto
  <2>2. LifeOf(w)'
    BY <1>t, <2>1, KeepLife DEF Types
  <2>3. \A x \in Workers \ {w} : LifeOf(x)'
    BY <2>1, <1>t, StayLife DEF Types, memory
  <2>. QED
    BY <2>2, <2>3 DEF LifeInv
<1>2. ASSUME NEW w \in Workers, Check(w)
      PROVE  LifeInv'
  <2>1. /\ pc[w] = "check"
        /\ pc' = [pc EXCEPT ![w] = IF ShouldProcess(w, Current(w)) THEN "send" ELSE "ack"]
        /\ UNCHANGED <<place, memory>>
    BY <1>2 DEF Check, Goto
  <2>2. pc'[w] \in {"send", "count"} => ShouldProcess(w, Current(w)')
    BY <1>t, <2>1 DEF Types, Current, place
  <2>3. LifeOf(w)'
    BY <2>1, <2>2, KeepLife
  <2>4. \A x \in Workers \ {w} : LifeOf(x)'
    BY <2>1, <1>t, StayLife DEF Types, memory, place
  <2>. QED
    BY <2>3, <2>4 DEF LifeInv
<1>3. ASSUME NEW w \in Workers, Send(w)
      PROVE  LifeInv'
  <2>1. /\ pc[w] = "send" /\ pc' = [pc EXCEPT ![w] = "count"]
        /\ UNCHANGED <<place, memory>>
    BY <1>3 DEF Send, Goto
  <2>2. ShouldProcess(w, Current(w)')
    BY <2>1 DEF LifeInv, LifeOf, Current, place
  <2>3. LifeOf(w)'
    BY <2>1, <2>2, KeepLife
  <2>4. \A x \in Workers \ {w} : LifeOf(x)'
    BY <2>1, <1>t, StayLife DEF Types, memory, place
  <2>. QED
    BY <2>3, <2>4 DEF LifeInv
<1>4. ASSUME NEW w \in Workers, Count(w)
      PROVE  LifeInv'
  <2>1. /\ pc[w] = "count" /\ pc' = [pc EXCEPT ![w] = "mark"]
        /\ counted' = [counted EXCEPT ![w][Current(w)] = @ + 1]
        /\ UNCHANGED <<place, seen>>
    BY <1>4 DEF Count, Goto
  <2>2. Current(w) \in Messages /\ ShouldProcess(w, Current(w))
    BY <2>1, CurrentType DEF Handling, LifeInv, LifeOf
  <2>3. pc'[w] = "mark" /\ Current(w)' = Current(w) /\ seen'[w] = seen[w]
    BY <1>t, <2>1 DEF Types, Current, place
  <2>4. ASSUME NEW m \in Messages, m.id # NoId, counted'[w][m] # 0
        PROVE  /\ counted'[w][m] = 1
               /\ Key(m) \in seen'[w] \/ Current(w)' = m
    <3>1. CASE m = Current(w)
      <4>1. counted[w][m] = 0
        BY <1>t, <2>1, <2>2, <2>4, <3>1 DEF LifeInv, LifeOf, ShouldProcess
      <4>2. counted'[w][m] = counted[w][m] + 1
        BY <1>t, <2>1, <3>1 DEF Types
      <4>. QED
        BY <2>3, <3>1, <4>1, <4>2
    <3>2. CASE m # Current(w)
      <4>1. counted'[w][m] = counted[w][m]
        BY <1>t, <2>1, <3>2 DEF Types
      <4>. QED
        BY <2>1, <2>3, <2>4, <4>1 DEF LifeInv, LifeOf
    <3>. QED
      BY <3>1, <3>2
  <2>5. LifeOf(w)'
    BY <2>3, <2>4 DEF LifeOf
  <2>6. \A x \in Workers \ {w} : LifeOf(x)'
    BY <2>1, <1>t, StayLife DEF Types, place
  <2>. QED
    BY <2>5, <2>6 DEF LifeInv
<1>5. ASSUME NEW w \in Workers, Mark(w)
      PROVE  LifeInv'
  <2>1. /\ pc[w] = "mark" /\ pc' = [pc EXCEPT ![w] = "ack"]
        /\ seen' = [seen EXCEPT ![w] = IF Current(w).id = NoId
                                         THEN @ ELSE @ \cup {Key(Current(w))}]
        /\ UNCHANGED <<place, counted>>
    BY <1>5 DEF Mark, Goto
  <2>2. /\ pc'[w] = "ack" /\ counted' = counted
        /\ seen[w] \subseteq seen'[w]
        /\ Current(w).id # NoId => Key(Current(w)) \in seen'[w]
    BY <1>t, <2>1 DEF Types
  <2>3. LifeOf(w)'
    BY <2>1, <2>2 DEF LifeInv, LifeOf
  <2>4. \A x \in Workers \ {w} : LifeOf(x)'
    BY <2>1, <1>t, StayLife DEF Types, place
  <2>. QED
    BY <2>3, <2>4 DEF LifeInv
<1>6. ASSUME NEW w \in Workers, Ack(w)
      PROVE  LifeInv'
  <2>1. PICK label \in {"idle", "check"} : pc' = [pc EXCEPT ![w] = label]
    BY <1>6 DEF Ack, Goto
  <2>2. /\ pc[w] = "ack" /\ UNCHANGED memory
        /\ \A x \in Workers \ {w} : held'[x] = held[x] /\ pos'[x] = pos[x]
    BY <1>t, <1>6 DEF Ack, Types
  <2>3. LifeOf(w)'
    BY <1>t, <2>1, <2>2, KeepLife DEF Types
  <2>4. \A x \in Workers \ {w} : LifeOf(x)'
    BY <2>1, <2>2, <1>t, StayLife DEF Types, memory
  <2>. QED
    BY <2>3, <2>4 DEF LifeInv
<1>7. ASSUME NEW w \in Workers, Raise(w)
      PROVE  LifeInv'
  <2>1. PICK label \in {"idle", "stopping"} : pc' = [pc EXCEPT ![w] = label]
    BY <1>7 DEF Raise, Goto
  <2>2. /\ pc[w] \in {"send", "count"} /\ UNCHANGED memory
        /\ held' = [held EXCEPT ![w] = NoBatch] /\ pos' = [pos EXCEPT ![w] = 0]
    BY <1>7 DEF Raise, Fails, Requeue, LeaveBatch
  <2>3. LifeOf(w)'
    BY <1>t, <2>1, <2>2, KeepLife DEF Types
  <2>4. \A x \in Workers \ {w} : LifeOf(x)'
    BY <2>1, <2>2, <1>t, StayLife DEF Types, memory
  <2>. QED
    BY <2>3, <2>4 DEF LifeInv
<1>8. ASSUME NEW w \in Workers, Publish(w) \/ Die(w)
      PROVE  LifeInv'
  BY <1>8, StayLife DEF Publish, Die, LifeInv, place, memory
<1>9. ASSUME NEW w \in Workers, CloseResources(w)
      PROVE  LifeInv'
  <2>1. pc[w] = "stopping" /\ pc' = [pc EXCEPT ![w] = "stopped"] /\ UNCHANGED <<place, memory>>
    BY <1>9 DEF CloseResources, Goto
  <2>2. LifeOf(w)'
    BY <1>t, <2>1, KeepLife DEF Types
  <2>3. \A x \in Workers \ {w} : LifeOf(x)'
    BY <2>1, <1>t, StayLife DEF Types, memory, place
  <2>. QED
    BY <2>2, <2>3 DEF LifeInv
<1>10. ASSUME NEW w \in Workers, Kill(w)
       PROVE  LifeInv'
  <2>1. /\ pc' = [pc EXCEPT ![w] = "stopped"] /\ UNCHANGED memory
        /\ held' = [held EXCEPT ![w] = NoBatch] /\ pos' = [pos EXCEPT ![w] = 0]
    BY <1>10 DEF Kill, Requeue, LeaveBatch, Goto
  <2>2. pc'[w] = "stopped"
    BY <1>t, <2>1 DEF Types
  <2>3. LifeOf(w)'
    BY <2>1, <2>2 DEF LifeInv, LifeOf, memory
  <2>4. \A x \in Workers \ {w} : LifeOf(x)'
    BY <2>1, <1>t, StayLife DEF Types, memory
  <2>. QED
    BY <2>3, <2>4 DEF LifeInv
<1>11. ASSUME NEW w \in Workers, Restart(w)
       PROVE  LifeInv'
  <2>1. /\ pc' = [pc EXCEPT ![w] = "idle"]
        /\ seen' = [seen EXCEPT ![w] = {}] /\ counted' = [counted EXCEPT ![w] = Nothing]
        /\ UNCHANGED place
    BY <1>11 DEF Restart, Goto
  <2>2. pc'[w] = "idle" /\ \A m \in Messages : counted'[w][m] = 0
    BY <1>t, <2>1 DEF Types, Nothing
  <2>3. LifeOf(w)'
    BY <2>2 DEF LifeOf
  <2>4. \A x \in Workers \ {w} : LifeOf(x)'
    BY <2>1, <1>t, StayLife DEF Types, place
  <2>. QED
    BY <2>3, <2>4 DEF LifeInv
<1>. QED
  BY <1>0, <1>1, <1>2, <1>3, <1>4, <1>5, <1>6, <1>7, <1>8, <1>9, <1>10, <1>11 DEF Next, Handle, Take

(* A process counts an identified message once in its life, whatever comes   *)
(* between: the same message in another batch, a batch that comes back after *)
(* an exception, a kill.                                                     *)
THEOREM OncePerLifeHolds == Spec => []OncePerLife
<1>1. PlaceInv /\ LifeInv => OncePerLife
  <2> SUFFICES ASSUME PlaceInv, LifeInv, NEW w \in Workers, NEW m \in Messages, m.id # NoId
               PROVE  counted[w][m] <= 1
    BY DEF OncePerLife
  <2>1. counted[w][m] = 0 \/ counted[w][m] = 1
    BY DEF LifeInv, LifeOf
  <2>. QED
    BY <2>1
<1>. QED
  BY <1>1, InitPlace, NextPlace, InitLife, NextLife, PTL DEF Spec

-----------------------------------------------------------------------------
(***************************************************************************)
(* The deduplicator tells messages apart by their keys: the hypothesis of  *)
(* what follows.  KeysTellApart says when the keys of the code do.         *)
(***************************************************************************)
KeysDistinct ==
    \A m, n \in Messages : m.id # NoId /\ n.id # NoId /\ Key(m) = Key(n) => m = n

(* Numbers below MESSAGE_TYPE_FACTOR, and uuids that no two messages share.  *)
LEMMA KeysTellApart ==
    ASSUME TypeFactor \in Nat,
           \A m \in Messages : m.type \in Nat /\ (m.id \in Nat => m.id < TypeFactor),
           \A m, n \in Messages : m.type = n.type /\ m.id = n.id => m = n,
           \A m, n \in Messages : m.id \notin Nat /\ m.id # NoId /\ m.id = n.id => m = n
    PROVE  KeysDistinct
<1> SUFFICES ASSUME NEW m \in Messages, NEW n \in Messages, m.id # NoId, n.id # NoId, Key(m) = Key(n)
             PROVE  m = n
  BY DEF KeysDistinct
<1>1. ASSUME NEW s \in Nat, NEW t \in Nat, NEW i \in Nat, NEW j \in Nat,
             i < TypeFactor, j < TypeFactor, s < t
      PROVE  s * TypeFactor + i < t * TypeFactor + j
  <2>1. PICK d \in Nat : t = s + 1 + d
    <3>1. t - s - 1 \in Nat /\ t = s + 1 + (t - s - 1)
      BY <1>1
    <3>. QED
      BY <3>1
  <2>2. t * TypeFactor = s * TypeFactor + TypeFactor + d * TypeFactor
    BY <2>1
  <2>3. d * TypeFactor \in Nat /\ s * TypeFactor \in Nat
    BY <2>1
  <2>. QED
    BY <1>1, <2>2, <2>3
<1>2. CASE m.id \in Nat /\ n.id \in Nat
  <2>1. m.type * TypeFactor + m.id = n.type * TypeFactor + n.id
    BY <1>2 DEF Key
  <2>2. m.type * TypeFactor + m.id \in Nat /\ n.type * TypeFactor + n.id \in Nat
    BY <1>2
  <2>3. ~(m.type < n.type) /\ ~(n.type < m.type)
    BY <1>1, <1>2, <2>1, <2>2
  <2>4. m.type = n.type
    BY <2>3
  <2>5. m.id = n.id
    BY <1>2, <2>1, <2>4
  <2>. QED
    BY <2>4, <2>5
<1>3. CASE m.id \in Nat /\ n.id \notin Nat
  <2>1. m.type * TypeFactor + m.id \in Nat
    BY <1>3
  <2>. QED
    BY <1>3, <2>1 DEF Key
<1>4. CASE m.id \notin Nat /\ n.id \in Nat
  <2>1. n.type * TypeFactor + n.id \in Nat
    BY <1>4
  <2>. QED
    BY <1>4, <2>1 DEF Key
<1>5. CASE m.id \notin Nat /\ n.id \notin Nat
  BY <1>5 DEF Key
<1>. QED
  BY <1>2, <1>3, <1>4, <1>5

(***************************************************************************)
(* G holds what the acknowledged batches, the batches at the processes up  *)
(* to the message each is on, and the marks of the processes stand for.    *)
(* done is where a handler is done with its message as far as G goes.      *)
(***************************************************************************)
CoveredAt(w, G, done) ==
    /\ pc[w] \in Handling =>
         \A j \in 1..Len(Body[held[w]]) :
             j < pos[w] \/ (j = pos[w] /\ pc[w] \in done) => Body[held[w]][j] \in G
    /\ \A m \in Messages : m.id # NoId /\ Key(m) \in seen[w] => m \in G

Covered(G, done) ==
    /\ \A b \in acked : \A j \in 1..Len(Body[b]) : Body[b][j] \in G
    /\ \A w \in Workers : CoveredAt(w, G, done)

LEMMA StayCovered ==
    ASSUME NEW G, NEW H, G \subseteq H, NEW done, NEW x \in Workers, CoveredAt(x, G, done),
           pc'[x] = pc[x], held'[x] = held[x], pos'[x] = pos[x], seen'[x] = seen[x]
    PROVE  CoveredAt(x, H, done)'
BY DEF CoveredAt

(***************************************************************************)
(* Whatever step is taken, nothing is skipped, if the handler that gets    *)
(* done with a message has put it in the set.                              *)
(***************************************************************************)
LEMMA StepCovered ==
    ASSUME PlaceInv, KeysDistinct, [Next]_vars,
           NEW done \in {{"mark", "ack"}, {"count", "mark", "ack"}},
           NEW G, NEW H, G \subseteq H, Covered(G, done),
           \A w \in Workers :
               pc[w] \in {"send", "count"} /\ pc[w] \notin done /\ pc'[w] \in done => Current(w) \in H
    PROVE  Covered(H, done)'
<1>t. Types
  BY DEF PlaceInv
<1>d. "mark" \in done /\ "ack" \in done /\ "check" \notin done /\ "send" \notin done
  OBVIOUS
<1>c. \A x \in Workers : CoveredAt(x, G, done)
  BY DEF Covered
<1>a. \A b \in acked : \A j \in 1..Len(Body[b]) : Body[b][j] \in H
  BY DEF Covered
<1>0. CASE UNCHANGED vars
  BY <1>0, <1>a, <1>c, StayCovered DEF vars, Covered
<1>1. ASSUME NEW w \in Workers, NEW b \in Batches, Deliver(w, b)
      PROVE  Covered(H, done)'
  <2>1. /\ pc[w] = "idle" /\ pc' = [pc EXCEPT ![w] = "check"]
        /\ held' = [held EXCEPT ![w] = b] /\ pos' = [pos EXCEPT ![w] = 1]
        /\ UNCHANGED <<acked, seen>>
    BY <1>1 DEF Deliver, Goto, memory
  <2>2. pc'[w] = "check" /\ pos'[w] = 1 /\ seen'[w] = seen[w]
    BY <1>t, <2>1 DEF Types
  <2>3. \A j \in 1..Len(Body[held'[w]]) : ~(j < pos'[w])
    BY <2>2
  <2>4. CoveredAt(w, H, done)'
    BY <1>c, <1>d, <2>2, <2>3 DEF CoveredAt
  <2>5. \A x \in Workers \ {w} : CoveredAt(x, H, done)'
    BY <1>t, <1>c, <2>1, StayCovered DEF Types
  <2>. QED
    BY <1>a, <2>1, <2>4, <2>5 DEF Covered
<1>2. ASSUME NEW w \in Workers, Check(w) \/ Send(w) \/ Count(w)
      PROVE  Covered(H, done)'
  <2>1. PICK label \in {"send", "ack", "count", "mark"} : pc' = [pc EXCEPT ![w] = label]
    BY <1>2 DEF Check, Send, Count, Goto
  <2>2. pc[w] \in Handling /\ pc'[w] \in Handling /\ UNCHANGED <<acked, held, pos, seen>>
    BY <1>2, <1>t, <2>1 DEF Check, Send, Count, Handling, Types, broker, place, memory
  <2>3. pc'[w] \in done => Body[held[w]][pos[w]] \in H
    <3>1. CASE Check(w)
      <4>1. pc[w] = "check" /\ pc' = [pc EXCEPT ![w] = IF ShouldProcess(w, Current(w))
                                                          THEN "send" ELSE "ack"]
        BY <3>1 DEF Check, Goto
      <4>2. Current(w) \in Messages
        BY <2>2, CurrentType
      <4>3. pc'[w] \in done => ~ShouldProcess(w, Current(w))
        BY <1>t, <1>d, <4>1 DEF Types
      <4>4. ~ShouldProcess(w, Current(w)) => Current(w) \in G
        BY <1>c, <4>2 DEF CoveredAt, ShouldProcess
      <4>. QED
        BY <4>3, <4>4 DEF Current
    <3>2. CASE Send(w) \/ Count(w)
      <4>1. pc[w] \in {"send", "count"}
        BY <3>2 DEF Send, Count
      <4>2. CASE pc[w] \in done
        <5>1. Body[held[w]][pos[w]] \in G
          BY <1>c, <2>2, <4>2, CurrentType DEF CoveredAt
        <5>. QED
          BY <5>1
      <4>3. CASE pc[w] \notin done
        BY <4>1, <4>3 DEF Current
      <4>. QED
        BY <4>2, <4>3
    <3>. QED
      BY <1>2, <3>1, <3>2
  <2>4. CoveredAt(w, H, done)'
    BY <1>c, <2>2, <2>3 DEF CoveredAt
  <2>5. \A x \in Workers \ {w} : CoveredAt(x, H, done)'
    BY <1>t, <1>c, <2>1, <2>2, StayCovered DEF Types
  <2>. QED
    BY <1>a, <2>2, <2>4, <2>5 DEF Covered
<1>3. ASSUME NEW w \in Workers, Mark(w)
      PROVE  Covered(H, done)'
  <2>1. /\ pc[w] = "mark" /\ pc' = [pc EXCEPT ![w] = "ack"] /\ UNCHANGED <<acked, held, pos>>
        /\ seen' = [seen EXCEPT ![w] = IF Current(w).id = NoId
                                         THEN @ ELSE @ \cup {Key(Current(w))}]
    BY <1>3 DEF Mark, Goto, broker, place
  <2>2. pc[w] \in Handling
    BY <2>1 DEF Handling
  <2>3. Current(w) \in Messages /\ Current(w) \in G
    BY <1>c, <1>d, <2>1, <2>2, CurrentType DEF CoveredAt, Current
  <2>4. \A m \in Messages : m.id # NoId /\ Key(m) \in seen'[w] => m \in H
    <3> SUFFICES ASSUME NEW m \in Messages, m.id # NoId, Key(m) \in seen'[w]
                 PROVE  m \in H
      OBVIOUS
    <3>1. Key(m) \in seen[w] \/ (Current(w).id # NoId /\ Key(m) = Key(Current(w)))
      BY <1>t, <2>1 DEF Types
    <3>. QED
      BY <1>c, <2>3, <3>1 DEF CoveredAt, KeysDistinct
  <2>5. CoveredAt(w, H, done)'
    BY <1>c, <1>d, <2>1, <2>2, <2>4 DEF CoveredAt
  <2>6. \A x \in Workers \ {w} : CoveredAt(x, H, done)'
    BY <1>t, <1>c, <2>1, StayCovered DEF Types
  <2>. QED
    BY <1>a, <2>1, <2>5, <2>6 DEF Covered
<1>4. ASSUME NEW w \in Workers, Ack(w)
      PROVE  Covered(H, done)'
  <2>1. pc[w] = "ack" /\ UNCHANGED seen
    BY <1>4 DEF Ack, memory
  <2>2. /\ pc[w] \in Handling /\ held[w] \in Batches /\ pos[w] \in 1..Len(Body[held[w]])
        /\ pending[w] = Len(Body[held[w]]) - pos[w] + 1 /\ held[w] # NoBatch
        /\ Len(Body[held[w]]) \in Nat
    <3>1. pc[w] \in Handling
      BY <2>1 DEF Handling
    <3>. QED
      BY <3>1, CurrentType, BodyType DEF PlaceInv, OnePlace
  <2>3. \A j \in 1..Len(Body[held[w]]) : j <= pos[w] => Body[held[w]][j] \in H
    <3> SUFFICES ASSUME NEW j \in 1..Len(Body[held[w]]), j <= pos[w]
                 PROVE  Body[held[w]][j] \in H
      OBVIOUS
    <3>1. j < pos[w] \/ j = pos[w]
      BY <2>2
    <3>. QED
      BY <1>c, <1>d, <2>1, <2>2, <3>1 DEF CoveredAt
  <2>4. CASE pending[w] = 1
    <3>1. /\ acked' = acked \cup {held[w]} /\ held' = [held EXCEPT ![w] = NoBatch]
          /\ pos' = [pos EXCEPT ![w] = 0] /\ pc' = [pc EXCEPT ![w] = "idle"]
      BY <1>4, <2>4 DEF Ack, Goto
    <3>2. \A j \in 1..Len(Body[held[w]]) : Body[held[w]][j] \in H
      <4>1. pos[w] = Len(Body[held[w]])
        BY <2>2, <2>4
      <4>. QED
        BY <2>2, <2>3, <4>1
    <3>3. pc'[w] \notin Handling
      BY <1>t, <3>1 DEF Types, Handling
    <3>4. CoveredAt(w, H, done)'
      BY <1>c, <2>1, <3>3 DEF CoveredAt
    <3>5. \A x \in Workers \ {w} : CoveredAt(x, H, done)'
      BY <1>t, <1>c, <2>1, <3>1, StayCovered DEF Types
    <3>. QED
      BY <1>a, <3>1, <3>2, <3>4, <3>5 DEF Covered
  <2>5. CASE pending[w] # 1
    <3>1. /\ acked' = acked /\ held' = held
          /\ pos' = [pos EXCEPT ![w] = @ + 1] /\ pc' = [pc EXCEPT ![w] = "check"]
      BY <1>4, <2>5 DEF Ack, Goto
    <3>2. pc'[w] = "check" /\ held'[w] = held[w] /\ pos'[w] = pos[w] + 1
      BY <1>t, <3>1 DEF Types
    <3>3. \A j \in 1..Len(Body[held[w]]) : j < pos[w] + 1 => j <= pos[w]
      BY <2>2
    <3>4. CoveredAt(w, H, done)'
      BY <1>c, <1>d, <2>1, <2>3, <3>2, <3>3 DEF CoveredAt
    <3>5. \A x \in Workers \ {w} : CoveredAt(x, H, done)'
      BY <1>t, <1>c, <2>1, <3>1, StayCovered DEF Types
    <3>. QED
      BY <1>a, <3>1, <3>4, <3>5 DEF Covered
  <2>. QED
    BY <2>4, <2>5
<1>5. ASSUME NEW w \in Workers, Raise(w) \/ Kill(w)
      PROVE  Covered(H, done)'
  <2>1. PICK label \in {"idle", "stopping", "stopped"} : pc' = [pc EXCEPT ![w] = label]
    BY <1>5 DEF Raise, Kill, Goto
  <2>2. /\ UNCHANGED <<acked, seen>>
        /\ held' = [held EXCEPT ![w] = NoBatch] /\ pos' = [pos EXCEPT ![w] = 0]
    BY <1>5 DEF Raise, Kill, Requeue, LeaveBatch, memory
  <2>3. pc'[w] \notin Handling
    BY <1>t, <2>1 DEF Types, Handling
  <2>4. CoveredAt(w, H, done)'
    BY <1>c, <2>2, <2>3 DEF CoveredAt
  <2>5. \A x \in Workers \ {w} : CoveredAt(x, H, done)'
    BY <1>t, <1>c, <2>1, <2>2, StayCovered DEF Types
  <2>. QED
    BY <1>a, <2>2, <2>4, <2>5 DEF Covered
<1>6. ASSUME NEW w \in Workers, Publish(w) \/ Die(w)
      PROVE  Covered(H, done)'
  BY <1>6, <1>a, <1>c, StayCovered DEF Publish, Die, Covered, broker, place, memory
<1>7. ASSUME NEW w \in Workers, CloseResources(w)
      PROVE  Covered(H, done)'
  <2>1. /\ pc' = [pc EXCEPT ![w] = "stopped"]
        /\ UNCHANGED <<acked, held, pos, seen>>
    BY <1>7 DEF CloseResources, Goto, broker, place, memory
  <2>2. pc'[w] \notin Handling
    BY <1>t, <2>1 DEF Types, Handling
  <2>3. CoveredAt(w, H, done)'
    BY <1>c, <2>1, <2>2 DEF CoveredAt
  <2>4. \A x \in Workers \ {w} : CoveredAt(x, H, done)'
    BY <1>t, <1>c, <2>1, StayCovered DEF Types
  <2>. QED
    BY <1>a, <2>1, <2>3, <2>4 DEF Covered
<1>8. ASSUME NEW w \in Workers, Restart(w)
      PROVE  Covered(H, done)'
  <2>1. /\ pc' = [pc EXCEPT ![w] = "idle"] /\ seen' = [seen EXCEPT ![w] = {}]
        /\ UNCHANGED <<acked, held, pos>>
    BY <1>8 DEF Restart, Goto, broker, place
  <2>2. pc'[w] \notin Handling /\ seen'[w] = {}
    BY <1>t, <2>1 DEF Types, Handling
  <2>3. CoveredAt(w, H, done)'
    BY <2>2 DEF CoveredAt
  <2>4. \A x \in Workers \ {w} : CoveredAt(x, H, done)'
    BY <1>t, <1>c, <2>1, StayCovered DEF Types
  <2>. QED
    BY <1>a, <2>1, <2>3, <2>4 DEF Covered
<1>. QED
  BY <1>0, <1>1, <1>2, <1>3, <1>4, <1>5, <1>6, <1>7, <1>8 DEF Next, Handle, Take

-----------------------------------------------------------------------------
(* No process has lost its memory.                                           *)
Quiet == ~ended

CountedMessages == {m \in Messages : \E w \in Workers : counted[w][m] > 0}

CountedInv ==
    Quiet => /\ \A w \in Workers : pc[w] \notin {"stopping", "stopped"}
             /\ Covered(CountedMessages, {"mark", "ack"})

LEMMA InitCounted == Init => CountedInv
<1> SUFFICES ASSUME Init
             PROVE  CountedInv
  OBVIOUS
<1>1. acked = {} /\ \A w \in Workers : pc[w] = "idle" /\ seen[w] = {}
  BY DEF Init
<1>2. "idle" \notin Handling
  BY DEF Handling
<1>. QED
  BY <1>1, <1>2 DEF CountedInv, Covered, CoveredAt

LEMMA NextCounted ==
    ASSUME KeysDistinct, PlaceInv, CountedInv, [Next]_vars
    PROVE  CountedInv'
<1> SUFFICES ASSUME Quiet'
             PROVE  /\ \A w \in Workers : pc'[w] \notin {"stopping", "stopped"}
                    /\ Covered(CountedMessages, {"mark", "ack"})'
  BY DEF CountedInv
<1>t. Types
  BY DEF PlaceInv
<1>1. Quiet
  <2>1. ASSUME ended PROVE ended'
    BY <1>t, <2>1 DEF Next, Handle, Take, Deliver, Check, Send, Count, Mark, Ack, Raise, Publish,
       Die, CloseResources, Kill, Restart, vars, Types
  <2>. QED
    BY <2>1 DEF Quiet
<1>2. /\ \A w \in Workers : pc[w] \notin {"stopping", "stopped"}
      /\ Covered(CountedMessages, {"mark", "ack"})
  BY <1>1 DEF CountedInv
<1>3. \A w \in Workers : ~CloseResources(w) /\ ~Restart(w)
  BY <1>2 DEF CloseResources, Restart
<1>4. \A w \in Workers : ~Kill(w)
  BY DEF Kill, Quiet
<1>5. \A w \in Workers : Raise(w) => pc' = [pc EXCEPT ![w] = "idle"]
  BY DEF Raise, Goto, Quiet
<1>6. \A w \in Workers : pc'[w] \notin {"stopping", "stopped"}
  <2>1. CASE UNCHANGED vars
    BY <1>2, <2>1 DEF vars
  <2>2. ASSUME NEW v \in Workers, Handle(v) \/ Publish(v) \/ Die(v)
        PROVE  \A w \in Workers : pc'[w] \notin {"stopping", "stopped"}
    <3>1. pc' = pc \/ \E label \in Handling \cup {"idle"} : pc' = [pc EXCEPT ![v] = label]
      BY <2>2, <1>5 DEF Handle, Take, Deliver, Check, Send, Count, Mark, Ack, Publish, Die, Goto,
         Handling
    <3>2. "stopping" \notin Handling \cup {"idle"} /\ "stopped" \notin Handling \cup {"idle"}
      BY DEF Handling
    <3>. QED
      BY <1>t, <1>2, <3>1, <3>2 DEF Types
  <2>. QED
    BY <1>3, <1>4, <2>1, <2>2 DEF Next
<1>7. ASSUME NEW w \in Workers, Count(w)
      PROVE  /\ Current(w) \in CountedMessages'
             /\ \A v \in Workers : \A m \in Messages : counted'[v][m] >= counted[v][m]
  <2>1. pc[w] = "count" /\ counted' = [counted EXCEPT ![w][Current(w)] = @ + 1]
    BY <1>7 DEF Count
  <2>2. Current(w) \in Messages
    BY <2>1, CurrentType DEF Handling
  <2>3. counted[w][Current(w)] \in Nat /\ counted'[w][Current(w)] = counted[w][Current(w)] + 1
    BY <1>t, <2>1, <2>2 DEF Types
  <2>4. \A v \in Workers : \A m \in Messages : counted[v][m] \in Nat
    BY <1>t DEF Types
  <2>5. \A v \in Workers : \A m \in Messages :
          (v # w \/ m # Current(w)) => counted'[v][m] = counted[v][m]
    BY <1>t, <2>1 DEF Types
  <2>6. counted'[w][Current(w)] > 0
    BY <2>3
  <2>. QED
    BY <2>2, <2>3, <2>4, <2>5, <2>6 DEF CountedMessages
<1>8. (\A w \in Workers : ~Count(w)) => counted' = counted
  BY <1>3 DEF Next, Handle, Take, Deliver, Check, Send, Mark, Ack, Raise, Publish, Die, Kill, vars,
     memory
<1>9. CountedMessages \subseteq CountedMessages'
  <2>1. CASE counted' = counted
    BY <2>1 DEF CountedMessages
  <2>2. CASE \E w \in Workers : Count(w)
    <3>1. \A v \in Workers : \A m \in Messages :
            counted'[v][m] >= counted[v][m] /\ counted[v][m] \in Nat /\ counted'[v][m] \in Nat
      BY <1>7, <2>2, NextPlace, <1>t DEF PlaceInv, Types
    <3>. QED
      BY <3>1 DEF CountedMessages
  <2>. QED
    BY <1>8, <2>1, <2>2
<1>10. \A w \in Workers :
         pc[w] \in {"send", "count"} /\ pc[w] \notin {"mark", "ack"} /\ pc'[w] \in {"mark", "ack"}
           => Current(w) \in CountedMessages'
  <2> SUFFICES ASSUME NEW w \in Workers, pc[w] \in {"send", "count"}, pc'[w] \in {"mark", "ack"}
               PROVE  Current(w) \in CountedMessages'
    OBVIOUS
  <2>1. PICK v \in Workers : Handle(v) \/ Publish(v) \/ Die(v)
    BY <1>3, <1>4 DEF Next, vars
  <2>2. v = w
    BY <1>t, <2>1 DEF Types, Handle, Take, Deliver, Check, Send, Count, Mark, Ack, Raise, Publish,
       Die, Goto
  <2>3. Count(w)
    <3>1. ~Send(w) /\ ~Raise(w) /\ ~Publish(w) /\ ~Die(w)
      BY <1>t, <1>5 DEF Types, Send, Publish, Die, Goto
    <3>2. ~Check(w) /\ ~Mark(w) /\ ~Ack(w) /\ \A b \in Batches : ~Deliver(w, b)
      BY DEF Check, Mark, Ack, Deliver
    <3>. QED
      BY <2>1, <2>2, <3>1, <3>2 DEF Handle, Take
  <2>. QED
    BY <1>7, <2>3
<1>11. Covered(CountedMessages, {"mark", "ack"})'
  BY <1>2, <1>9, <1>10, StepCovered DEF Covered, CoveredAt
<1>. QED
  BY <1>6, <1>11

(***************************************************************************)
(* As long as no process has lost its memory, acknowledging message by     *)
(* message, whole batches coming back after an exception and the           *)
(* deduplication together skip no message of an acknowledged batch: each   *)
(* is in the counts the consensus will report.                             *)
(***************************************************************************)
THEOREM AckedIsCountedHolds == KeysDistinct /\ Spec => []AckedIsCounted
<1>1. PlaceInv /\ CountedInv => AckedIsCounted
  <2> SUFFICES ASSUME CountedInv, Quiet, NEW b \in acked, NEW m \in InBatch(b)
               PROVE  \E w \in Workers : counted[w][m] > 0
    BY DEF AckedIsCounted, Quiet
  <2>1. m \in CountedMessages
    BY DEF CountedInv, Covered, InBatch, Outputs
  <2>. QED
    BY <2>1 DEF CountedMessages
<1>2. KeysDistinct /\ PlaceInv /\ CountedInv /\ [Next]_vars => KeysDistinct' /\ CountedInv'
  BY NextCounted DEF KeysDistinct, Key
<1>. QED
  BY <1>1, <1>2, InitPlace, NextPlace, InitCounted, PTL DEF Spec

-----------------------------------------------------------------------------
OutputMessages == published \cup lost \cup UNION {Outputs(outbox[w]) : w \in Workers}

OutputInv == Covered(OutputMessages, {"count", "mark", "ack"})

(* Publishing splits an outbox in two and loses nothing of it.               *)
LEMMA OutputsSplit ==
    ASSUME NEW s \in Seq(Messages), NEW n \in 1..Len(s)
    PROVE  Outputs(s) = Outputs(SubSeq(s, 1, n)) \cup Outputs(SubSeq(s, n + 1, Len(s)))
<1> DEFINE a == SubSeq(s, 1, n)
           b == SubSeq(s, n + 1, Len(s))
<1>0. Len(s) \in Nat
  BY LenProperties
<1>1. Len(a) = n /\ \A i \in 1..n : a[i] = s[i]
  BY <1>0, SubSeqProperties
<1>2. Len(b) = Len(s) - n /\ \A i \in 1..Len(s) - n : b[i] = s[n + i]
  <2>1. CASE n < Len(s)
    <3>1. Len(b) = Len(s) - (n + 1) + 1 /\ \A i \in 1..(Len(s) - (n + 1) + 1) : b[i] = s[(n + 1) + i - 1]
      BY <1>0, <2>1, SubSeqProperties
    <3>2. Len(s) - (n + 1) + 1 = Len(s) - n /\ \A i \in 1..Len(s) - n : (n + 1) + i - 1 = n + i
      BY <1>0
    <3>. QED
      BY <3>1, <3>2
  <2>2. CASE n = Len(s)
    BY <1>0, <2>2, SubSeqProperties
  <2>. QED
    BY <1>0, <2>1, <2>2
<1>. HIDE DEF a, b
<1>3. \A i \in 1..Len(s) : s[i] \in Outputs(a) \cup Outputs(b)
  <2> SUFFICES ASSUME NEW i \in 1..Len(s)
               PROVE  s[i] \in Outputs(a) \cup Outputs(b)
    OBVIOUS
  <2>1. CASE i <= n
    BY <1>0, <1>1, <2>1 DEF Outputs
  <2>2. CASE i > n
    <3>1. i - n \in 1..Len(s) - n /\ n + (i - n) = i
      BY <1>0, <2>2
    <3>. QED
      BY <1>2, <3>1 DEF Outputs
  <2>. QED
    BY <1>0, <2>1, <2>2
<1>4. Outputs(a) \subseteq Outputs(s)
  BY <1>0, <1>1 DEF Outputs
<1>5. Outputs(b) \subseteq Outputs(s)
  <2>1. \A i \in 1..Len(s) - n : n + i \in 1..Len(s)
    BY <1>0
  <2>. QED
    BY <1>2, <2>1 DEF Outputs
<1>. QED
  BY <1>3, <1>4, <1>5 DEF Outputs, a, b

LEMMA OutputsGrow ==
    ASSUME PlaceInv, [Next]_vars
    PROVE  OutputMessages \subseteq OutputMessages'
<1>t. Types
  BY DEF PlaceInv
<1>1. ASSUME UNCHANGED <<outbox, published, lost>>
      PROVE  OutputMessages \subseteq OutputMessages'
  BY <1>1 DEF OutputMessages
<1>2. ASSUME NEW w \in Workers, Send(w)
      PROVE  OutputMessages \subseteq OutputMessages'
  <2>1. /\ published' = published /\ lost' = lost
        /\ outbox' = [outbox EXCEPT ![w] = Append(@, Current(w))]
    BY <1>2 DEF Send
  <2>2. Outputs(outbox[w]) \subseteq Outputs(outbox'[w])
    <3>1. outbox[w] \in Seq(Messages) /\ Len(outbox[w]) \in Nat
      BY <1>t, LenProperties DEF Types
    <3>2. Current(w) \in Messages
      BY <1>2, CurrentType DEF Send, Handling
    <3>3. /\ Len(Append(outbox[w], Current(w))) = Len(outbox[w]) + 1
          /\ \A i \in 1..Len(outbox[w]) : Append(outbox[w], Current(w))[i] = outbox[w][i]
      BY <3>1, <3>2, AppendProperties
    <3>4. outbox'[w] = Append(outbox[w], Current(w))
      BY <1>t, <2>1 DEF Types
    <3>5. \A i \in 1..Len(outbox[w]) : i \in 1..Len(outbox[w]) + 1
      BY <3>1
    <3>. QED
      BY <3>3, <3>4, <3>5 DEF Outputs
  <2>3. \A x \in Workers \ {w} : outbox'[x] = outbox[x]
    BY <1>t, <2>1 DEF Types
  <2>. QED
    BY <2>1, <2>2, <2>3 DEF OutputMessages
<1>3. ASSUME NEW w \in Workers, Publish(w) \/ CloseResources(w) \/ Die(w) \/ Kill(w)
      PROVE  OutputMessages \subseteq OutputMessages'
  <2>1. /\ published \subseteq published' /\ lost \subseteq lost'
        /\ Outputs(outbox[w]) \subseteq published' \cup lost' \cup Outputs(outbox'[w])
        /\ \A x \in Workers \ {w} : outbox'[x] = outbox[x]
    <3>1. CASE Publish(w)
      <4>1. PICK n \in 1..Len(outbox[w]) :
              /\ published' = published \cup Outputs(SubSeq(outbox[w], 1, n))
              /\ outbox' = [outbox EXCEPT ![w] = SubSeq(@, n + 1, Len(@))]
              /\ lost' = lost
        BY <3>1 DEF Publish
      <4>2. /\ outbox'[w] = SubSeq(outbox[w], n + 1, Len(outbox[w]))
            /\ \A x \in Workers \ {w} : outbox'[x] = outbox[x]
            /\ outbox[w] \in Seq(Messages)
        BY <1>t, <4>1 DEF Types
      <4>. QED
        BY <4>1, <4>2, OutputsSplit
    <3>2. CASE CloseResources(w)
      BY <1>t, <3>2 DEF CloseResources, Types
    <3>3. CASE Die(w) \/ Kill(w)
      BY <1>t, <3>3 DEF Die, Kill, Drop, Types
    <3>. QED
      BY <1>3, <3>1, <3>2, <3>3
  <2>. QED
    BY <2>1 DEF OutputMessages
<1>5. CASE UNCHANGED vars
  BY <1>1, <1>5 DEF vars
<1>6. ASSUME NEW w \in Workers,
             (\E b \in Batches : Deliver(w, b)) \/ Check(w) \/ Count(w) \/ Mark(w) \/ Ack(w)
               \/ Raise(w) \/ Restart(w)
      PROVE  OutputMessages \subseteq OutputMessages'
  BY <1>1, <1>6 DEF Deliver, Check, Count, Mark, Ack, Raise, Restart, output
<1>. QED
  BY <1>2, <1>3, <1>5, <1>6 DEF Next, Handle, Take

LEMMA InitOutput == Init => OutputInv
<1> SUFFICES ASSUME Init
             PROVE  OutputInv
  OBVIOUS
<1>1. acked = {} /\ \A w \in Workers : pc[w] = "idle" /\ seen[w] = {}
  BY DEF Init
<1>2. "idle" \notin Handling
  BY DEF Handling
<1>. QED
  BY <1>1, <1>2 DEF OutputInv, Covered, CoveredAt

LEMMA NextOutput ==
    ASSUME KeysDistinct, PlaceInv, OutputInv, [Next]_vars
    PROVE  OutputInv'
<1>t. Types
  BY DEF PlaceInv
<1>2. Covered(OutputMessages, {"count", "mark", "ack"})
  BY DEF OutputInv
<1>3. OutputMessages \subseteq OutputMessages'
  BY OutputsGrow
<1>4. \A w \in Workers :
        pc[w] \in {"send", "count"} /\ pc[w] \notin {"count", "mark", "ack"}
          /\ pc'[w] \in {"count", "mark", "ack"} => Current(w) \in OutputMessages'
  <2> SUFFICES ASSUME NEW w \in Workers, pc[w] = "send", pc'[w] \in {"count", "mark", "ack"}
               PROVE  Current(w) \in OutputMessages'
    OBVIOUS
  <2>1. PICK v \in Workers : \/ Handle(v) \/ Publish(v) \/ Die(v)
                            \/ CloseResources(v) \/ Kill(v) \/ Restart(v)
    BY DEF Next, vars
  <2>2. v = w
    BY <1>t, <2>1 DEF Types, Handle, Take, Deliver, Check, Send, Count, Mark, Ack, Raise, Publish, Die,
       CloseResources, Kill, Restart, Goto
  <2>3. Send(w)
    <3>1. ~Raise(w) /\ ~Publish(w) /\ ~Die(w) /\ ~Kill(w)
      <4>1. ~Publish(w) /\ ~Die(w)
        BY DEF Publish, Die
      <4>2. ASSUME Raise(w) \/ Kill(w) PROVE FALSE
        <5>1. PICK label \in {"idle", "stopping", "stopped"} : pc' = [pc EXCEPT ![w] = label]
          BY <4>2 DEF Raise, Kill, Goto
        <5>. QED
          BY <1>t, <5>1 DEF Types
      <4>. QED
        BY <4>1, <4>2
    <3>2. /\ ~Check(w) /\ ~Count(w) /\ ~Mark(w) /\ ~Ack(w) /\ ~CloseResources(w) /\ ~Restart(w)
          /\ ~Take(w)
      BY DEF Check, Count, Mark, Ack, Take, Deliver, CloseResources, Restart
    <3>. QED
      BY <2>1, <2>2, <3>1, <3>2 DEF Handle
  <2>4. outbox' = [outbox EXCEPT ![w] = Append(@, Current(w))]
    BY <2>3 DEF Send
  <2>5. outbox[w] \in Seq(Messages) /\ Len(outbox[w]) \in Nat /\ Current(w) \in Messages
    BY <1>t, LenProperties, CurrentType DEF Types, Handling
  <2>6. outbox'[w] = Append(outbox[w], Current(w))
    BY <1>t, <2>4 DEF Types
  <2>7. /\ Len(outbox'[w]) = Len(outbox[w]) + 1
        /\ outbox'[w][Len(outbox[w]) + 1] = Current(w)
    BY <2>5, <2>6, AppendProperties
  <2>8. Current(w) \in Outputs(outbox'[w])
    <3>1. Len(outbox[w]) + 1 \in 1..Len(outbox'[w])
      BY <2>5, <2>7
    <3>. QED
      BY <2>7, <3>1 DEF Outputs
  <2>. QED
    BY <2>8 DEF OutputMessages
<1>. QED
  BY <1>2, <1>3, <1>4, StepCovered DEF OutputInv

(***************************************************************************)
(* Wherever publishers die and processes are killed, an output of an       *)
(* acknowledged batch that is neither published nor in an outbox is one of *)
(* those that were in the queue of such a publisher or process: an         *)
(* exception, a batch that comes back, a message repeated in another batch *)
(* and a process that stops on an error lose none.                         *)
(***************************************************************************)
THEOREM OutputsKeptHolds == KeysDistinct /\ Spec => []OutputsKept
<1>1. PlaceInv /\ OutputInv => OutputsKept
  <2> SUFFICES ASSUME OutputInv, NEW b \in acked, NEW m \in InBatch(b)
               PROVE  m \in OutputMessages
    BY DEF OutputsKept, OutputMessages
  <2>. QED
    BY DEF OutputInv, Covered, InBatch, Outputs
<1>2. KeysDistinct /\ PlaceInv /\ OutputInv /\ [Next]_vars => KeysDistinct' /\ OutputInv'
  BY NextOutput DEF KeysDistinct, Key
<1>. QED
  BY <1>1, <1>2, InitPlace, NextPlace, InitOutput, PTL DEF Spec
=============================================================================
