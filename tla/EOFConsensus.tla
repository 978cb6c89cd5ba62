---------------------------- MODULE EOFConsensus ----------------------------
(***************************************************************************)
(* The end-of-stream consensus of one stage for one client: the            *)
(* EOFController of each of the N workers, its leader (id 0), the input    *)
(* consumer threads that feed it and the control consumer thread that      *)
(* exchanges messages with its peers.  The controller keeps everything in  *)
(* dictionaries keyed by client, each entry independent of the others, so  *)
(* one client is modelled.                                                 *)
(*                                                                         *)
(* The workers of a stage compete for the packets of shared queues; the    *)
(* previous stage sends its EOF, with the number of packets it sent, on a  *)
(* connection of its own, so it may overtake them.  The leader collects    *)
(* the counters of all the workers and compares their sum with the totals  *)
(* of the EOFs: equal, the stage is drained and every worker runs its      *)
(* post-process callback; different, the leader tells everyone, waits and  *)
(* asks again.                                                             *)
(***************************************************************************)
EXTENDS Integers, Sequences, FiniteSets, Tally

CONSTANTS
  N,                \* amount_workers
  Fluxes,           \* the prefixes of the input fluxes, one EOF expected of each
  Aux,              \* the auxiliary flux, whose packets go to every worker
  EofToAll,         \* fluxes that send one copy of their EOF to every worker
  Total,            \* Total[f]: packets the previous stage sent on flux f
  PacketOutputs,    \* how many packets an input packet may give downstream
  CallbackOutputs,  \* how many packets a post-process callback may send
  MaxRedeliveries   \* bound on batches of control messages delivered again

Workers == 0 .. N - 1
Leader  == 0
Control == "control"            \* the thread that consumes control messages
Threads == Fluxes \cup {Control}

ASSUME ConsensusAssumption ==
  /\ N \in Nat \ {0}
  /\ IsFiniteSet(Fluxes) /\ Control \notin Fluxes
  /\ Cardinality(Fluxes) \in {1, 2}        \* a REQUEST has room for two
  /\ \E f \in Fluxes : Aux \subseteq {f}
  /\ EofToAll \subseteq Fluxes
  /\ Total \in [Fluxes -> Nat]
  /\ PacketOutputs \subseteq Nat
  /\ CallbackOutputs \subseteq Nat
  /\ MaxRedeliveries \in Nat

\* EOFStates
INACTIVE        == -1
ACTIVE          == 0
PENDING_EOF     == 1
REQUEST_SENT    == 2
RESPONSE_SENT   == 3
ACHIEVED        == 4
FINISH_ENABLED  == 5
EOFStates       == INACTIVE .. FINISH_ENABLED

\* A counter of a dictionary: Absent when the dictionary has no such key.
Absent == -1
Count  == Nat \cup {Absent}
NoCounts == [f \in Fluxes |-> Absent]

VARIABLES
  data,      \* data[q]: packets waiting in the input queue q
  eofQueue,  \* the input queues that still hold an EOF
  pc,        \* pc[w][t]: where thread t of worker w is
  state,     \* state[w]: client_eof_state
  handling,  \* handling[w]: flux of the EOF_MESSAGE the control thread handles
  eofs,      \* eofs[w]: eofs_received, the fluxes whose EOF is known
  totals,    \* totals[w][f]: total_packets_received
  processed, \* processed[w][f]: packets_processed
  sent,      \* sent[w]: packets_partial_sent
  partials,  \* partials[w][f]: the leader's consensus_partial_count
  post,      \* the leader's postprocess_received
  totalSent, \* totalSent[w]: the leader's total_packets_sent
  fanout,    \* fanout[v][w]: control messages of v's fanout producer to w
  toLeader,  \* toLeader[v]: control messages of v's producer to the leader
  redelivered, \* batches of control messages delivered again so far
  emitted,   \* history: emitted[w], packets w really sent downstream
  ran,       \* history: ran[w], times w ran its post-process callback
  out        \* history: totals of the EOFs sent to the next stage

inputVars   == <<data, eofQueue>>
countVars   == <<eofs, totals, processed>>
leaderVars  == <<partials, post, totalSent>>
netVars     == <<fanout, toLeader, redelivered>>
sendVars    == <<sent, emitted, ran, out>>
vars == <<inputVars, pc, handling, state, countVars, leaderVars, netVars, sendVars>>

-----------------------------------------------------------------------------
(***************************************************************************)
(* The input queues.  A queue is a flux and the workers that consume it:   *)
(* all of them compete for the packets of an ordinary flux; each has a     *)
(* queue of its own for an auxiliary flux, or for a flux whose EOF is sent *)
(* to everyone.                                                            *)
(***************************************************************************)
DataQueue(w, f) == <<f, IF f \in Aux THEN {w} ELSE Workers>>
EofQueue(w, f)  == <<f, IF f \in EofToAll THEN {w} ELSE Workers>>

DataQueues == {DataQueue(w, f) : w \in Workers, f \in Fluxes}
EofQueues  == {EofQueue(w, f) : w \in Workers, f \in Fluxes}

Message ==
  [type : {"EOF_MESSAGE"}, flux : Fluxes]
    \cup [type : {"REQUEST"}, awaited : SUBSET Fluxes]
    \cup [type : {"OK", "FAIL"}]

LeaderMessage ==
  [type : {"RESPONSE"}, counts : [Fluxes -> Count]]
    \cup [type : {"POST_OK"}, sent : Nat]

PC == {"idle", "packet", "prefix", "counter", "total", "broadcast", "check",
       "start", "mark"}

TypeOK ==
  /\ data \in [DataQueues -> Nat]
  /\ eofQueue \subseteq EofQueues
  /\ pc \in [Workers -> [Threads -> PC]]
  /\ state \in [Workers -> EOFStates]
  /\ handling \in [Workers -> Fluxes \cup {Control}]
  /\ eofs \in [Workers -> SUBSET Fluxes]
  /\ totals \in [Workers -> [Fluxes -> Count]]
  /\ processed \in [Workers -> [Fluxes -> Count]]
  /\ sent \in [Workers -> Nat]
  /\ partials \in [Workers -> [Fluxes -> Count]]
  /\ post \subseteq Workers
  /\ totalSent \in [Workers -> Nat]
  /\ fanout \in [Workers -> [Workers -> Seq(Message)]]
  /\ toLeader \in [Workers -> Seq(LeaderMessage)]
  /\ redelivered \in 0 .. MaxRedeliveries
  /\ emitted \in [Workers -> Nat]
  /\ ran \in [Workers -> Nat]
  /\ out \in Seq(Nat)

Init ==
  /\ data = [q \in DataQueues |-> Total[q[1]]]
  /\ eofQueue = EofQueues
  /\ pc = [w \in Workers |-> [t \in Threads |-> "idle"]]
  /\ state = [w \in Workers |-> INACTIVE]
  /\ handling = [w \in Workers |-> Control]
  /\ eofs = [w \in Workers |-> {}]
  /\ totals = [w \in Workers |-> NoCounts]
  /\ processed = [w \in Workers |-> NoCounts]
  /\ sent = [w \in Workers |-> 0]
  /\ partials = [w \in Workers |-> NoCounts]
  /\ post = {}
  /\ totalSent = [w \in Workers |-> 0]
  /\ fanout = [v \in Workers |-> [w \in Workers |-> <<>>]]
  /\ toLeader = [v \in Workers |-> <<>>]
  /\ redelivered = 0
  /\ emitted = [w \in Workers |-> 0]
  /\ ran = [w \in Workers |-> 0]
  /\ out = <<>>

-----------------------------------------------------------------------------
(***************************************************************************)
(* ClientEOFState: a state only grows, except that a failed consensus      *)
(* takes it back from RESPONSE_SENT to PENDING_EOF.                        *)
(***************************************************************************)
ConsensusFailed(s, new) == s = RESPONSE_SENT /\ new = PENDING_EOF

Advance(s, new) == IF ConsensusFailed(s, new) \/ s < new THEN new ELSE s

ValidTransition(s, new) ==
  \/ ConsensusFailed(s, new)
  \/ new - s = 1
  \/ s \in {INACTIVE, ACTIVE} /\ new = PENDING_EOF

CanReceiveInputEof(s) == s < ACHIEVED

\* dict.setdefault(f, 0) for the keys of fs, += 1, and dict update.
WithKeys(c, fs) == [f \in Fluxes |-> IF f \in fs /\ c[f] = Absent THEN 0 ELSE c[f]]
PlusOne(c)      == IF c = Absent THEN 1 ELSE c + 1
Overwrite(c, d) == [f \in Fluxes |-> IF d[f] # Absent THEN d[f] ELSE c[f]]

\* A message of v's fanout producer reaches every other worker.
Fanout(v, m) ==
  [fanout EXCEPT ![v] =
     [w \in Workers |-> IF w = v THEN @[w] ELSE Append(@[w], m)]]

-----------------------------------------------------------------------------
(***************************************************************************)
(* Input threads: packets.  The packets a packet gives are sent, and       *)
(* counted as sent, before the packet itself is counted as processed.      *)
(***************************************************************************)
ReceivePacket(w, f) ==
  /\ pc[w][f] = "idle"
  /\ data[DataQueue(w, f)] > 0
  /\ data' = [data EXCEPT ![DataQueue(w, f)] = @ - 1]
  /\ \E k \in PacketOutputs :
       /\ emitted' = [emitted EXCEPT ![w] = @ + k]
       /\ sent' = [sent EXCEPT ![w] = @ + k]
  /\ pc' = [pc EXCEPT ![w][f] = "packet"]
  /\ UNCHANGED <<eofQueue, handling, state, countVars, leaderVars, netVars, ran, out>>

CountPacket(w, f) ==
  /\ pc[w][f] = "packet"
  /\ processed' = [processed EXCEPT ![w][f] = PlusOne(@)]
  /\ pc' = [pc EXCEPT ![w][f] = "idle"]
  /\ UNCHANGED <<inputVars, handling, state, eofs, totals, leaderVars, netVars, sendVars>>

(***************************************************************************)
(* EOFs from the input queues: on_input_queue_eof_reception admits the EOF *)
(* or discards it.  An EOF may be taken before packets of its flux, which  *)
(* other workers of the previous stage sent through other connections; an  *)
(* auxiliary flux has one producer for both, and they keep their order.    *)
(***************************************************************************)
TakeEof(w, f) ==
  /\ pc[w][f] = "idle"
  /\ EofQueue(w, f) \in eofQueue
  /\ f \in Aux => data[DataQueue(w, f)] = 0
  /\ eofQueue' = eofQueue \ {EofQueue(w, f)}

AdmitEof(w, f) ==
  /\ TakeEof(w, f)
  /\ CanReceiveInputEof(state[w])
  /\ state' = [state EXCEPT ![w] = Advance(@, ACTIVE)]
  /\ pc' = [pc EXCEPT ![w][f] = "prefix"]
  /\ UNCHANGED <<data, handling, countVars, leaderVars, netVars, sendVars>>

DiscardEof(w, f) ==
  /\ TakeEof(w, f)
  /\ ~CanReceiveInputEof(state[w])
  /\ UNCHANGED <<data, pc, handling, state, countVars, leaderVars, netVars, sendVars>>

(***************************************************************************)
(* An admitted EOF is registered by the input thread that received it, and *)
(* by the control thread of each peer it is broadcast to: the same code in *)
(* both, three dictionaries with a lock of its own for each.  The other    *)
(* threads of the process, and the clean-up, may run between two of them.  *)
(***************************************************************************)
EofOf(w, t) == IF t = Control THEN handling[w] ELSE t

AddPrefix(w, f) ==
  /\ pc[w][f] = "prefix"
  /\ eofs' = [eofs EXCEPT ![w] = @ \cup {f}]
  /\ pc' = [pc EXCEPT ![w][f] = "counter"]
  /\ UNCHANGED <<inputVars, handling, state, totals, processed, leaderVars, netVars, sendVars>>

\* Fault: the counter is assigned 0 where it should only be created.
ResetCounter(w, t) ==
  /\ pc[w][t] = "counter"
  /\ processed' = [processed EXCEPT ![w][EofOf(w, t)] = 0]
  /\ pc' = [pc EXCEPT ![w][t] = "total"]
  /\ UNCHANGED <<inputVars, handling, state, eofs, totals, leaderVars, netVars, sendVars>>

AddCounter(w, t) ==
  /\ pc[w][t] = "counter"
  /\ processed' = [processed EXCEPT ![w] = WithKeys(@, {EofOf(w, t)})]
  /\ pc' = [pc EXCEPT ![w][t] = "total"]
  /\ UNCHANGED <<inputVars, handling, state, eofs, totals, leaderVars, netVars, sendVars>>

\* setdefault: the first total stays.
AddTotal(w, t) ==
  /\ pc[w][t] = "total"
  /\ totals' = [totals EXCEPT ![w][EofOf(w, t)] = IF @ = Absent THEN Total[EofOf(w, t)] ELSE @]
  /\ pc' = [pc EXCEPT ![w][t] = IF t = Control \/ N = 1 THEN "check" ELSE "broadcast"]
  /\ UNCHANGED <<inputVars, handling, state, eofs, processed, leaderVars, netVars, sendVars>>

Broadcast(w, f) ==
  /\ pc[w][f] = "broadcast"
  /\ fanout' = Fanout(w, [type |-> "EOF_MESSAGE", flux |-> f])
  /\ pc' = [pc EXCEPT ![w][f] = "check"]
  /\ UNCHANGED <<inputVars, handling, state, countVars, leaderVars, toLeader, redelivered, sendVars>>

(***************************************************************************)
(* _check_and_start_eof_consensus_if_applicable: with the EOFs of all the  *)
(* fluxes, the one thread that takes the state from ACTIVE to PENDING_EOF  *)
(* starts the consensus, and only the leader has something to do then.     *)
(***************************************************************************)
\* Fault: the state is not compared before it is set.
StartsAnyway(w) == eofs[w] = Fluxes

Starts(w) == eofs[w] = Fluxes /\ state[w] = ACTIVE

\* Fault: it polls until the counters of this worker alone reach the totals.
PollOwnCounters(w, t) ==
  /\ pc[w][t] = "check"
  /\ IF processed[w] = totals[w]
       THEN /\ state' = [state EXCEPT ![w] = IF Starts(w) THEN PENDING_EOF ELSE @]
            /\ pc' = [pc EXCEPT ![w][t] = IF Starts(w) /\ w = Leader THEN "start" ELSE "idle"]
       ELSE UNCHANGED <<state, pc>>
  /\ UNCHANGED <<inputVars, handling, countVars, leaderVars, netVars, sendVars>>

CheckEofs(w, t) ==
  /\ pc[w][t] = "check"
  /\ state' = [state EXCEPT ![w] = IF Starts(w) THEN PENDING_EOF ELSE @]
  /\ pc' = [pc EXCEPT ![w][t] = IF Starts(w) /\ w = Leader THEN "start" ELSE "idle"]
  /\ UNCHANGED <<inputVars, handling, countVars, leaderVars, netVars, sendVars>>

-----------------------------------------------------------------------------
(***************************************************************************)
(* The post-process callback, and the EOF for the next stage.              *)
(***************************************************************************)
RunCallback(w, k) ==
  /\ emitted' = [emitted EXCEPT ![w] = @ + k]
  /\ ran' = [ran EXCEPT ![w] = @ + 1]

\* _clear_all_client_data, for what every worker has: neither the state nor
\* the leader's total_packets_sent are cleared.
\* Fault: one of the dictionaries is forgotten.
ClearButEofs(w) ==
  /\ UNCHANGED eofs
  /\ totals' = [totals EXCEPT ![w] = NoCounts]
  /\ processed' = [processed EXCEPT ![w] = NoCounts]

ClearCounts(w) ==
  /\ eofs' = [eofs EXCEPT ![w] = {}]
  /\ totals' = [totals EXCEPT ![w] = NoCounts]
  /\ processed' = [processed EXCEPT ![w] = NoCounts]

ClearLeader ==
  /\ partials' = [w \in Workers |-> NoCounts]
  /\ post' = {}

\* A stage of one worker takes the EOFs as the consensus: the input thread runs
\* the callback, sends the EOF and finishes, comparing no counters.
FinishAlone(f) ==
  /\ N = 1
  /\ pc[Leader][f] = "start"
  /\ \E k \in CallbackOutputs :
       /\ RunCallback(Leader, k)
       /\ totalSent' = [totalSent EXCEPT ![Leader] = sent[Leader] + k]
  /\ out' = Append(out, Tally(totalSent'))
  /\ sent' = [sent EXCEPT ![Leader] = 0]
  /\ ClearCounts(Leader)
  /\ ClearLeader
  /\ state' = [state EXCEPT ![Leader] = FINISH_ENABLED]
  /\ pc' = [pc EXCEPT ![Leader][f] = "idle"]
  /\ UNCHANGED <<inputVars, handling, netVars>>

-----------------------------------------------------------------------------
(***************************************************************************)
(* The leader asks, at the start and again after the back-off sleep that   *)
(* follows a FAIL: it records its own counters and sends the request.      *)
(* consensus_request_transition_lock is held from the send to the change   *)
(* of state (the thread is at "mark"), so that an answer that comes back   *)
(* at once waits for the new state.                                        *)
(***************************************************************************)
LockFree == \A t \in Threads : pc[Leader][t] # "mark"

SendRequest(t) ==
  /\ N > 1
  /\ pc[Leader][t] = "start"
  /\ LockFree
  /\ partials' = [partials EXCEPT ![Leader] = Overwrite(@, processed[Leader])]
  /\ fanout' = Fanout(Leader, [type |-> "REQUEST", awaited |-> eofs[Leader]])
  /\ pc' = [pc EXCEPT ![Leader][t] = "mark"]
  /\ UNCHANGED <<inputVars, handling, state, countVars, post, totalSent, toLeader,
                 redelivered, sendVars>>

MarkRequestSent(t) ==
  /\ pc[Leader][t] = "mark"
  /\ state' = [state EXCEPT ![Leader] = Advance(@, REQUEST_SENT)]
  /\ pc' = [pc EXCEPT ![Leader][t] = "idle"]
  /\ UNCHANGED <<inputVars, handling, countVars, leaderVars, netVars, sendVars>>

-----------------------------------------------------------------------------
(***************************************************************************)
(* The control thread: _process_eof_control_message.  From(v, w) is the    *)
(* next message of v's fanout producer for w, FromWorker(v) that of v's    *)
(* producer for the leader.                                                *)
(***************************************************************************)
From(v, w, type) ==
  /\ pc[w][Control] = "idle"
  /\ fanout[v][w] # <<>>
  /\ Head(fanout[v][w]).type = type

FromWorker(v, type) ==
  /\ pc[Leader][Control] = "idle"
  /\ toLeader[v] # <<>>
  /\ Head(toLeader[v]).type = type
  /\ type = "RESPONSE" => LockFree

Consume(v, w)     == fanout' = [fanout EXCEPT ![v][w] = Tail(@)]
ConsumeWorker(v)  == toLeader' = [toLeader EXCEPT ![v] = Tail(@)]

\* Admission and the first step of the registration, which then goes on as in
\* an input thread.
HandleEofMessage(v, w) ==
  /\ From(v, w, "EOF_MESSAGE")
  /\ CanReceiveInputEof(state[w])
  /\ state' = [state EXCEPT ![w] = Advance(@, ACTIVE)]
  /\ handling' = [handling EXCEPT ![w] = Head(fanout[v][w]).flux]
  /\ eofs' = [eofs EXCEPT ![w] = @ \cup {handling'[w]}]
  /\ pc' = [pc EXCEPT ![w][Control] = "counter"]
  /\ Consume(v, w)
  /\ UNCHANGED <<inputVars, totals, processed, leaderVars, toLeader, redelivered, sendVars>>

HandleRequest(v, w) ==
  /\ From(v, w, "REQUEST")
  /\ processed' = [processed EXCEPT ![w] = WithKeys(@, Head(fanout[v][w]).awaited)]
  /\ toLeader' = [toLeader EXCEPT ![w] =
       Append(@, [type |-> "RESPONSE", counts |-> processed'[w]])]
  /\ state' = [state EXCEPT ![w] = Advance(Advance(@, REQUEST_SENT), RESPONSE_SENT)]
  /\ Consume(v, w)
  /\ UNCHANGED <<inputVars, pc, handling, eofs, totals, leaderVars, redelivered, sendVars>>

\* Fault: POST_OK reports what was sent before the callback.
OkCountsLate(v, w) ==
  /\ From(v, w, "OK")
  /\ ValidTransition(state[w], ACHIEVED)
  /\ \E k \in CallbackOutputs : RunCallback(w, k)
  /\ toLeader' = [toLeader EXCEPT ![w] = Append(@, [type |-> "POST_OK", sent |-> sent[w]])]
  /\ sent' = [sent EXCEPT ![w] = 0]
  /\ ClearCounts(w)
  /\ state' = [state EXCEPT ![w] = FINISH_ENABLED]
  /\ Consume(v, w)
  /\ UNCHANGED <<inputVars, pc, handling, leaderVars, redelivered, out>>

\* Fault: a repeated OK is handled again.
OkUnguarded(v, w) ==
  /\ From(v, w, "OK")
  /\ \E k \in CallbackOutputs :
       /\ RunCallback(w, k)
       /\ toLeader' = [toLeader EXCEPT ![w] =
            Append(@, [type |-> "POST_OK", sent |-> sent[w] + k])]
  /\ sent' = [sent EXCEPT ![w] = 0]
  /\ ClearCounts(w)
  /\ state' = [state EXCEPT ![w] = FINISH_ENABLED]
  /\ Consume(v, w)
  /\ UNCHANGED <<inputVars, pc, handling, leaderVars, redelivered, out>>

\* A worker told that the stage is drained: callback, POST_OK, clean-up.
HandleOk(v, w) ==
  /\ From(v, w, "OK")
  /\ ValidTransition(state[w], ACHIEVED)
  /\ \E k \in CallbackOutputs :
       /\ RunCallback(w, k)
       /\ toLeader' = [toLeader EXCEPT ![w] =
            Append(@, [type |-> "POST_OK", sent |-> sent[w] + k])]
  /\ sent' = [sent EXCEPT ![w] = 0]
  /\ ClearCounts(w)
  /\ state' = [state EXCEPT ![w] = FINISH_ENABLED]
  /\ Consume(v, w)
  /\ UNCHANGED <<inputVars, pc, handling, leaderVars, redelivered, out>>

HandleFail(v, w) ==
  /\ From(v, w, "FAIL")
  /\ ValidTransition(state[w], PENDING_EOF)
  /\ state' = [state EXCEPT ![w] = Advance(@, PENDING_EOF)]
  /\ Consume(v, w)
  /\ UNCHANGED <<inputVars, pc, handling, countVars, leaderVars, toLeader, redelivered, sendVars>>

\* A message the present state does not admit is acknowledged and forgotten.
IgnoreFanout(v, w) ==
  /\ \/ From(v, w, "EOF_MESSAGE") /\ ~CanReceiveInputEof(state[w])
     \/ From(v, w, "OK") /\ ~ValidTransition(state[w], ACHIEVED)
     \/ From(v, w, "FAIL") /\ ~ValidTransition(state[w], PENDING_EOF)
  /\ Consume(v, w)
  /\ UNCHANGED <<inputVars, pc, handling, state, countVars, leaderVars, toLeader, redelivered, sendVars>>

IgnoreWorker(v) ==
  /\ \/ FromWorker(v, "RESPONSE") /\ ~ValidTransition(state[Leader], RESPONSE_SENT)
     \/ FromWorker(v, "POST_OK") /\ ~ValidTransition(state[Leader], FINISH_ENABLED)
  /\ ConsumeWorker(v)
  /\ UNCHANGED <<inputVars, pc, handling, state, countVars, leaderVars, fanout, redelivered, sendVars>>

-----------------------------------------------------------------------------
(***************************************************************************)
(* The leader decides.  P are the partials once a response is added.       *)
(***************************************************************************)
WithResponse(v) ==
  [partials EXCEPT ![v] = Overwrite(@, Head(toLeader[v]).counts)]

PartialKeys(P) == {f \in Fluxes : \E w \in Workers : P[w][f] # Absent}

HaveReceivedAll(P) ==
  /\ PartialKeys(P) = eofs[Leader]
  /\ \A f \in PartialKeys(P), w \in Workers : P[w][f] # Absent

\* total_packets_received.get(f, (0, 0))[1]
Informed(f) == IF totals[Leader][f] = Absent THEN 0 ELSE totals[Leader][f]

\* Fault: every worker has answered, and the sums are not compared.
AchievedOnceAnswered(P) == PartialKeys(P) # {}

\* Without an auxiliary flux, one sum over all the fluxes.  With it, each worker
\* must have every packet of that flux, and the others are summed apart.
TotalizerAchieved(P) ==
  IF Aux = {}
  THEN Tally([x \in Workers \X Fluxes |-> P[x[1]][x[2]]])
         = Tally([f \in PartialKeys(P) |-> Informed(f)])
  ELSE /\ PartialKeys(P) # {}
       /\ \A f \in PartialKeys(P) \cap Aux, w \in Workers :
            P[w][f] # Absent => P[w][f] = Informed(f)
       /\ \A f \in PartialKeys(P) \ Aux :
            Tally([w \in Workers |-> P[w][f]]) = Informed(f)

Response(v) ==
  /\ FromWorker(v, "RESPONSE")
  /\ ValidTransition(state[Leader], RESPONSE_SENT)
  /\ ConsumeWorker(v)

Accumulate(v) ==
  /\ Response(v)
  /\ ~HaveReceivedAll(WithResponse(v))
  /\ partials' = WithResponse(v)
  /\ UNCHANGED <<inputVars, pc, handling, state, countVars, post, totalSent, fanout,
                 redelivered, sendVars>>

\* The sums agree: OK to everyone, and the leader's own callback.
Agree(v) ==
  /\ Response(v)
  /\ HaveReceivedAll(WithResponse(v))
  /\ TotalizerAchieved(WithResponse(v))
  /\ partials' = WithResponse(v)
  /\ fanout' = Fanout(Leader, [type |-> "OK"])
  /\ \E k \in CallbackOutputs :
       /\ RunCallback(Leader, k)
       /\ sent' = [sent EXCEPT ![Leader] = @ + k]
  /\ post' = post \cup {Leader}
  /\ totalSent' = [totalSent EXCEPT ![Leader] = sent'[Leader]]
  /\ state' = [state EXCEPT ![Leader] = ACHIEVED]
  /\ UNCHANGED <<inputVars, pc, handling, countVars, redelivered, out>>

\* Fault: the leader's own entry is removed with those of its peers.
DisagreeDropsLeader(v) ==
  /\ Response(v)
  /\ HaveReceivedAll(WithResponse(v))
  /\ ~TotalizerAchieved(WithResponse(v))
  /\ fanout' = Fanout(Leader, [type |-> "FAIL"])
  /\ partials' = [w \in Workers \ {Leader} |-> NoCounts]
  /\ state' = [state EXCEPT ![Leader] = Advance(Advance(@, RESPONSE_SENT), PENDING_EOF)]
  /\ pc' = [pc EXCEPT ![Leader][Control] = "start"]
  /\ UNCHANGED <<inputVars, handling, countVars, post, totalSent, redelivered, sendVars>>

\* They do not: FAIL to everyone, forget the partials, sleep.
Disagree(v) ==
  /\ Response(v)
  /\ HaveReceivedAll(WithResponse(v))
  /\ ~TotalizerAchieved(WithResponse(v))
  /\ fanout' = Fanout(Leader, [type |-> "FAIL"])
  /\ partials' = [w \in Workers |-> NoCounts]
  /\ state' = [state EXCEPT ![Leader] = Advance(Advance(@, RESPONSE_SENT), PENDING_EOF)]
  /\ pc' = [pc EXCEPT ![Leader][Control] = "start"]
  /\ UNCHANGED <<inputVars, handling, countVars, post, totalSent, redelivered, sendVars>>

PostOk(v) ==
  /\ FromWorker(v, "POST_OK")
  /\ ValidTransition(state[Leader], FINISH_ENABLED)
  /\ ConsumeWorker(v)
  /\ totalSent' = [totalSent EXCEPT ![v] = Head(toLeader[v]).sent]

CollectPostOk(v) ==
  /\ PostOk(v)
  /\ post \cup {v} # Workers
  /\ post' = post \cup {v}
  /\ UNCHANGED <<inputVars, pc, handling, state, countVars, partials, fanout, redelivered, sendVars>>

\* Fault: the EOF leaves with one POST_OK missing.
ForwardEofEarly(v) ==
  /\ PostOk(v)
  /\ Cardinality(post \cup {v}) >= N - 1
  /\ out' = Append(out, Tally(totalSent'))
  /\ ClearCounts(Leader)
  /\ ClearLeader
  /\ sent' = [sent EXCEPT ![Leader] = 0]
  /\ state' = [state EXCEPT ![Leader] = FINISH_ENABLED]
  /\ UNCHANGED <<inputVars, pc, handling, fanout, redelivered, emitted, ran>>

\* The last POST_OK: the EOF goes to the next stage with the sum of the totals.
ForwardEof(v) ==
  /\ PostOk(v)
  /\ post \cup {v} = Workers
  /\ out' = Append(out, Tally(totalSent'))
  /\ ClearCounts(Leader)
  /\ ClearLeader
  /\ sent' = [sent EXCEPT ![Leader] = 0]
  /\ state' = [state EXCEPT ![Leader] = FINISH_ENABLED]
  /\ UNCHANGED <<inputVars, pc, handling, fanout, redelivered, emitted, ran>>

-----------------------------------------------------------------------------
(***************************************************************************)
(* The broker delivers a batch again when its acknowledgement is lost: the *)
(* messages that a producer sent together come once more, in their order,  *)
(* before whatever it sent later.                                          *)
(***************************************************************************)
Again(q, k) == SubSeq(q, 1, k) \o q

Redeliver ==
  /\ redelivered < MaxRedeliveries
  /\ redelivered' = redelivered + 1
  /\ \E v \in Workers :
       \/ /\ \E k \in DOMAIN toLeader[v] :
               toLeader' = [toLeader EXCEPT ![v] = Again(@, k)]
          /\ UNCHANGED fanout
       \/ /\ \E w \in Workers : \E k \in DOMAIN fanout[v][w] :
               fanout' = [fanout EXCEPT ![v][w] = Again(@, k)]
          /\ UNCHANGED toLeader
  /\ UNCHANGED <<inputVars, pc, handling, state, countVars, leaderVars, sendVars>>

-----------------------------------------------------------------------------
InputThread(w, f) ==
  \/ ReceivePacket(w, f)
  \/ CountPacket(w, f)
  \/ AdmitEof(w, f)
  \/ DiscardEof(w, f)
  \/ AddPrefix(w, f)
  \/ Broadcast(w, f)

Registration(w, t) ==
  \/ AddCounter(w, t)
  \/ AddTotal(w, t)
  \/ CheckEofs(w, t)

LeaderThread(t) == SendRequest(t) \/ MarkRequestSent(t)

FanoutMessage(v, w) ==
  \/ HandleEofMessage(v, w)
  \/ HandleRequest(v, w)
  \/ HandleOk(v, w)
  \/ HandleFail(v, w)
  \/ IgnoreFanout(v, w)

WorkerMessage(v) ==
  \/ Accumulate(v)
  \/ Agree(v)
  \/ Disagree(v)
  \/ CollectPostOk(v)
  \/ ForwardEof(v)
  \/ IgnoreWorker(v)

\* The stage has forwarded the EOF and every thread is idle on empty queues.
Quiescent ==
  /\ out # <<>>
  /\ \A q \in DataQueues : data[q] = 0
  /\ eofQueue = {}
  /\ \A w \in Workers, t \in Threads : pc[w][t] = "idle"
  /\ \A v \in Workers : toLeader[v] = <<>> /\ \A w \in Workers : fanout[v][w] = <<>>

Done == Quiescent /\ UNCHANGED vars

Next ==
  \/ \E w \in Workers, f \in Fluxes : InputThread(w, f)
  \/ \E w \in Workers, t \in Threads : Registration(w, t)
  \/ \E f \in Fluxes : FinishAlone(f)
  \/ \E t \in Threads : LeaderThread(t)
  \/ \E v, w \in Workers : FanoutMessage(v, w)
  \/ \E v \in Workers : WorkerMessage(v)
  \/ Redeliver
  \/ Done

Spec == Init /\ [][Next]_vars

(***************************************************************************)
(* Every thread keeps running and the broker delivers every message: each  *)
(* thread, and each pair of a sender and a receiver, is weakly fair.       *)
(* Redelivery is not: the broker never has to do it.                       *)
(***************************************************************************)
Fairness ==
  /\ \A w \in Workers, f \in Fluxes : WF_vars(InputThread(w, f))
  /\ \A w \in Workers, t \in Threads : WF_vars(Registration(w, t))
  /\ \A f \in Fluxes : WF_vars(FinishAlone(f))
  /\ \A t \in Threads : WF_vars(LeaderThread(t))
  /\ \A v, w \in Workers : WF_vars(FanoutMessage(v, w))
  /\ \A v \in Workers : WF_vars(WorkerMessage(v))

FairSpec == Spec /\ Fairness

-----------------------------------------------------------------------------
(***************************************************************************)
(* Properties.                                                             *)
(***************************************************************************)
InFlight == {x \in Workers \X Fluxes : pc[x[1]][x[2]] = "packet"}
Pending  == Tally(data) + Cardinality(InFlight)

\* A worker runs its post-process callback (which sends what it accumulated and
\* closes the client) only when every packet of the previous stage has been
\* processed by the stage: none is in a queue or in a thread, although the EOF
\* may overtake packets, and counters are collected one message at a time.
PostprocessAfterAllData == (\E w \in Workers : ran[w] > 0) => Pending = 0

\* The EOF for the next stage carries exactly the number of packets that the
\* workers sent it, those of the post-process callbacks included: otherwise the
\* next stage never reaches (or passes too early) its own total.
ForwardedTotalExact == \A i \in DOMAIN out : out[i] = Tally(emitted)

\* One EOF per client leaves the stage, each worker runs its callback at most
\* once, and the EOF leaves only when all of them have: whatever copies of the
\* EOF or of the control messages arrive.
ExactlyOnce ==
  /\ Len(out) <= 1
  /\ \A w \in Workers : ran[w] <= 1
  /\ out # <<>> => \A w \in Workers : ran[w] = 1

\* A client that a worker has finished leaves no EOF, total or count of packets
\* behind in its dictionaries; a repeated REQUEST may make its counter again, at 0.
FinishedIsClean ==
  \A w \in Workers : state[w] = FINISH_ENABLED =>
    /\ eofs[w] = {} /\ totals[w] = NoCounts
    /\ \A f \in Fluxes : processed[w][f] \in {Absent, 0}

\* What the leader holds, or is about to receive, about a worker's counters
\* never exceeds what that worker has really processed, in spite of answers of
\* earlier rounds and of repeated answers: a sum that reaches the total is
\* therefore never reached too early.
NeverOverreported ==
  \A w \in Workers, f \in Fluxes : ran[w] = 0 =>
    /\ partials[w][f] <= processed[w][f]
    /\ \A i \in DOMAIN toLeader[w] :
         toLeader[w][i].type = "RESPONSE" => toLeader[w][i].counts[f] <= processed[w][f]

\* The barrier that the stage promises to the next one.
Closed  == {w \in Workers : ran[w] > 0}
Packets == Tally([q \in DataQueues |-> Total[q[1]]])
Barrier == INSTANCE EofBarrier WITH pending <- Pending, closed <- Closed

\* The consensus implements the barrier: every step of the controllers is a step
\* of the abstract stage or changes nothing of it.
ImplementsBarrier == Barrier!Spec

\* Every client whose EOFs were received is finished: however many rounds fail,
\* the EOF is sent to the next stage and every worker releases the client.
ClientFinishes == <>(out # <<>> /\ \A w \in Workers : state[w] = FINISH_ENABLED)
=============================================================================
