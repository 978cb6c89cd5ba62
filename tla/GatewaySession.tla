--------------------------- MODULE GatewaySession ---------------------------
(***************************************************************************)
(* Clients, the gateway's processes and the two directions of each          *)
(* connection.                                                              *)
(*                                                                         *)
(* A client sends its account records, an EOF, its transaction records and  *)
(* an EOF, at most Window records without acknowledgement, then waits for   *)
(* the EOF of every query and closes.  The gateway accepts it, lists it and *)
(* hands it to a pool of processes: one slot serves one client until it     *)
(* closes, and one slot is the process that reads the results of all        *)
(* clients and writes each to the client whose uuid it carries.             *)
(*                                                                         *)
(* Sources: client/main.py, gateway/main.py, message_handler.py.  The       *)
(* queries are external: each answers one row and then its EOF.  Results    *)
(* arrive in batches, which may mix the clients of one query; a nack puts   *)
(* the whole batch back (see BatchDelivery).                                *)
(***************************************************************************)
EXTENDS Naturals, Sequences, FiniteSets, SequencesExt

CONSTANTS Clients,
          Queries,       \* EXPECTED_RESULT_EOFS = Cardinality(Queries)
          Script,        \* the messages each client sends before it waits
          Window,        \* SEND_BATCH_SIZE
          Slots,         \* processes of the pool left for clients
          BatchMax,      \* messages in a batch of results
          MaxFaults,     \* bound: clients that vanish, handlers that raise
                         \* and restarts of the gateway, in all
          MaxNacks       \* bound: batches of results put back

(* The records of a accounts, an EOF, the records of transactions, an EOF.  *)
ScriptOf(a) ==
    [i \in 1..Len(Script) |-> IF i <= a THEN "ACCOUNT"
                               ELSE IF i \in {a + 1, Len(Script)} THEN "EOF"
                               ELSE "TRANSACTION"]

ASSUME ScriptAssumption ==
    /\ Script \in Seq({"ACCOUNT", "TRANSACTION", "EOF"})
    /\ \E a \in 0..Len(Script) - 2 : Script = ScriptOf(a)
ASSUME WindowAssumption == Window \in Nat \ {0} /\ Slots \in Nat \ {0}
ASSUME ResultAssumption == IsFiniteSet(Queries) /\ BatchMax \in Nat \ {0}

VARIABLES phase,      \* of each client program
          sent,       \* messages of the script it has sent
          pendingAcks,\* records sent and not waited for
          waiting,    \* acknowledgements it waits for now
          acks,       \* ack_queue
          received,   \* its results, in order: rows and EOFs by query
          up, down,   \* the connection: to the gateway, to the client
          clientList, \* the gateway's list of clients
          pool,       \* requests waiting for a process, first come first served
          handler,    \* the request process of each client
          totals,     \* its counters: accounts and transactions
          eofs,       \* and eof_count
          forwarded,  \* packets handed to the stages (accounts, transactions)
          announced,  \* the totals in the EOFs handed to the stages
          answers,    \* what each query has answered to each client
          results,    \* the queue of results: batches
          next,       \* the message of the first batch that is due
          gone, failures, restarts, nacks

vars == <<phase, sent, pendingAcks, waiting, acks, received, up, down,
          clientList, pool, handler, totals, eofs, forwarded, announced,
          answers, results, next, gone, failures, restarts, nacks>>

program == <<phase, sent, pendingAcks, waiting>>
session == <<totals, eofs, forwarded, announced>>
pipeline == <<answers, results, next>>
bounds == <<gone, failures, restarts, nacks>>

faults == gone + failures + restarts

Open(c) == phase[c] \in {"sending", "closing"}

NoPackets == [ACCOUNT |-> 0, TRANSACTION |-> 0]

Init == /\ phase = [c \in Clients |-> "new"]
        /\ sent = [c \in Clients |-> 0]
        /\ pendingAcks = [c \in Clients |-> 0]
        /\ waiting = [c \in Clients |-> 0]
        /\ acks = [c \in Clients |-> 0]
        /\ received = [c \in Clients |-> <<>>]
        /\ up = [c \in Clients |-> <<>>]
        /\ down = [c \in Clients |-> <<>>]
        /\ clientList = {}
        /\ pool = <<>>
        /\ handler = [c \in Clients |-> "none"]
        /\ totals = [c \in Clients |-> NoPackets]
        /\ eofs = [c \in Clients |-> 0]
        /\ forwarded = [c \in Clients |-> NoPackets]
        /\ announced = [c \in Clients |-> <<>>]
        /\ answers = [c \in Clients |-> [q \in Queries |-> "none"]]
        /\ results = <<>>
        /\ next = 1
        /\ gone = 0 /\ failures = 0 /\ restarts = 0 /\ nacks = 0

-----------------------------------------------------------------------------
(* The client *)

(* connect, and the gateway's accept: listed, and handed to the pool. *)
Connect(c) ==
    /\ phase[c] = "new"
    /\ phase' = [phase EXCEPT ![c] = "sending"]
    /\ clientList' = clientList \cup {c}
    /\ pool' = Append(pool, c)
    /\ handler' = [handler EXCEPT ![c] = "queued"]
    /\ UNCHANGED <<sent, pendingAcks, waiting, acks, received, up, down,
                   session, pipeline, bounds>>

Free(c) == phase[c] = "sending" /\ waiting[c] = 0
Connected(c) == handler[c] # "ended"

ToGateway(c, msg) == up' = [up EXCEPT ![c] = Append(@, msg)]

(* _send_record_batched: the window is emptied when it is full. *)
SendRecord(c) ==
    /\ Free(c) /\ Connected(c)
    /\ sent[c] < Len(Script)
    /\ Script[sent[c] + 1] # "EOF"
    /\ ToGateway(c, Script[sent[c] + 1])
    /\ sent' = [sent EXCEPT ![c] = @ + 1]
    /\ IF pendingAcks[c] + 1 >= Window
         THEN /\ waiting' = [waiting EXCEPT ![c] = pendingAcks[c] + 1]
              /\ pendingAcks' = [pendingAcks EXCEPT ![c] = 0]
         ELSE /\ pendingAcks' = [pendingAcks EXCEPT ![c] = @ + 1]
              /\ UNCHANGED waiting
    /\ UNCHANGED <<phase, acks, received, down, clientList, pool, handler,
                   session, pipeline, bounds>>

FlushOneMore(c) ==                                            \* mutant
    /\ Free(c)
    /\ sent[c] < Len(Script)
    /\ Script[sent[c] + 1] = "EOF"
    /\ pendingAcks[c] > 0
    /\ waiting' = [waiting EXCEPT ![c] = pendingAcks[c] + 1]
    /\ pendingAcks' = [pendingAcks EXCEPT ![c] = 0]
    /\ UNCHANGED <<phase, sent, acks, received, up, down, clientList, pool,
                   handler, session, pipeline, bounds>>

(* _flush_pending_acks before an EOF *)
Flush(c) ==
    /\ Free(c)
    /\ sent[c] < Len(Script)
    /\ Script[sent[c] + 1] = "EOF"
    /\ pendingAcks[c] > 0
    /\ waiting' = [waiting EXCEPT ![c] = pendingAcks[c]]
    /\ pendingAcks' = [pendingAcks EXCEPT ![c] = 0]
    /\ UNCHANGED <<phase, sent, acks, received, up, down, clientList, pool,
                   handler, session, pipeline, bounds>>

SendEof(c) ==
    /\ Free(c) /\ Connected(c)
    /\ sent[c] < Len(Script)
    /\ Script[sent[c] + 1] = "EOF"
    /\ pendingAcks[c] = 0
    /\ ToGateway(c, "EOF")
    /\ sent' = [sent EXCEPT ![c] = @ + 1]
    /\ waiting' = [waiting EXCEPT ![c] = 1]
    /\ UNCHANGED <<phase, pendingAcks, acks, received, down, clientList, pool,
                   handler, session, pipeline, bounds>>

(* _wait_for_acks *)
TakeAck(c) ==
    /\ waiting[c] > 0 /\ acks[c] > 0
    /\ waiting' = [waiting EXCEPT ![c] = @ - 1]
    /\ acks' = [acks EXCEPT ![c] = @ - 1]
    /\ phase' = [phase EXCEPT ![c] =
                    IF @ = "closing" /\ waiting[c] = 1 THEN "done" ELSE @]
    /\ UNCHANGED <<sent, pendingAcks, received, up, down, clientList, pool,
                   handler, session, pipeline, bounds>>

AnyReceived(c) == Len(received[c])                           \* mutant
EofsReceived(c) ==
    Cardinality({i \in DOMAIN received[c] : received[c][i].kind = "EOF"})

(* receive_all_results counts the EOFs, then send_close. *)
Close(c) ==
    /\ Free(c) /\ Connected(c)
    /\ sent[c] = Len(Script)
    /\ EofsReceived(c) >= Cardinality(Queries)
    /\ ToGateway(c, "CLOSE")
    /\ phase' = [phase EXCEPT ![c] = "closing"]
    /\ waiting' = [waiting EXCEPT ![c] = 1]
    /\ UNCHANGED <<sent, pendingAcks, acks, received, down, clientList, pool,
                   handler, session, pipeline, bounds>>

(* _receiver_loop *)
Receive(c) ==
    /\ Open(c)
    /\ down[c] # <<>>
    /\ down' = [down EXCEPT ![c] = Tail(@)]
    /\ IF Head(down[c]).kind = "ACK"
         THEN acks' = [acks EXCEPT ![c] = @ + 1] /\ UNCHANGED received
         ELSE received' = [received EXCEPT ![c] = Append(@, Head(down[c]))]
              /\ UNCHANGED acks
    /\ UNCHANGED <<program, up, clientList, pool, handler, session, pipeline,
                   bounds>>

(***************************************************************************)
(* "ACK timeout" after 30 s, or a send on a connection that was lost: main  *)
(* returns.  A request process that runs answers within the 30 s.           *)
(***************************************************************************)
GiveUp(c) ==
    /\ Open(c)
    /\ \/ waiting[c] > 0 /\ acks[c] = 0 /\ handler[c] # "serving" /\ down[c] = <<>>
       \/ Free(c) /\ ~Connected(c) /\ sent[c] < Len(Script)
    /\ phase' = [phase EXCEPT ![c] = "failed"]
    /\ UNCHANGED <<sent, pendingAcks, waiting, acks, received, up, down,
                   clientList, pool, handler, session, pipeline, bounds>>

(* The client's process ends at any point. *)
Vanish(c) ==
    /\ Open(c)
    /\ faults < MaxFaults
    /\ gone' = gone + 1
    /\ phase' = [phase EXCEPT ![c] = "gone"]
    /\ UNCHANGED <<sent, pendingAcks, waiting, acks, received, up, down,
                   clientList, pool, handler, session, pipeline, failures,
                   restarts, nacks>>

-----------------------------------------------------------------------------
(* The gateway: requests *)

Serving == {c \in Clients : handler[c] = "serving"}

ServeAtOnce ==                                                \* mutant
    /\ pool # <<>>
    /\ pool' = Tail(pool)
    /\ handler' = [handler EXCEPT ![Head(pool)] = "serving"]
    /\ UNCHANGED <<program, acks, received, up, down, clientList, session,
                   pipeline, bounds>>

(* The pool gives a free process to the oldest request. *)
Serve ==
    /\ pool # <<>>
    /\ Cardinality(Serving) < Slots
    /\ pool' = Tail(pool)
    /\ handler' = [handler EXCEPT ![Head(pool)] = "serving"]
    /\ UNCHANGED <<program, acks, received, up, down, clientList, session,
                   pipeline, bounds>>

(* What is written to a client that is gone is lost. *)
ToClient(c, msg) ==
    down' = [down EXCEPT ![c] = IF Open(c) THEN Append(@, msg) ELSE @]

Add(counters, c, kind) == [counters EXCEPT ![c][kind] = @ + 1]

HandleAccount(c) ==
    /\ totals' = Add(totals, c, "ACCOUNT")
    /\ forwarded' = Add(forwarded, c, "ACCOUNT")
    /\ UNCHANGED <<eofs, announced>>

CountReinvestment(c) ==                                       \* mutant
    /\ \/ UNCHANGED forwarded
       \/ forwarded' = Add(forwarded, c, "TRANSACTION")
    /\ totals' = Add(totals, c, "TRANSACTION")
    /\ UNCHANGED <<eofs, announced>>

(* A reinvestment is acknowledged and goes no further. *)
HandleTransaction(c) ==
    /\ \/ UNCHANGED <<totals, forwarded>>
       \/ /\ totals' = Add(totals, c, "TRANSACTION")
          /\ forwarded' = Add(forwarded, c, "TRANSACTION")
    /\ UNCHANGED <<eofs, announced>>

(* The first EOF goes to the bank filters, the second one to the others. *)
HandleEof(c) ==
    /\ eofs' = [eofs EXCEPT ![c] = @ + 1]
    /\ announced' = [announced EXCEPT ![c] =
                        CASE eofs[c] = 0 -> Append(@, totals[c].ACCOUNT)
                          [] eofs[c] = 1 -> Append(@, totals[c].TRANSACTION)
                          [] OTHER -> @]
    /\ UNCHANGED <<totals, forwarded>>

(***************************************************************************)
(* One turn of handle_client_request: a message, what it does, and an ACK;  *)
(* the process ends with a CLOSE.  The loop over client_list pops nothing:  *)
(* the sockets it reads from the manager are copies, equal to no other.     *)
(***************************************************************************)
HandleRequest(c) ==
    /\ handler[c] = "serving"
    /\ up[c] # <<>>
    /\ up' = [up EXCEPT ![c] = Tail(@)]
    /\ CASE Head(up[c]) = "ACCOUNT" -> HandleAccount(c)
         [] Head(up[c]) = "TRANSACTION" -> HandleTransaction(c)
         [] Head(up[c]) = "EOF" -> HandleEof(c)
         [] OTHER -> UNCHANGED session
    /\ ToClient(c, [kind |-> "ACK"])
    /\ handler' = [handler EXCEPT ![c] =
                      IF Head(up[c]) = "CLOSE" THEN "ended" ELSE @]
    /\ UNCHANGED <<program, acks, received, clientList, pool, pipeline, bounds>>

(***************************************************************************)
(* The request process raises while it handles a message, or finds that the *)
(* client is gone: it closes the connection and ends.                       *)
(***************************************************************************)
EndRequest(c) ==
    /\ handler[c] = "serving"
    /\ \/ Open(c) /\ up[c] # <<>> /\ faults < MaxFaults
          /\ failures' = failures + 1
       \/ ~Open(c) /\ UNCHANGED failures
    /\ handler' = [handler EXCEPT ![c] = "ended"]
    /\ up' = [up EXCEPT ![c] = <<>>]
    /\ UNCHANGED <<program, acks, received, down, clientList, pool, session,
                   pipeline, gone, restarts, nacks>>

-----------------------------------------------------------------------------
(* The queries and the gateway's process for their results *)

(* A stage publishes a result: in the batch that is open, or in a new one. *)
Publish(msg) ==
    \/ results' = Append(results, <<msg>>)
    \/ /\ Len(results) > 1
       /\ Last(results)[1].query = msg.query
       /\ Len(Last(results)) < BatchMax
       /\ results' = Front(results) \o <<Append(Last(results), msg)>>

(* A query answers its row once its data and EOFs are in, then its EOF. *)
Answer(c, q) ==
    /\ Len(announced[c]) = 2
    /\ \/ /\ answers[c][q] = "none"
          /\ answers' = [answers EXCEPT ![c][q] = "row"]
          /\ Publish([kind |-> "ROW", query |-> q, client |-> c])
       \/ /\ answers[c][q] = "row"
          /\ answers' = [answers EXCEPT ![c][q] = "EOF"]
          /\ Publish([kind |-> "EOF", query |-> q, client |-> c])
    /\ UNCHANGED <<program, acks, received, up, down, clientList, pool,
                   handler, session, next, bounds>>

Due == Head(results)[next]

MatchAnyone(msg) == clientList                                \* mutant
(* deserialize_result_message of the listed clients' handlers *)
Match(msg) == {c \in clientList : c = msg.client}

AckDue ==
    IF next = Len(Head(results))
      THEN results' = Tail(results) /\ next' = 1
      ELSE next' = next + 1 /\ UNCHANGED results

NackBatch == next' = 1 /\ UNCHANGED results

(***************************************************************************)
(* _consume_result: the row or EOF is written to its client and             *)
(* acknowledged, also when the socket is dead.                              *)
(***************************************************************************)
DeliverResult ==
    /\ results # <<>>
    /\ \E c \in Match(Due) : ToClient(c, Due)
    /\ AckDue
    /\ UNCHANGED <<program, acks, received, up, clientList, pool, handler,
                   session, answers, bounds>>

(* Nobody is connected, or nobody matches: the whole batch goes back, and    *)
(* its first messages are delivered to their clients once more.             *)
NackResult ==
    /\ results # <<>>
    /\ Match(Due) = {}
    /\ nacks < MaxNacks
    /\ nacks' = nacks + 1
    /\ NackBatch
    /\ UNCHANGED <<program, acks, received, up, down, clientList, pool,
                   handler, session, answers, gone, failures, restarts>>

(***************************************************************************)
(* The gateway is restarted: its list, its pool and all connections are     *)
(* gone; the batch it was on is delivered again from its first message.     *)
(***************************************************************************)
Restart ==
    /\ faults < MaxFaults
    /\ restarts' = restarts + 1
    /\ clientList' = {}
    /\ pool' = <<>>
    /\ handler' = [c \in Clients |-> IF phase[c] = "new" THEN "none" ELSE "ended"]
    /\ up' = [c \in Clients |-> <<>>]
    /\ next' = 1
    /\ UNCHANGED <<program, acks, received, down, session, answers, results,
                   gone, failures, nacks>>

ClientStep(c) == \/ Connect(c) \/ SendRecord(c) \/ Flush(c) \/ SendEof(c)
                 \/ TakeAck(c) \/ Close(c) \/ GiveUp(c)

GatewayStep(c) == HandleRequest(c) \/ EndRequest(c)

Next == \/ \E c \in Clients : \/ ClientStep(c)
                              \/ Receive(c)
                              \/ Vanish(c)
                              \/ GatewayStep(c)
                              \/ \E q \in Queries : Answer(c, q)
        \/ Serve
        \/ DeliverResult
        \/ NackResult
        \/ Restart

Spec == Init /\ [][Next]_vars

(***************************************************************************)
(* Programs and processes go on, the pool hands out its processes and the   *)
(* queries answer.                                                          *)
(***************************************************************************)
FairSpec == /\ Spec
            /\ WF_vars(Serve)
            /\ WF_vars(DeliverResult)
            /\ \A c \in Clients : /\ WF_vars(ClientStep(c))
                                  /\ WF_vars(Receive(c))
                                  /\ WF_vars(GatewayStep(c))
                                  /\ \A q \in Queries : WF_vars(Answer(c, q))

-----------------------------------------------------------------------------
(* The variables have their types, no more clients than slots are served,   *)
(* and a message of the connection is in the program's script.              *)
TypeOK ==
    /\ phase \in [Clients -> {"new", "sending", "closing", "done", "failed", "gone"}]
    /\ sent \in [Clients -> 0..Len(Script)]
    /\ waiting \in [Clients -> 0..Window]
    /\ handler \in [Clients -> {"none", "queued", "serving", "ended"}]
    /\ Cardinality(Serving) <= Slots
    /\ ToSet(pool) = {c \in Clients : handler[c] = "queued"}
    /\ next \in 1..BatchMax
    /\ results # <<>> => next <= Len(Head(results))

(* The total an EOF carries is the number of packets of that client that    *)
(* the gateway handed to the stages, the reinvestments it drops not         *)
(* counted: the consensus of the first stages can reach it, and not early.  *)
EofTotalsExact ==
    \A c \in Clients :
        /\ Len(announced[c]) >= 1 => announced[c][1] = forwarded[c].ACCOUNT
        /\ Len(announced[c]) = 2 => announced[c][2] = forwarded[c].TRANSACTION

Acks(c) == Cardinality({i \in DOMAIN down[c] : down[c][i].kind = "ACK"})

(* While a client sends on a connection that stands, each acknowledgement   *)
(* it expects is in one place: a message on its way, an ACK on its way or   *)
(* an ACK to take; nothing is answered twice or not at all, whatever        *)
(* results travel in between.                                               *)
AcksBalance ==
    \A c \in Clients :
        Open(c) /\ Connected(c) =>
            Len(up[c]) + Acks(c) + acks[c] = waiting[c] + pendingAcks[c]

(* A client gets its own results only, each one once, and the row of a      *)
(* query before its EOF; a client that is done has them all, though         *)
(* it counts EOFs without looking whose they are.  Clients that vanish,     *)
(* fail or wait in the pool change nothing for the others.                  *)
ResultsExact ==
    restarts = 0 => \A c \in Clients :
        /\ \A i \in 1..Len(received[c]) : received[c][i].client = c
        /\ IsInjective(received[c])
        /\ phase[c] = "done" =>
              {<<m.kind, m.query>> : m \in ToSet(received[c])} = {"ROW", "EOF"} \X Queries

(* A client whose request process runs finishes, unless the client vanishes *)
(* or the process raises: no acknowledgement and no EOF it waits for fails  *)
(* to come, and clients that share the batches of results do not stop it.   *)
ServedFinishes ==
    \A c \in Clients :
        handler[c] = "serving" ~>
            phase[c] \in {"done", "gone", "failed"} \/ restarts > 0

(* Whatever happens to the gateway and to its clients, nobody receives a    *)
(* result that is not their own.                                            *)
OwnResults ==
    \A c \in Clients : \A m \in ToSet(down[c]) \cup ToSet(received[c]) :
        m.kind # "ACK" => m.client = c

=============================================================================
