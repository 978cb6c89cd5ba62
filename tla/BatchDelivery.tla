--------------------------- MODULE BatchDelivery ---------------------------
(***************************************************************************)
(* The consumer side of a stage: its workers compete for the batches of one *)
(* durable queue, one unacknowledged batch each (max_unacked_messages = 1). *)
(* A batch carries several messages; the handler runs on each of them in    *)
(* turn and the batch is acknowledged when the last one is.  Each handler   *)
(* asks the deduplicator of its process, sends what the message produces to *)
(* the publisher thread of the output, counts the message for the EOF       *)
(* consensus, marks it in the deduplicator and acknowledges it.             *)
(*                                                                         *)
(* Sources: batch_controller.py (_BatchAckController, delivery),            *)
(* deduplicator.py, message.py (the key), the packet handlers of            *)
(* date_filter (an exception stops the process) and bank_filter (an         *)
(* exception nacks the batch and the process goes on).                      *)
(*                                                                         *)
(* An error does not pass.  A publisher whose flush fails is dead for the   *)
(* rest of its process: what it had is lost, and every send raises.  A      *)
(* record the handler cannot read raises whenever it is delivered.          *)
(*                                                                         *)
(* RabbitMQ is external: a batch that is not acknowledged goes back to the  *)
(* queue.  The order in which batches leave the queue is left open.         *)
(***************************************************************************)
EXTENDS Naturals, Sequences, FiniteSets

CONSTANTS Workers,      \* the processes of the stage
          Batches,      \* the deliveries the queue will hold
          Messages,     \* records [type, id]
          Body,         \* the messages of each batch, in order
          NoId,         \* a message without message_id
          NoBatch,
          TypeFactor,   \* MESSAGE_TYPE_FACTOR
          Styles,       \* may the handler catch its exceptions and nack?
          Unreadable,   \* the sets of messages the handler may raise on
          MaxFaults     \* bound: publishers that die and processes killed

ASSUME BodyAssumption == Body \in [Batches -> Seq(Messages) \ {<<>>}]
ASSUME BatchAssumption == NoBatch \notin Batches
ASSUME BoundAssumption == /\ Styles \subseteq BOOLEAN
                          /\ Unreadable \subseteq SUBSET Messages
                          /\ MaxFaults \in Nat

VARIABLES ready,      \* batches waiting in the queue
          acked,      \* batches the broker has forgotten
          pc,         \* where each process is in its handler
          held,       \* the batch each process is on
          pos,        \* and the message of it
          pending,    \* _pending_acks
          seen,       \* the deduplicator's marks
          counted,    \* how often each message was counted as processed
          outbox,     \* outputs queued and buffered in the publisher thread
          broken,     \* _publisher_error: the publisher thread has died
          published,  \* outputs the broker has
          lost,       \* history: outputs lost with a publisher or a process
          catches,    \* the handler of this stage catches its exceptions
          poison,     \* the messages it raises on
          ended,      \* history: some process has stopped or was killed
          faults      \* publishers that died and processes killed so far

vars == <<ready, acked, pc, held, pos, pending, seen, counted, outbox,
          broken, published, lost, catches, poison, ended, faults>>

broker == <<ready, acked>>
place == <<held, pos, pending>>
memory == <<seen, counted>>
output == <<outbox, broken, published, lost>>
stage == <<catches, poison>>

Handling == {"check", "send", "count", "mark", "ack"}

TypeKey(m) == m.id                                            \* mutant

(***************************************************************************)
(* message_dedup_key: ids of different types do not collide; an id that is  *)
(* not a number stands for itself.                                          *)
(***************************************************************************)
Key(m) == IF m.id \in Nat THEN m.type * TypeFactor + m.id ELSE m.id

Current(w) == Body[held[w]][pos[w]]

Nothing == [m \in Messages |-> 0]

Init == /\ ready = Batches
        /\ acked = {}
        /\ pc = [w \in Workers |-> "idle"]
        /\ held = [w \in Workers |-> NoBatch]
        /\ pos = [w \in Workers |-> 0]
        /\ pending = [w \in Workers |-> 0]
        /\ seen = [w \in Workers |-> {}]
        /\ counted = [w \in Workers |-> Nothing]
        /\ outbox = [w \in Workers |-> <<>>]
        /\ broken = [w \in Workers |-> FALSE]
        /\ published = {}
        /\ lost = {}
        /\ catches \in Styles
        /\ poison \in Unreadable
        /\ ended = FALSE
        /\ faults = 0

AllButOne(b) == IF Len(Body[b]) = 1 THEN 1 ELSE Len(Body[b]) - 1   \* mutant
PendingAcks(b) == Len(Body[b])

Goto(w, label) == pc' = [pc EXCEPT ![w] = label]

(***************************************************************************)
(* The broker delivers a batch to a process that has none.                  *)
(***************************************************************************)
Deliver(w, b) ==
    /\ pc[w] = "idle"
    /\ b \in ready
    /\ ready' = ready \ {b}
    /\ held' = [held EXCEPT ![w] = b]
    /\ pos' = [pos EXCEPT ![w] = 1]
    /\ pending' = [pending EXCEPT ![w] = PendingAcks(b)]
    /\ Goto(w, "check")
    /\ UNCHANGED <<acked, memory, output, stage, ended, faults>>

(* should_process *)
ShouldProcess(w, m) == m.id = NoId \/ Key(m) \notin seen[w]

Check(w) ==
    /\ pc[w] = "check"
    /\ Goto(w, IF ShouldProcess(w, Current(w)) THEN "send" ELSE "ack")
    /\ UNCHANGED <<broker, place, memory, output, stage, ended, faults>>

(***************************************************************************)
(* The sends of the handler: enqueue lets them pass while the publisher     *)
(* lives.  An output stands for all that the message produces.              *)
(***************************************************************************)
Send(w) ==
    /\ pc[w] = "send"
    /\ ~broken[w]
    /\ Current(w) \notin poison
    /\ outbox' = [outbox EXCEPT ![w] = Append(@, Current(w))]
    /\ Goto(w, "count")
    /\ UNCHANGED <<broker, place, memory, broken, published, lost, stage, ended,
                   faults>>

(* on_processed_packet_by_client *)
Count(w) ==
    /\ pc[w] = "count"
    /\ counted' = [counted EXCEPT ![w][Current(w)] = @ + 1]
    /\ Goto(w, "mark")
    /\ UNCHANGED <<broker, place, seen, output, stage, ended, faults>>

MarkNothing(w) ==                                             \* mutant
    /\ pc[w] = "mark"
    /\ Goto(w, "ack")
    /\ UNCHANGED <<broker, place, memory, output, stage, ended, faults>>

(* mark_processed *)
Mark(w) ==
    /\ pc[w] = "mark"
    /\ seen' = [seen EXCEPT ![w] =
                  IF Current(w).id = NoId THEN @ ELSE @ \cup {Key(Current(w))}]
    /\ Goto(w, "ack")
    /\ UNCHANGED <<broker, place, counted, output, stage, ended, faults>>

(***************************************************************************)
(* ack_one: the last acknowledgement acknowledges the batch; the loop over  *)
(* the messages ends there or goes on to the next message.                  *)
(***************************************************************************)
Ack(w) ==
    /\ pc[w] = "ack"
    /\ pending' = [pending EXCEPT ![w] = @ - 1]
    /\ IF pending[w] = 1
         THEN /\ acked' = acked \cup {held[w]}
              /\ held' = [held EXCEPT ![w] = NoBatch]
              /\ pos' = [pos EXCEPT ![w] = 0]
              /\ Goto(w, "idle")
         ELSE /\ pos' = [pos EXCEPT ![w] = @ + 1]
              /\ Goto(w, "check")
              /\ UNCHANGED <<acked, held>>
    /\ UNCHANGED <<ready, memory, output, stage, ended, faults>>

LeaveBatch(w) ==
    /\ held' = [held EXCEPT ![w] = NoBatch]
    /\ pos' = [pos EXCEPT ![w] = 0]
    /\ pending' = [pending EXCEPT ![w] = 0]

Requeue(w) == /\ ready' = (ready \cup {held[w]}) \ {NoBatch}
              /\ LeaveBatch(w)

(***************************************************************************)
(* What a handler may meet: a message it cannot read, or a publisher that   *)
(* died before its send or between two of its sends.                        *)
(***************************************************************************)
Fails(w) == \/ pc[w] = "send" /\ (broken[w] \/ Current(w) \in poison)
            \/ pc[w] = "count" /\ broken[w]

RaiseAndDrop(w) ==                                            \* mutant
    /\ Fails(w)
    /\ LeaveBatch(w)
    /\ Goto(w, IF catches THEN "idle" ELSE "stopping")
    /\ ended' = (ended \/ ~catches)
    /\ UNCHANGED <<broker, memory, output, stage, faults>>

(***************************************************************************)
(* The handler raises: nack_all puts the whole batch back, the messages     *)
(* already handled included.  A process whose handler lets the exception    *)
(* out stops (_handle_runtime_failure); one whose handler catches it takes  *)
(* the next batch, with the publisher as dead as before.                    *)
(***************************************************************************)
Raise(w) ==
    /\ Fails(w)
    /\ Requeue(w)
    /\ Goto(w, IF catches THEN "idle" ELSE "stopping")
    /\ ended' = (ended \/ ~catches)
    /\ UNCHANGED <<acked, memory, output, stage, faults>>

(***************************************************************************)
(* The publisher thread of the output sends what it has taken so far.       *)
(***************************************************************************)
Outputs(s) == {s[i] : i \in 1..Len(s)}

Publish(w) ==
    \E n \in 1..Len(outbox[w]) :
        /\ ~broken[w]
        /\ published' = published \cup Outputs(SubSeq(outbox[w], 1, n))
        /\ outbox' = [outbox EXCEPT ![w] = SubSeq(@, n + 1, Len(@))]
        /\ UNCHANGED <<broker, pc, place, memory, broken, lost, stage, ended, faults>>

Drop(w) == /\ outbox' = [outbox EXCEPT ![w] = <<>>]
           /\ lost' = lost \cup Outputs(outbox[w])

(***************************************************************************)
(* A flush fails: the thread records the error and ends, and its queue and  *)
(* its buffers go with it, whatever batches their messages came from.       *)
(***************************************************************************)
Die(w) ==
    /\ ~broken[w]
    /\ outbox[w] # <<>>
    /\ faults < MaxFaults
    /\ faults' = faults + 1
    /\ broken' = [broken EXCEPT ![w] = TRUE]
    /\ Drop(w)
    /\ UNCHANGED <<broker, pc, place, memory, published, stage, ended>>

CloseAndDrop(w) ==                                            \* mutant
    /\ pc[w] = "stopping"
    /\ outbox' = [outbox EXCEPT ![w] = <<>>]
    /\ Goto(w, "stopped")
    /\ UNCHANGED <<broker, place, memory, broken, published, lost, stage, ended, faults>>

(***************************************************************************)
(* _close_resources: the close of an output flushes its publisher.  A dead  *)
(* publisher has nothing left: its close raises the error again, which is   *)
(* logged, and the process ends all the same.                               *)
(***************************************************************************)
CloseResources(w) ==
    /\ pc[w] = "stopping"
    /\ published' = published \cup Outputs(outbox[w])
    /\ outbox' = [outbox EXCEPT ![w] = <<>>]
    /\ Goto(w, "stopped")
    /\ UNCHANGED <<broker, place, memory, broken, lost, stage, ended, faults>>

(***************************************************************************)
(* The process is killed: its memory and its unpublished outputs are gone,  *)
(* and the broker takes back the batch it had not acknowledged.             *)
(***************************************************************************)
Kill(w) ==
    /\ pc[w] # "stopped"
    /\ faults < MaxFaults
    /\ faults' = faults + 1
    /\ ended' = TRUE
    /\ Requeue(w)
    /\ Drop(w)
    /\ Goto(w, "stopped")
    /\ UNCHANGED <<acked, memory, broken, published, stage>>

(* The process is started again, with an empty memory and a new publisher. *)
Restart(w) ==
    /\ pc[w] = "stopped"
    /\ seen' = [seen EXCEPT ![w] = {}]
    /\ counted' = [counted EXCEPT ![w] = Nothing]
    /\ broken' = [broken EXCEPT ![w] = FALSE]
    /\ Goto(w, "idle")
    /\ UNCHANGED <<broker, place, outbox, published, lost, stage, ended, faults>>

Take(w) == \E b \in Batches : Deliver(w, b)

Handle(w) == \/ Take(w)
             \/ Check(w)
             \/ Send(w)
             \/ Count(w)
             \/ Mark(w)
             \/ Ack(w)
             \/ Raise(w)

Next == \E w \in Workers : \/ Handle(w)
                           \/ Publish(w)
                           \/ Die(w)
                           \/ CloseResources(w)
                           \/ Kill(w)
                           \/ Restart(w)

Spec == Init /\ [][Next]_vars

(***************************************************************************)
(* A process that runs goes on and its publisher publishes.  The broker     *)
(* offers the waiting batches to the idle consumers of the queue in turn,   *)
(* so one that is idle again and again is given a batch, even if another    *)
(* keeps nacking.  Nothing starts a stopped process again for certain.      *)
(***************************************************************************)
FairSpec == /\ Spec
            /\ \A w \in Workers : /\ WF_vars(Handle(w))
                                  /\ SF_vars(Take(w))
                                  /\ WF_vars(Publish(w))
                                  /\ WF_vars(CloseResources(w))

-----------------------------------------------------------------------------
(* A batch is in one place: waiting, at one process, or acknowledged.       *)
OnePlace ==
    /\ ready \subseteq Batches
    /\ acked \subseteq Batches
    /\ ready \cap acked = {}
    /\ \A w \in Workers :
         /\ pc[w] \in Handling \cup {"idle", "stopping", "stopped"}
         /\ (pc[w] \in Handling) = (held[w] # NoBatch)
         /\ held[w] # NoBatch =>
              /\ held[w] \in Batches \ (ready \cup acked)
              /\ pos[w] \in 1..Len(Body[held[w]])
              /\ pending[w] = Len(Body[held[w]]) - pos[w] + 1
              /\ \A v \in Workers \ {w} : held[v] # held[w]
         /\ \A m \in Messages : counted[w][m] \in Nat
         /\ outbox[w] \in Seq(Messages)

(* The variables have their types, a batch is in one place                  *)
(* (BatchAckController acknowledges or nacks once), and a dead publisher    *)
(* holds nothing and takes nothing.                                         *)
TypeOK == /\ OnePlace
          /\ \A w \in Workers : broken[w] => outbox[w] = <<>>

InBatch(b) == Outputs(Body[b])

(* As long as no process has ended and lost its memory, every message of an *)
(* acknowledged batch is in the counts of a process: acknowledging message  *)
(* by message, the redelivery of whole batches and the deduplication        *)
(* together skip no message, so the consensus can reach its total.          *)
AckedIsCounted ==
    ~ended =>
        \A b \in acked : \A m \in InBatch(b) :
            \E w \in Workers : counted[w][m] > 0

(* A process counts an identified message at most once in its life, however *)
(* often it is redelivered and whatever batch it comes in.                  *)
OncePerLife ==
    \A w \in Workers : \A m \in Messages :
        m.id # NoId => counted[w][m] <= 1

(* The output of every message of an acknowledged batch is published, waits *)
(* in the outbox of a process, or went with a publisher that died or a      *)
(* process that was killed.  A batch is acknowledged before its outputs are *)
(* published, so those last ones are lost for good: nobody has the message  *)
(* any more.  Nothing else loses an output: no nack, no message repeated in *)
(* another batch and no process that stops on an exception.                 *)
OutputsKept ==
    \A b \in acked : \A m \in InBatch(b) :
        m \in published \cup lost \cup UNION {Outputs(outbox[w]) : w \in Workers}

Serves(w) == pc[w] \notin {"stopping", "stopped"} /\ ~broken[w]

(* If every record can be read and one process goes on serving with a live  *)
(* publisher, every batch is acknowledged in the end, whatever the others   *)
(* do: stop, be killed, or take the same batches and nack them for ever     *)
(* because their publisher is dead.                                         *)
EventuallyAcked ==
    poison = {} /\ (\E w \in Workers : <>[]Serves(w)) => <>(acked = Batches)
=============================================================================
