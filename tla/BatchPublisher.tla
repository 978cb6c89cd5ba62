---------------------------- MODULE BatchPublisher ----------------------------
(***************************************************************************)
(* common/middleware/batch_controller.py, _DestinationBatchPublisher: the  *)
(* thread that every queue and exchange of the system publishes through.   *)
(* send() puts a message on an in-memory queue and returns; the thread     *)
(* gathers the messages of each destination and publishes them as one      *)
(* batch when there are BatchMax of them or when the first has waited      *)
(* MaxAge ticks.  close() lets the thread publish what it holds and joins  *)
(* it.  A publication may fail, which ends the thread.                     *)
(*                                                                         *)
(* The messages of a destination are numbered in the order in which they   *)
(* enter the queue.                                                        *)
(***************************************************************************)
EXTENDS Integers, Sequences, SequencesExt

CONSTANTS
    Destinations,   \* routing keys
    Senders,        \* threads that call send
    BatchMax,       \* RABBITMQ_BATCH_MAX_MESSAGES
    MaxAge,         \* RABBITMQ_BATCH_MAX_SECONDS, in ticks
    MaxMessages     \* bound: messages sent to each destination

NoDest == "none"
Sentinel == [dest |-> "none", msg |-> 0]    \* the None that close() enqueues

ASSUME PublisherConstants ==
    /\ BatchMax \in Nat \ {0} /\ MaxAge \in Nat \ {0} /\ MaxMessages \in Nat
    /\ NoDest \notin Destinations

VARIABLES
    sending,    \* sender -> destination of the message it is about to put
    inputQueue, \* _input_queue
    buffers,    \* destination -> messages not yet published
    age,        \* destination -> ticks since its first buffered message, or None
    thread,     \* where the publisher thread is
    flushing,   \* destinations left to publish in the thread's present pass
    error,      \* _publisher_error is set
    closer,     \* how far close() has got
    published,  \* destination -> the batches the broker was given, in order
    sent,       \* destination -> messages whose send() returned
    late        \* the messages that were put behind the sentinel

vars == <<sending, inputQueue, buffers, age, thread, flushing, error, closer,
          published, sent, late>>

None == -1

Init ==
    /\ sending = [s \in Senders |-> NoDest]
    /\ inputQueue = <<>> /\ late = {}
    /\ buffers = [d \in Destinations |-> <<>>]
    /\ age = [d \in Destinations |-> None]
    /\ thread = "get" /\ flushing = {}
    /\ error = FALSE /\ closer = "open"
    /\ published = [d \in Destinations |-> <<>>]
    /\ sent = [d \in Destinations |-> 0]

closed == closer # "open"

-----------------------------------------------------------------------------
(* send(): the two checks of enqueue, and the put.  A sender that finds the
   publisher closed or broken gets an exception and changes nothing. *)

EnqueueCheck(s, d) ==
    /\ sending[s] = NoDest
    /\ ~closed /\ ~error
    /\ sent[d] < MaxMessages
    /\ sending' = [sending EXCEPT ![s] = d]
    /\ UNCHANGED <<inputQueue, buffers, age, thread, flushing, error, closer,
                   published, sent, late>>

EnqueuePut(s) ==
    LET d == sending[s]
        n == sent[d] + 1
    IN /\ d # NoDest
       /\ n <= MaxMessages
       /\ inputQueue' = Append(inputQueue, [dest |-> d, msg |-> n])
       /\ sent' = [sent EXCEPT ![d] = n]
       /\ late' = IF closer \in {"open", "closing"} THEN late ELSE late \cup {<<d, n>>}
       /\ sending' = [sending EXCEPT ![s] = NoDest]
       /\ UNCHANGED <<buffers, age, thread, flushing, error, closer, published>>

(* close(): the flag, the sentinel, the join.  A second call returns at once. *)
CloseStart ==
    /\ closer = "open"
    /\ closer' = "closing"
    /\ UNCHANGED <<sending, inputQueue, buffers, age, thread, flushing, error,
                   published, sent, late>>

CloseEnqueue ==
    /\ closer = "closing"
    /\ inputQueue' = Append(inputQueue, Sentinel)
    /\ closer' = "joining"
    /\ UNCHANGED <<sending, buffers, age, thread, flushing, error,
                   published, sent, late>>

CloseJoined ==
    /\ closer = "joining"
    /\ thread = "stopped"
    /\ closer' = IF error THEN "raised" ELSE "returned"
    /\ UNCHANGED <<sending, inputQueue, buffers, age, thread, flushing, error,
                   published, sent, late>>

-----------------------------------------------------------------------------
(* The publisher thread, _run. *)

Expired(ages) == {d \in Destinations : ages[d] >= MaxAge}

Buffered == {d \in Destinations : buffers[d] # <<>>}

(* _append_to_destination_buffer *)
Aged(d) == [age EXCEPT ![d] = IF buffers[d] = <<>> THEN 0 ELSE @]

FullBefore(d) == Len(buffers[d]) >= BatchMax    \* mutant of FullWith: off by one

FullWith(d) == Len(buffers[d]) + 1 >= BatchMax

(* get() returns a message: it is buffered, and its destination is published if
   it is full, otherwise the thread looks for the destinations that waited long. *)
TakeMessage ==
    /\ thread = "get"
    /\ inputQueue # <<>> /\ Head(inputQueue) # Sentinel
    /\ LET d == Head(inputQueue).dest
           full == FullWith(d)
       IN /\ buffers' = [buffers EXCEPT ![d] = Append(@, Head(inputQueue).msg)]
          /\ age' = Aged(d)
          /\ thread' = IF full THEN "full" ELSE "expire"
          /\ flushing' = IF full THEN {d} ELSE Expired(age')
    /\ inputQueue' = Tail(inputQueue)
    /\ UNCHANGED <<sending, error, closer, published, sent, late>>

(* get() times out: the queue is empty and some destination has waited. *)
TimeOutOnly ==  \* mutant of TimeOut: nothing is flushed without a new message
    /\ thread = "get"
    /\ inputQueue = <<>>
    /\ Expired(age) # {}
    /\ thread' = "expire"
    /\ UNCHANGED <<sending, inputQueue, buffers, age, flushing, error, closer,
                   published, sent, late>>

TimeOut ==
    /\ thread = "get"
    /\ inputQueue = <<>>
    /\ Expired(age) # {}
    /\ flushing' = Expired(age)
    /\ thread' = "expire"
    /\ UNCHANGED <<sending, inputQueue, buffers, age, error, closer, published,
                   sent, late>>

TakeSentinelAndStop ==  \* mutant of TakeSentinel: the buffers are dropped
    /\ thread = "get"
    /\ inputQueue # <<>> /\ Head(inputQueue) = Sentinel
    /\ inputQueue' = Tail(inputQueue)
    /\ flushing' = {}
    /\ thread' = "drain"
    /\ UNCHANGED <<sending, buffers, age, error, closer, published, sent, late>>

TakeSentinelAndGoOn ==  \* mutant of TakeSentinel: the loop is not left
    /\ thread = "get"
    /\ inputQueue # <<>> /\ Head(inputQueue) = Sentinel
    /\ inputQueue' = Tail(inputQueue)
    /\ flushing' = Buffered
    /\ thread' = "expire"
    /\ UNCHANGED <<sending, buffers, age, error, closer, published, sent, late>>

TakeSentinel ==
    /\ thread = "get"
    /\ inputQueue # <<>> /\ Head(inputQueue) = Sentinel
    /\ inputQueue' = Tail(inputQueue)
    /\ flushing' = Buffered
    /\ thread' = "drain"
    /\ UNCHANGED <<sending, buffers, age, error, closer, published, sent, late>>

(* _flush_destination, when the broker takes the batch. *)
FlushButKeepAge(d) ==   \* mutant of Flush: the deadline is not removed
    /\ d \in flushing
    /\ published' = [published EXCEPT ![d] = Append(@, buffers[d])]
    /\ buffers' = [buffers EXCEPT ![d] = <<>>]
    /\ flushing' = flushing \ {d}
    /\ UNCHANGED <<sending, inputQueue, age, thread, error, closer, sent, late>>

FlushButKeepBuffer(d) ==   \* mutant of Flush: the buffer is not emptied
    /\ d \in flushing
    /\ published' = [published EXCEPT ![d] = Append(@, buffers[d])]
    /\ age' = [age EXCEPT ![d] = None]
    /\ flushing' = flushing \ {d}
    /\ UNCHANGED <<sending, inputQueue, buffers, thread, error, closer, sent, late>>

Flush(d) ==
    /\ d \in flushing
    /\ published' = [published EXCEPT ![d] = Append(@, buffers[d])]
    /\ buffers' = [buffers EXCEPT ![d] = <<>>]
    /\ age' = [age EXCEPT ![d] = None]
    /\ flushing' = flushing \ {d}
    /\ UNCHANGED <<sending, inputQueue, thread, error, closer, sent, late>>

(* The batch does not reach the broker: the error is kept and the thread ends. *)
FlushFails ==
    /\ flushing # {}
    /\ error' = TRUE
    /\ thread' = "stopped"
    /\ flushing' = {}
    /\ UNCHANGED <<sending, inputQueue, buffers, age, closer, published, sent, late>>

(* A pass is over: after a full destination the waiting ones are looked at. *)
EndPass ==
    /\ flushing = {}
    /\ \/ /\ thread = "full"
          /\ flushing' = Expired(age)
          /\ thread' = "expire"
       \/ /\ thread = "expire"
          /\ thread' = "get"
          /\ UNCHANGED flushing
       \/ /\ thread = "drain"
          /\ thread' = "stopped"
          /\ UNCHANGED flushing
    /\ UNCHANGED <<sending, inputQueue, buffers, age, error, closer, published,
                   sent, late>>

(* Time passes; a wait of MaxAge is as good as a longer one. *)
Older(a) == IF a \in {None, MaxAge} THEN a ELSE a + 1

Tick ==
    /\ \E d \in Destinations : age[d] # None /\ age[d] < MaxAge
    /\ age' = [d \in Destinations |-> Older(age[d])]
    /\ UNCHANGED <<sending, inputQueue, buffers, thread, flushing, error, closer,
                   published, sent, late>>

-----------------------------------------------------------------------------
ThreadStep == \/ TakeMessage \/ TimeOut \/ TakeSentinel
              \/ (\E d \in Destinations : Flush(d)) \/ EndPass

CloseStep == CloseEnqueue \/ CloseJoined

Next ==
    \/ \E s \in Senders, d \in Destinations : EnqueueCheck(s, d)
    \/ \E s \in Senders : EnqueuePut(s)
    \/ CloseStart \/ CloseStep
    \/ ThreadStep \/ FlushFails \/ Tick

Spec == Init /\ [][Next]_vars

(* The thread runs, time passes, and close() goes on once it was called. *)
FairSpec == Spec /\ WF_vars(ThreadStep) /\ WF_vars(Tick) /\ WF_vars(CloseStep)

-----------------------------------------------------------------------------
Single(m, d) == IF m.dest = d THEN <<m.msg>> ELSE <<>>
Singles(queue, d) == [k \in 1..Len(queue) |-> Single(queue[k], d)]
Queued(d) == FlattenSeq(Singles(inputQueue, d))

Delivered(d) == FlattenSeq(published[d])

UpTo(n) == [k \in 1..n |-> k]

(* Between send() and the broker no message is lost, repeated or overtaken by a
   later one of its destination, whatever the batches are, also when the thread
   died: what was published, buffered and queued is, in this order, everything
   that was sent (batch_controller.py:121-126, 176-207, 246-305). *)
SentInOrder ==
    \A d \in Destinations : Delivered(d) \o buffers[d] \o Queued(d) = UpTo(sent[d])

(* close() tells the truth: if it returns, every message whose send() returned
   was published, save those of a send() that was overtaken by close() between
   its check of the flag and its put (batch_controller.py:121-137, 228-241). *)
CloseTellsTheTruth ==
    closer = "returned" =>
        \A d \in Destinations :
            \A n \in 1..sent[d] :
                n \in ToSet(Delivered(d)) <=> <<d, n>> \notin late

(* A destination has a deadline exactly while messages of it wait: none waits
   without one, and none is published empty (batch_controller.py:246-249,
   287-305). *)
DeadlineWhileWaiting ==
    \A d \in Destinations : age[d] # None <=> buffers[d] # <<>>

(* No batch is empty or larger than BatchMax (batch_controller.py:197, 288). *)
BatchesBounded ==
    \A d \in Destinations : \A b \in ToSet(published[d]) : Len(b) \in 1..BatchMax

(* Every message is published in the end, however few follow it, unless the
   thread died or the message was put behind the sentinel. *)
EventuallyPublished ==
    \A d \in Destinations, n \in 1..MaxMessages :
        sent[d] >= n ~> n \in ToSet(Delivered(d)) \/ error \/ <<d, n>> \in late

(* close() comes back, whether the thread is alive or dead when it is called. *)
CloseReturns == closer = "closing" ~> closer \in {"returned", "raised"}
=============================================================================
