# A verification project for the money-laundering analysis pipeline

This directory holds TLA+ models of the distributed pipeline in `src/src`, the
TLC configurations that check them and TLAPS proofs about them.  Line numbers
refer to the source at this commit; `EC` is
`src/src/common/controllers/eof_controller/EOF_controller.py`.

## 1. The system

A client sends bank accounts and transactions over TCP to a gateway.  The gateway
puts them on RabbitMQ queues.  Stages of workers filter, convert, aggregate and
join them for five queries, and the last stages put the results on the gateway's
queue, from which they go back to the client.

A *stage* is a group of N processes with one prefix, identical but for their id.
Most stages compete for the packets of one queue; some have a queue per worker
(exchanges with a routing key).  No worker persists anything, and everything is
kept in dictionaries keyed by client.  There is no notion of "the last packet" on
a shared queue: a stage learns that a client is finished from EOF messages that
carry the number of packets sent, and its workers must agree on whether they have
processed that many.  This agreement is the core of the system.

| component | state | operations | interacts with |
|---|---|---|---|
| EOF controller (`common/controllers/eof_controller`) | per client: EOFs known, totals informed, packets processed and sent, the leader's partials and post-process set, a state | packet processed / sent, EOF received, REQUEST, RESPONSE, OK, FAIL, POST_OK, clean-up | its worker's input threads (calls), the controllers of its peers (messages), the worker's callbacks |
| deduplication (`common/dedup`) | per client, key and stream: ranges of processed ids | should_process, mark_processed, remove_client | the input threads of its worker |
| batching middleware (`common/middleware`) | input queue of a publisher, a buffer and a deadline per destination; pending acks of a batch | enqueue, flush, close; ack_one, nack_all | every producer and consumer |
| gateway | list of clients, counters per connection | account, transaction, EOF, close; result delivery | client (socket), the first stages, the last stages |
| client | pending acks, counts of results and EOFs | send records, wait for acks, receive results, close | gateway |
| row filters | none of their own | test a row, send it on | EOF controller, deduplicator |
| query 2, 3, 4 stages | maxima, sums and counts, graphs per client | process a packet, callback at the end of the stream | EOF controller, deduplicator |
| currency converter | a cache of rates | convert a row, ask the rate service | EOF controller, the rate service |
| deployment generator | a table of worker counts | write the environment of every stage: prefixes, expected EOFs, queues | - |
| recovery nodes | last heartbeat and restart deadline per container | heartbeat, periodic check, restart | the heartbeat sender of every container, docker |

What makes the behaviour hard:

* every producer connection batches per destination, so an EOF may overtake
  packets of other workers, and a redelivery repeats a whole batch;
* each process has an input thread per flux and a control thread, which share the
  controller's dictionaries under one lock *per dictionary*;
* the consensus is a request/answer protocol that may fail and be repeated;
* the broker may deliver again whatever was not acknowledged.

What makes each component correct:

* EOF controller: no callback runs before the stage has processed every packet;
  each worker runs it once; one EOF leaves, with the exact number of packets
  sent; every client is finished; nothing of a finished client stays.
* deduplication: a message is processed once by a process, whatever order the ids
  arrive in, and the ranges represent exactly the ids marked.
* middleware: nothing enqueued is lost or reordered within a destination; a batch
  is acknowledged only when all of its messages are.
* gateway and client: every record is acknowledged, every result reaches its
  client, the client waits for all of its EOFs.
* recovery: a dead container is restarted, a container that is being restarted is
  not restarted again, every container is watched by somebody.
* queries: the result is that of the reference definition over the client's rows,
  whatever the split into workers and the order of arrival.

## 2. Modules

| module | models | checked by | proved in |
|---|---|---|---|
| `Tally` | `sum()` over counters, without recursion | - | `EOFConsensusProofs` (lemmas) |
| `EofBarrier` | what a stage promises to the next one | as a property of `consensus_shared` | `EOFConsensusProofs` |
| `EOFConsensus` | `EOFController`, the input threads and the control thread of a stage | `consensus_*`, `stuck_q3` | `EOFConsensusProofs` |
| `ProcessedRanges` | `common/dedup/ranges.py` | `processed_ranges` | `ProcessedRangesProofs` |
| `BatchPublisher` | `_DestinationBatchPublisher` | `publisher` | `BatchPublisherProofs` |
| `BatchDelivery` | `_BatchAckController`, the deduplicator and a packet handler | `delivery` | `BatchDeliveryProofs` |
| `RecoveryNode` | the two threads of a recovery node, the senders and docker | `recovery` | `RecoveryNodeProofs` |
| `GatewaySession` | clients, request processes, pool, result process | `gateway` | `GatewaySessionProofs` |
| `BankAnswers` | what query 2 promises a client | as a property of `dollar_queries` | - |
| `DollarQueries` | the stages of queries 1 and 2, from the gateway's queues to the rows | `dollar_queries` | `DollarQueriesProofs` |
| `Topology` | what the deployment generator gives each of the 19 stages: inputs, expected EOFs, outputs | its assumptions, in `dated_queries` | `DatedQueriesProofs` |
| `QueryAnswers` | what queries 3 to 5 promise a client | as a property of `dated_queries` | - |
| `DatedQueries` | the stages of queries 3, 4 and 5, wired by `Topology` | `dated_queries`, `early_average` | `DatedQueriesProofs` |

`PROJECT.json` maps each definition to the lines it stands for.  How the state
corresponds to the code:

**EOFConsensus.**  Every dictionary of the controller is keyed by client and no
entry of one client is read for another, so one client is modelled: `state` is
`client_eof_state`, `eofs` is `eofs_received`, `totals` is
`total_packets_received`, `processed` is `packets_processed`, `sent` is
`packets_partial_sent`, `partials` is `consensus_partial_count`, `post` is
`postprocess_received`, `totalSent` is `total_packets_sent`.  A key that is missing
is `Absent`, not 0, because the code asks whether it is there.  Each dictionary has
its own lock, so an action is one critical section: the registration of an EOF is
`AddPrefix`, `AddCounter`, `AddTotal`, `Broadcast`, `CheckEofs`, by an input thread
or by the control thread.  `fanout[v][w]` and `toLeader[v]` are the control
messages in transit, in order for one sender and one receiver and in no order
otherwise.  `consensus_request_transition_lock` is held from `SendRequest` to
`MarkRequestSent`.  The variables `emitted`, `ran` and `out` are history: what was
really sent, which callbacks ran, which EOFs left.

**ProcessedRanges.**  `add_range` compares the new range with the last one and
extends it, appends it, or rebuilds the list in a loop; the loop is one action per
iteration, so that the invariant of the loop is stated and proved.  The functional
specification is the set `added` of ids that were added.

**BatchPublisher.**  Senders of the process put messages in the queue of the
publisher thread (check of the flag and put are two steps), the thread takes them,
buffers them by destination and publishes a batch when it is full, when its
deadline is over, or on the sentinel that `close()` enqueues.  `age` counts ticks
since a buffer got its first message.

**BatchDelivery.**  A delivery of RabbitMQ is a batch of messages.  A handler takes
them one at a time: `Check` (deduplicator), `Send`, `Count` (`EOFController`),
`Mark`, `Ack`.  The last `Ack` acknowledges the delivery, while its outputs may still
wait in the `outbox` of the publisher thread.  A flush that fails ends that thread
(`Die`): what it held is `lost`, outputs of acknowledged batches included, `broken` is
`_publisher_error`, and from then on every `send` of the process raises
(batch_controller.py:121-126, 190-232).  So does a record that the handler cannot read
(`poison`), wherever and whenever it is delivered.  `Raise` is the handler's exception,
which is therefore never transient: it nacks the delivery, and in stages like
`date_filter` the process then stops and closes its outputs, where a dead publisher
raises once more and is only logged (`CloseResources`), while in stages like
`bank_filter` it goes on with the publisher as dead as before (`catches`).  `Kill` loses
memory and outbox.  `Restart` may happen and need not: nothing in the repository starts
a container again (section 6).

**RecoveryNode.**  `age[c]` is the time since `last_heartbeat`, `resetting[c]` the
time left of `containers_resetting`.  `CheckHeartbeats` is made under the lock;
`ResetWorker` and the docker call follow it without it, one container after the
other, while `ProcessHeartbeat` goes on.  Time is in ticks.

**GatewaySession.**  `up` and `down` are the two directions of a connection,
`pool` the queue of the process pool, `results` the gateway's queue of batches of
results, `clientList` the manager's list.  The queries are external: each answers a
row and an EOF once the client's data and EOFs are announced.

**DollarQueries.**  One client again, because every dictionary is keyed by client.
`seen` is `seen_banks`, `bankMax` is `bank_max`, `cache` is `bank_cache` and
`pending` is `pending_results`, by worker; a dictionary from banks to entries is a
function from banks to sets of at most one.  The other variables are queues.  A
queue with several consumers is a set from which any packet may be next, which
includes every order that competing workers can produce; the rows of accounts have
one producer and one consumer, and are their places in the file, the least first.  The
three anonymous stages (usd filters, amount filters, redirectors) keep nothing, so their
workers are not told apart.  `CloseMapper` and `CloseJoiner` are the post-process
callbacks, which send one by one while other workers do the same.  The mappers have one
flux, and their guard `MappersDrained` is the promise of `EofBarrier`, which
`consensus_shared` shows of the EOF controller: this is how the two models compose.
The joiners have two, and `EofBarrier` is not promised to them: a thread registers the
prefix of an EOF first and its total later, under other locks (EC:143-155), so another
thread of the leader may find both prefixes and begin the round with a total that is
read as 0 (EC:281).  `BeginHastily` is that beginning.  `CountersAgree`, the guard of
`CloseJoiner`, then lets the stage close when all is counted, or when so much is that
the counters, or older copies of them, may add up to one total alone; and `FairSpec`
assumes nothing of it any more, because the round may also fail for ever.

**Topology.**  `Deployment` is the environment that `generar_compose.py` writes, one
record for a `set_..._config` function: `INPUT_PREFIX_1` and `2`, `EXPECTED_INPUT_EOFS`,
`AUXILIARY_INPUT` and the `OUTPUT_PREFIX`es under which a stage counts what it sends.
`Amount` is a row of `configurations`.  A stage of `DatedQueries` sends, counts and waits
through this table and nothing else, so a wrong prefix in it would be found.

**DatedQueries.**  One client, and one of the three queries in a behaviour: they share
the date filter and read disjoint queues after it.  `inbox[s]` is every queue of stage
`s`, and a packet says for which worker it is: `to` is a worker, chosen by hash, or
`AnyWorker` where workers compete for one queue; an exchange bound by all workers makes
one packet each.  `memory[s][w]` is the worker's dictionaries: sums and counts by
format, averages with the CSV file of pending transactions, fans, accounts in the
middle, pairs, the cache of rates with the request being waited for.  `processed` and
`sent` are the counters of the EOF controllers added over the workers, `eofs` the totals
informed.  `Decided` is what the consensus decides, `PostProcess` a worker's callback
with the clean-up, `SendEofs` the EOFs with a total for each output.  Unlike
`DollarQueries`, a stage does not look at its queues to close: it compares `processed`
with `eofs`, as the code does, and `ClosedAfterAll` shows what this is enough for.  A
stage may begin to close before all is counted, for either of two reasons, and is then
in `hasty` (`BeginHastily`).  With one worker it compares nothing (EC:215-222), and the
EOF, which the leader of the stage before sends through its own publisher, may come
before packets of that leader's peers, or, where workers are not told apart, of any of
them (`MayBeLate`).  With two inputs its leader may begin a round before it knows the
total of one, as in `DollarQueries`: `CountersReach`.  At most one total is unknown
then, because the thread that begins the round has registered its own.

## 3. Runs

| run | instance | asks | states |
|---|---|---|---|
| `consensus_shared` | 3 workers, one flux, 2 packets, 1 redelivery, fair | may a round succeed early, its EOF carry a wrong total, a repeated message close twice? does every client end? is it the barrier? | 333 000 |
| `consensus_q3` | 2 workers, a shared flux and one copied to everyone, two threads each | may copies of an EOF close a stage twice? | 216 000 |
| `consensus_alone` | 1 worker, two threads | do two threads finish the client twice? | 1 800 |
| `processed_ranges` | ids 0..6 | every order of additions | 5 500 |
| `publisher` | 2 senders, 2 destinations, 3 messages each, batches of 2 | order, deadlines, what `close()` reports, does everything leave? | 119 000 |
| `delivery` | 2 workers, 2 batches, a publisher that dies or a process that is killed, a record that cannot be read or none, both styles of handler | what a dead publisher, a repeated batch, a stop or a kill loses or repeats, who is left to take the batches | 201 000 |
| `recovery` | 2 containers, timeout of 4 ticks, docker up to 5, 2 crashes, 1 docker failure, another recovery node | is a container restarted that beats, does a dead one come back? | 56 000 |
| `gateway` | 2 clients, 1 free process, 1 fault | acknowledgements and results in spite of others' faults | 196 000 |
| `dollar_queries` | 3 banks, 4 ways to write them, 3 account rows, 5 transactions, 2 filters, 2 mappers, 3 joiners | are queries 1 and 2 answered exactly, in every interleaving of the stages? what is left of it when the joiners' round begins with a total missing? | 270 000 |
| `dated_queries` | one client for each of queries 3, 4 and 5, 7, 5 and 7 rows, 2 workers a stage but one joiner, threshold 2, 1 failure of the rate service and 1 retry | when do stages close, early ones included, what do workers hold, are the queries answered exactly? | 102 000 |
| `stuck_q3`, `early_average` | as `consensus_q3` and `dated_queries` | disagreements, see section 6 | |

Why these bounds are enough to make the interesting cases happen.  Three workers
are the least with a leader and two peers whose answers may be of different
moments; two packets let one be processed before an EOF that overtakes the other,
so rounds fail and are repeated.  `PacketOutputs` and `CallbackOutputs` are small
sets of outputs per packet and per callback, so workers send different numbers.
`MaxRedeliveries` bounds repeated batches of control messages.  Seven ids leave
room for four ranges with gaps, which a new one may precede, follow, join or
swallow.  Three messages per destination with batches of two make full batches,
batches cut by time and by `close()`.  `MCBatchDelivery` has two message types
with one number, a uuid, a message without id, and a batch that repeats a message
of another; the record that cannot be read stands between them.  One fault is enough for a
second process that lives to meet what a dead or killed one left.  `MaxFaults` counts
every fault of a run, of whatever kind.  In
`recovery` docker may take longer than the heartbeat timeout and a heartbeat may
be late.  In `dollar_queries` the amounts are the limits 0 and 50 of query 1 and
values around them, the largest transaction of a bank is not in dollars, a bank is
written in two ways and named twice, another has no name, and the three
amounts of workers differ so that the routing keys of the hops differ.

In `dated_queries` two workers are enough for a key to be in the wrong one and for
callbacks to interleave with each other and with packets; `Hash` puts the keys of the
instance in both.  Rows stand at the limits of the days (0, 1, 5, 6, 15) and of the
amounts: one below and one exactly at a hundredth of an average, a row in dollars on one
side only, 99 cents, and a conversion above and one below a dollar; a currency by
name and by code, one with a static rate, one that no service knows, one that is missing.
In the graph the pair of accounts has two in the middle, with a threshold of 2 where the
code has 5, and accounts of less are there to be discarded.  `MaxFailures` bounds the failures of the
rate service; `MaxRetries` leaves an attempt after it, because when all fail the code
drops the transaction and the count is short.

`CHECK_DEADLOCK FALSE` is set where the system may really stop: the publisher
after its close, the delivery when every batch is acknowledged or both processes have
stopped, the gateway when every client is done or a restart left one waiting, the
two-flux stage because it may get stuck (`stuck_q3`), and the queries when everything is
answered or a hasty stage waits.  The one-flux stages have an explicit `Done` step and
deadlock is checked.

Fairness.  Threads keep running and the broker delivers: weak fairness of each
thread (or each pair of sender and receiver), never of faults, redelivery or of
the end of a client.  It is justified by threads that block on their queue in a
loop, and by queues that are first in, first out, in which each message gets its
turn.  `publisher` and `recovery` also assume that time passes.
`delivery` has strong fairness of `Take`: the broker offers what waits to the idle
consumers of a queue in turn, so a process that is idle again and again is given a batch
although another takes the same one and nacks it for ever.  It has none of `Restart`.
`dollar_queries` and `dated_queries` assume only that something happens while something
can: the number of packets is finite and every step consumes one, advances a worker or
is one of the bounded failures.  They assume it of a stage of two inputs, and in
`dated_queries` of all, only while no stage is hasty.

## 4. Properties worth knowing

* `PostprocessAfterAllData`, `ForwardedTotalExact`, `ExactlyOnce`,
  `NeverOverreported`, `FinishedIsClean`, `ClientFinishes`, `ImplementsBarrier`: the
  promise of a stage.  `ForwardedTotalExact` is what the next stage's consensus
  relies on, and is also the answer of query 5, which is that total.
* `RangesCompact`, `ContainsExact`: the deduplicator forgets and invents no id.
* `SentInOrder`, `CloseTellsTheTruth`, `DeadlineWhileWaiting`, `EventuallyPublished`:
  no message is lost between a `send()` and the broker without `close()` telling.
* `AckedIsCounted`, `OncePerLife`, `OutputsKept`, `EventuallyAcked`: a batch that
  is repeated is neither skipped nor counted twice.  `AckedIsCounted` is stated until a
  process ends and its counts go with it.  `OutputsKept` accounts for every output of
  an acknowledged batch: it is published, on its way, or in `lost`, to which only a
  publisher that dies and a process that is killed add.  `EventuallyAcked` needs one
  process that from some moment on runs with a live publisher, and records that can be
  read; without them the code leaves batches waiting, or nacks them for ever.
* `FirstRestartJustified`, `HeardIsNotRestarted`, `DownComesBack`.
* `EofTotalsExact`, `AcksBalance`, `ResultsExact`, `OwnResults`, `ServedFinishes`.
* `MaximumIsWhole`, `NameMeetsMaximum`, `ImplementsAnswers`, `SmallAnswered`: the
  partition by bank agrees at four hops, the order of arrival does not matter, and
  the rows that come out are those of the definition over the client's rows.  When the
  joiners close on an early round, rows may be missing, and still none is wrong or
  repeated: a joiner that has a name and a maximum has the only ones there are.  Right
  rows are defined from the rows, without the code's helpers; where two transactions
  are equally large either origin is right, because the code keeps the first that
  arrives.
* `ClosedAfterAll`, `KeysNotSplit`, `ImplementsAnswers` of `DatedQueries`: no stage closes
  before every stage before it has said its total, hasty or not; while none is hasty
  counters alone tell a stage that all is handled; what a stage counts together is in one
  worker after any hop; and, while no stage is hasty, the rows that come out are those of
  definitions over the client's rows (`BelowTheAverage`, `ScatterGather`, `SmallOnes`).
  Once a stage is hasty the answers are not promised, because they are not kept: the
  averages of query 3 may lack a mapper's (`early_average`), and the count of query 5
  may be short.

Each property of a passing run has a mutant in `PROJECT.json`: a definition next
to the one it replaces in the module, marked as a fault or mutant, that breaks
the property.

## 5. Proofs

The proofs of a component are in a module of their own, which extends the component's.
Each has the same shape: an inductive invariant, a lemma for what `Init` gives, one for
each action or group of actions, and the theorem.  Every theorem is of the
specification without fairness and for all values of the constants that the assumptions
named in the component's module allow; what a theorem supposes beyond these is in its
statement (`SharedFlux`, `OneEof`, `KeysDistinct`, `HashIsNatural`, `SeveralWorkers`, the query
of the client).  Each invariant was checked by TLC before it was proved.

**`EOFConsensusProofs`**, the consensus of a stage.

* `TypeCorrect`: the types, from `ConsensusAssumption` (a worker at least, one or two
  fluxes, at most one of them auxiliary).
* `ExactlyOnceHolds` from `ProtocolSafe`.  `ExactlyOnce` speaks of `ran` and `out` only
  and is not inductive.  `ProtocolInv` adds why it holds: a callback has run exactly in
  the workers whose state is at least ACHIEVED (`RanIsAchieved`, so the test of the
  state in `HandleOk` refuses a second run), the EOF has left exactly when the leader is
  FINISH_ENABLED (`OutIsFinished`), the leader counts only POST_OK messages of workers
  that did run their callback, repeated ones included (`PostIsAchieved`), only the leader
  sends OK and nobody answers itself (`LeaderDecides`), and at most one thread of the
  leader is starting a round, with the state PENDING_EOF (`OneStarts`).
* `NeverOverreportedHolds`: counters grow until the callback, and a copy of them,
  however old, is below them.
* `ConservationHolds`: until the first callback the packets in queues, in threads and
  in counters are together those of the previous stage.
* `PostprocessAfterAllDataHolds`: `DrainedInv` puts these two together.  A round that
  succeeds compares totals with copies of counters that are below the counters, which
  are below the totals by conservation; if the sums agree no packet is left anywhere.
* `ForwardedTotalExactHolds`: from then on nothing is processed, so a POST_OK carries the
  worker's last count, and the leader adds up each worker's once.
* `StageImplementsBarrier`: `StageInv` maps each step to one of `EofBarrier` or to a
  stutter.

* `FinishedIsCleanHolds`: `EndInv` follows the one copy of the EOF: nothing is said before
  it is registered, and no thread, the control thread included, is still registering it
  or counting a packet when a worker has finished.

  `PostprocessAfterAllDataHolds`, `ForwardedTotalExactHolds` and `StageImplementsBarrier`
  suppose `SharedFlux`: several workers and one flux, not auxiliary.  The hypothesis is
  needed.  One worker decides without comparing counters, and with two fluxes an EOF is
  known before its total is read (`stuck_q3`, section 6).  Sixteen of the nineteen stages
  have one input prefix.  In the others the leader may decide early; `consensus_q3` and
  `consensus_alone` check what still holds there.  `FinishedIsCleanHolds` supposes `OneEof`,
  which adds that the EOF is not copied to every worker: a later copy would be registered
  again.  It allows a counter of zero, which a repeated REQUEST makes again (section 6).

**`BatchDeliveryProofs`**: `TypeOKHolds`; `OncePerLifeHolds` (`LifeInv`: what is counted in a
life is marked, or in the hand of the handler that will mark it); `AckedIsCountedHolds`
and `OutputsKeptHolds` (`CountedInv`, `OutputInv`: every message of a batch behind the
handler's position is counted, and its output published, in an outbox or lost with a
publisher or a process, in this attempt or in an earlier one whose mark is the reason to
skip it).  `OutputsKeptHolds` has no condition on faults: dead publishers, kills, stops
and restarts are in it.  The last two
suppose that messages have different keys (`KeysDistinct`); lemma `KeysTellApart` shows
that numbers below `MESSAGE_TYPE_FACTOR` and uuids that are unique are enough, and the
model shows that the code relies on it: two messages with one key are taken for one.

**`BatchPublisherProofs`**: `PublisherInv` gives `DeadlineHolds` and `BatchesBoundedHolds`: a
full buffer is being flushed, and a destination being flushed is not empty.
`SentInOrderHolds` is about `FlattenSeq`, which is recursive over a sequence; its laws
(what `Append` and `Tail` do to it, what it contains) are proved from its definition by
induction in the form of a set of sequences that holds the empty one and is closed under
`Append` (`SeqInduction`, from the well-foundedness of the naturals).
`CloseTellsTheTruthHolds` adds `CloseInv`: the sentinel is at one place, the messages
behind it are the late ones and stay there, and the thread stops without an error only
when no buffer is left.

**`RecoveryNodeProofs`**: `TypeOKHolds`; `FirstRestartJustifiedHolds` from `OnTimeInv`, which
bounds the age of a container that beats by the interval and the largest delay, plus what
of docker's time the timer thread has still to sleep; `HeardIsNotRestartedHolds`, an
action property.  `TimeAssumption` relates the timeout to interval and delay as the
defaults of the code do.

**`GatewaySessionProofs`**: `TypeOKHolds` (`SessionInv`); `OwnResultsHolds`; `AcksBalanceHolds`
(`AcksInv`, one equation for a client and its connection: what it expects is on its way
up, on its way down or in its hands; a request process that has not begun is silent);
`EofTotalsExactHolds` (`TotalsInv`: what waits in a connection, after what the gateway has
counted, is the rest of the client's script); `ResultsExactHolds` (`RunInv`: while the
gateway runs each result that is due is in one place - queue, batch in hand, connection
or client - and a row is never behind its EOF).  `ScriptAssumption` says that a client
sends accounts, an EOF, transactions and an EOF, as `client/main.py` does;
`ResultAssumption` that queries are finitely many.

**`DollarQueriesProofs`**: `MaximumIsWholeHolds` (a mapper's maximum is that of the
transactions of the bank taken by any mapper, because all of them go to one);
`NameMeetsMaximumHolds` (names and maxima of a bank, however it is written, go to one
joiner); and the answers.  `AnswersAreRight` is `Spec => Answers!Spec`, the safety part of
`ImplementsAnswers`: every step of the stages is an `Answer` of `BankAnswers`, its `Hurry` or a
stutter, so no row is wrong and no bank has two.  It holds of early rounds as well: they
begin only when the names and maxima that will come have been sent, so what a joiner
has of a bank is right, and a late half makes no row.  `AnswersAreComplete` says that no
bank with a right row is without it when the joiners have finished, unless their round
began early.  `AmountAssumption` says that the stages have several workers, as all of
query 2 have in both configurations.  The invariant `WayInv` follows a name and
a maximum on their way: of a bank that its filter has not seen no account row is taken
(`FilterInv`, so the name sent is that of the first row); a mapper that closes finds its
stage drained, and it stays so (`MapperInv`), so what it sends is a maximum over all rows;
what waits for a joiner or is kept there is right (`RightInv`); until the joiner finishes it is
on its way or kept (`KeptInv`); a joiner that closes and was not hasty finds it all
(`JoinersDrainedIs`, `AnswerInv`).
`SmallAnswersExact` is the same of query 1.

**`DatedQueriesProofs`**: `OutputsAreInputs`, for any number of workers, a stage counts
packets under the name of another exactly when the other waits for its EOF;
`KeysStayTogether`, that is `KeysNotSplit` for any clients, numbers of workers, rates and
hashes; `ClosedAfterAllHolds`; `ScatterGatherIsRight` and `NeverHasty`.  `KeysNotSplit` speaks of the
workers' memories only; the invariant `KeyInv` adds the queues: every packet for a sharded
stage is addressed to the shard of its key, and a worker holds only keys of its own shard.
`HashIsNatural` says that what is hashed is a natural number, as sha256 read as a number is.

`ClosedAfterAll` speaks of what is left in queues and hands when a stage closes, while the
stage itself compares only numbers.  `FlowInv` relates the two, for each stage and input:
what the stage has counted, what waits in its inboxes and what its workers have in hand
are together no more than what that input counted as sent to it, times the
number of copies; an EOF total is what an announced stage counted; an EOF leaves only
after the callbacks of its stage.  It is an invariant while no stage is hasty: lemma
`StageStep` covers every step of one stage, so a step of a query is only shown to be one
of these.  What hasty stages keep needs less, `EndsInv`: a total is known exactly of the
stages whose EOF has left, and a stage whose callback ran, or whose EOF left, knows all.
`ClosingInv` puts the two together, and `ClosedAfterAllHolds` supposes nothing of how
EOFs and packets overtake each other.

`ScatterGatherIsRight` is `Answers!Spec` for a client of query 4: every step of the stages is
an `Answer` of `QueryAnswers`, its `End`, its `Hurry` or a stutter, so each right pair is
given once, no other is, and none is missing when the end comes, while no stage is hasty.
`NeverHasty` says that none ever is when the stages of the query have several workers,
as in both configurations: they have one input each, and compare counters.  The invariant `FactsInv` of the first says what the
messages tell.  A *fact* is a triple (the type of a fan and its two accounts; for the last
joiner an origin, a destination and the middle), and `Whole(s, E4)` are the facts of the
edges `E4` of the rows that stage `s` has to be told.  Nothing else is told or held
(`Sound`); a fact of a key whose worker closed was told to the next stage, where it is on its
way, known or used (`TellersComplete`, `Arrived`); a wanted row is on its way or its edge was
told (`RowsComplete`); and the rows given are the right pairs of the joiners that closed
(`PairsGiven`).  Two earlier theorems carry the step of a worker that closes: by
`ClosedAfterAll` nothing can still come to it, and by `KeyInv` no other worker holds a fact of
its keys, so what it compares with the threshold is the whole fan.

**`ProcessedRangesProofs`**: `AlwaysCompact` and `AlwaysExact` for every set of ids and every
sequence of additions.  The invariant `RangesInv` says of the loop of `add_range` that
the ranges already copied, the range being merged and the ranges not yet visited
together hold exactly the ids added, the copied ones end before the merged one and the
rest start after what was copied.

Only model-checked:

* everything under fairness, which is beyond the prover: `ClientFinishes`,
  `EventuallyPublished`, `CloseReturns`, `EventuallyAcked`, `DownComesBack`,
  `ServedFinishes`, `SmallAnswered`, and `ImplementsAnswers` of both query modules, whose
  abstract specification is fair (its safety part is proved of `DollarQueries` and of query 4);
* what the rows of queries 3 and 5 are: the sums of query 3 and the count of query 5
  are over sets that the behaviour builds element by element.

Every safety property that a passing run checks is stated by a theorem.

## 6. What the code does not do

Checked by a run that TLC refutes:

* `stuck_q3`: a stage with two input threads may start a round in which its own counter
  is missing, and wait for ever.  The same separate locks let the leader decide while
  the total of a flux is unknown and read as 0 (EC:281, 319): the stage may close with
  packets missing, or its rounds fail for ever once more has been counted than the total
  that is known.  This is `BeginHastily` of the query modules, which promise no end after
  it.
* `early_average`: a stage of one instance compares no counters (EC:215).  The joiner of
  averages is one in every configuration, the mappers are several, and each publishes in
  batches of its own: the leader's EOF may come before the averages of another mapper,
  and `AsIfAgreed` fails.  `amount_filter_q3` has one instance in the first
  configuration and the same defect.

Read or found while modelling, and not held by a run of its own:

* A publisher that dies takes with it outputs whose input batches are acknowledged
  (batch_controller.py:198-202, 228-232), and is never replaced in its process.  A
  handler that catches exceptions nacks every batch from then on, as fast as the broker
  delivers them; one that does not ends its process, which nothing starts again
  (`generar_compose.py` writes no restart policy).  A record that raises does the same
  wherever it goes.  `delivery` has all of this (`lost`, `Raise`, `poison`), and its
  properties state what is left.

* No recovery node watches another: `_build_data` (recovery_node main.py:91) passes
  the id of the node that asks where utils.py:9 means that of the node watched, and
  `(id - 1) % amount` is never `id` with two nodes or more.
* `bank_filter` marks a bank as seen before it sends the name (main.py:110-119); when the
  send raises, the redelivered row is taken for a repetition and the bank has no name.
* `join_max_amount_per_bank` uses the string "Unknown" for a bank without a name
  (main.py:138-142) and would leave out a bank that has that name.
* In a two-flux stage an EOF admitted just before the clean-up is registered after it
  and its entries stay; `map_max_amount_per_bank` makes its own entry of the client on
  every message (main.py:122).
* A REQUEST that is delivered again after the clean-up is answered, and its answer makes
  the worker's counter of that client again, at zero (EC:361), which nothing removes.
* `amount_filter_q3` never takes a client out of `all_averages_received_for_client`, and
  its file of pending transactions outlives a restart of the process.
* The converter drops and counts a transaction for which every attempt failed
  (currency_converter main.py:108).  A timeout while the body of an answer is read is not
  one of the errors that the service's client retries (api.py:91-118) or the converter
  catches, and ends the consumer.
* `RECOVERY_AMOUNT` of a worker is the number of its own kind, not of recovery nodes
  (generar_compose.py:63-69 and its callers).
* When a grace ends, the last heartbeat is as old as the grace (recovery_node
  main.py:205-209): a check before the next heartbeat restarts a container that
  beats.
* `client_list` is a list of copies: the comparison of sockets removes nobody
  (gateway main.py:84).
* After a restart of the gateway results are delivered again and unmatched ones are
  nacked for ever; the client that lost its connection while it waits for results
  waits for ever, because the idle timeout defaults to 0.
* Worker state is lost with the process: the counts that a dead worker had are in
  no total again, and its stage never matches.  Messages are transient
  (`delivery_mode` 1).
* The recovery subsystem is not finished: `RecoveryController` is used by the recovery
  node only, the generator writes `ALL_MONITORED_CONTAINERS` and the node reads
  `MONITORED_CONTAINERS`, and the arguments of the queue factory do not agree
  (recovery_node main.py:50-61).  The model is of the two threads as they are
  written.

## 7. Limits of the models

* Two threads for two fluxes is exact for `amount_filter_q3`.  `amount_filter_q5` and
  `join_max_amount_per_bank` take both fluxes in one thread, a subset of these
  interleavings for the registration.
* A callback that raises is not modelled (the message is nacked, its redelivery is
  refused by the state and the client never finishes).
* A stage of `EOFConsensus` has one output; those of `DatedQueries` have all of theirs,
  each with its total.
* In `BatchDelivery` the order in which deliveries leave the queue is open, which
  includes the broker's.  The publisher's queue, buffers and deadlines are one `outbox`:
  their order is the subject of `BatchPublisher`.  A message has one output, and a
  publisher that dies between two sends of one message raises in `Count`.
* In `GatewaySession` a window or a batch is two messages and one query answers one
  row.  SIGTERM handling is not modelled.
* `DollarQueries` takes the end of a stage of one flux from `EofBarrier`.  `DatedQueries`
  compares counters, in one step where no stage is hasty: the rounds of a stage are in
  `EOFConsensus` only.  Of an early round of two inputs both models have what it may
  decide (`CountersAgree`, `CountersReach`), with every value that older copies of the
  counters can have, which is more than one run of the code would show, and not its
  repetitions.  A leader that reads a dictionary while another thread adds a key to it
  may also fail with a RuntimeError, which is nacked and refused by the state: the stage
  then waits for ever, as a hasty stage may.
* Amounts are integers, the code's are floats and decimals, so rounding is not in the
  models.  A row is delivered once: redelivery is the subject of `BatchDelivery`.
* In `DatedQueries` two of the three queries of a client are never followed together, and
  two clients never: dictionaries, counters and queues are keyed by client or by query,
  except the cache of rates, which clients share and whose entries do not depend on them.

### Not modelled

* The formats of messages (`message_protocol`), logging, command lines and files of
  results: data without control that the properties tell apart.
* Declaration of queues and connections lost in `middleware_rabbitmq.py`: pika's errors
  end the consumer, which is the `Raise` or `Kill` of `BatchDelivery`.
* SIGTERM and `_close_resources` of the stages, but for `date_filter`'s in
  `BatchDelivery`; start and stop of the threads of recovery nodes.
* `run_test_battery.py`, which starts containers and compares files, and the toxic
  middleware, whose duplicates `EOFConsensus` and `BatchDelivery` have.

## 8. Plan

Done: `Tally`, `EofBarrier`, `EOFConsensus`, `ProcessedRanges`, `BatchPublisher`,
`BatchDelivery`, `RecoveryNode`, `GatewaySession`, `BankAnswers`, `DollarQueries`,
`Topology`, `QueryAnswers`, `DatedQueries`, and the proofs above.

Next, in this order:

1. Proofs: the safety part of `ImplementsAnswers` of `DatedQueries`, done for query 4, for
   query 5 (one packet for each small row) and query 3 (sums over a partition of the rows),
   on top of `FlowInv`; query 3 also needs that the tally over a partition is the sum of the
   tallies of its parts.
2. The rounds of a stage of two fluxes in detail, down to the decision that
   `CountersReach` leaves open, as a refinement.
3. A bank filter whose send fails (`DollarQueries` with the `Raise` of `BatchDelivery`).
4. Callbacks that fail, and one input thread for two fluxes, in `EOFConsensus`.
5. Stop and restart of a stage (`on_sigterm`, `_close_resources`), and the toxic
   middleware as a broker of `DatedQueries`.
