---------------------------- MODULE DatedQueries ----------------------------
(***************************************************************************)
(* Queries 3, 4 and 5 for one client: the stages behind the date filter.   *)
(*                                                                         *)
(*   3  transactions in dollars of days 6 to 15 below a hundredth of the   *)
(*      average of their payment format on days 1 to 5;                    *)
(*   4  pairs of accounts joined, on days 1 to 5, through at least         *)
(*      Threshold accounts in the middle;                                  *)
(*   5  how many ACH and Wire transactions of days 1 to 5 are worth less   *)
(*      than a dollar.                                                     *)
(*                                                                         *)
(* A packet is taken by one worker, which counts it for its input flux     *)
(* after sending, and counting, what it gives.  When a stage has the EOF   *)
(* of every input, and its counters add up to their totals, its workers    *)
(* run their callbacks, once each, and its EOF leaves with what it sent to *)
(* each output.  EOFConsensus shows how the workers of a stage of one      *)
(* input come to that; here it is a guard.  Where the code may decide with *)
(* less the stage is hasty: a stage of one worker compares no counters,    *)
(* and EOFs may overtake packets; and the leader of a stage of two inputs  *)
(* may begin a round before it knows the total of one.                     *)
(*                                                                         *)
(* The three queries share the date filter and the queues behind it, and   *)
(* nothing else; a behaviour follows the packets of one of them.           *)
(***************************************************************************)
EXTENDS Topology, Sequences, Bags, Tally

CONSTANTS Clients,      \* what a client may send: [query, rows]
          Formats,      \* the payment formats
          Threshold,    \* FANIN_FANOUT_THRESHOLD, 5 in the code
          Hash(_, _),   \* what the senders to a stage hash a key to
          CodeOf,       \* the codes of the currencies that have one
          Unsupported,  \* the currencies the rate service does not know
          Rates,        \* Rates[key]: hundredths of a dollar for a unit
          MaxRetries,   \* of the rate service's client
          MaxFailures   \* bound on the failures of the rate service

ASSUME QueryAssumption ==
    /\ \A c \in Clients : c.query \in {3, 4, 5} /\ IsFiniteSet(c.rows)
    /\ IsFiniteSet(Formats)
    /\ Threshold \in Nat \ {0} /\ MaxRetries \in Nat /\ MaxFailures \in Nat

VARIABLES client,     \* what this client sends, and the query that is followed
          inbox,      \* inbox[s]: the packets waiting for stage s
          memory,     \* memory[s][w]: what worker w of stage s holds for the client
          processed,  \* processed[s][f]: packets of flux f that stage s has counted
          sent,       \* sent[s][d]: packets that stage s has counted for output d
          eofs,       \* eofs[s][f]: the total in the EOF of f, once it is known
          closed,     \* closed[s]: workers of s that have run their callback
          announced,  \* stages whose EOF has left
          hasty,      \* stages that may close before all is counted
          results,    \* the bag of rows that reached the gateway
          failures    \* failed requests to the rate service, so far

vars == <<client, inbox, memory, processed, sent, eofs, closed, announced, hasty, results,
          failures>>
closing == <<eofs, closed, announced, hasty>>

AnyWorker   == -1      \* a queue that the workers of a stage compete for
EveryWorker == -2      \* an exchange that gives each worker a copy
Nobody      == -3      \* a packet that is counted and not sent
NoEof       == -1
Leader      == 0

\* The stages on the way of the query that is followed.
Branch == [q \in {3, 4, 5} |->
    CASE q = 3 -> {"date_filter", "usd_filter_q3", "usd_filter_q4", "amount_filter_q3",
                   "average_per_pay_format_mapper", "average_per_pay_format_joiner"}
      [] q = 4 -> {"date_filter", "usd_filter_q4", "scather_gather_mapper",
                   "scather_gather_aggregator", "scather_gather_pair_joiner",
                   "scather_gather_joiner"}
      [] q = 5 -> {"date_filter", "pay_format_filter", "currency_converter",
                   "amount_filter_q5"}]

Followed == Branch[client.query]

\* on_consensus_ok_callback is None in the other stages.
Callback == {"average_per_pay_format_mapper", "average_per_pay_format_joiner",
             "amount_filter_q3", "scather_gather_mapper", "scather_gather_aggregator",
             "scather_gather_pair_joiner", "scather_gather_joiner"}

Shard(d, key) == Hash(d, key) % Amount[d]

NoAverages == [f \in Formats |-> [sum |-> 0, count |-> 0]]

Empty(s) ==
    CASE s \in {"average_per_pay_format_mapper", "average_per_pay_format_joiner"} -> NoAverages
      [] s = "amount_filter_q3" -> [averages |-> {}, pending |-> {}, ready |-> FALSE]
      [] s \in {"scather_gather_aggregator", "scather_gather_pair_joiner"} ->
            [fanout |-> {}, fanin |-> {}]
      [] s = "currency_converter" -> [cache |-> {}, asking |-> {}]
      [] OTHER -> {}

Init ==
    /\ client \in Clients
    /\ inbox = [s \in Followed |->
                  IF s = "date_filter"
                    THEN {[from |-> "gateway", by |-> 0, to |-> AnyWorker, msg |-> r] : r \in client.rows}
                    ELSE {}]
    /\ memory = [s \in Followed |-> [w \in WorkersOf(s) |-> Empty(s)]]
    /\ processed = [s \in Followed |-> [f \in Inputs(s) |-> 0]]
    /\ sent = [s \in Followed |-> [d \in Outputs(s) |-> 0]]
    /\ eofs = [s \in Followed |-> [f \in Inputs(s) |->
                  IF f = "gateway" THEN Cardinality(client.rows) ELSE NoEof]]
    /\ closed = [s \in Followed |-> {}]
    /\ announced = {}
    /\ hasty = {}
    /\ results = EmptyBag
    /\ failures = 0

-----------------------------------------------------------------------------
(***************************************************************************)
(* Sending.  Out(d, to, m): message m for the workers `to` of stage d.     *)
(***************************************************************************)
Out(d, to, m) == [stage |-> d, to |-> to, msg |-> m]

Receivers(o) ==
    CASE o.to = EveryWorker -> WorkersOf(o.stage)
      [] o.to = Nobody -> {}
      [] OTHER -> {o.to}

Arriving(s, w, d, outs) ==
    UNION {{[from |-> s, by |-> w, to |-> v, msg |-> o.msg] : v \in Receivers(o)} :
              o \in {x \in outs : x.stage = d}}

Deliver(boxes, s, w, outs) ==
    inbox' = [d \in Followed |-> boxes[d] \cup Arriving(s, w, d, outs)]

\* on_packet_sent_by_client_to, once for each message.
CountSent(s, outs) ==
    sent' = [sent EXCEPT ![s] =
                [d \in Outputs(s) |-> @[d] + Cardinality({o \in outs : o.stage = d})]]

GiveResults(outs) ==
    results' = results (+) SetToBag({o.msg : o \in {x \in outs : x.stage = "gateway" /\ x.to # Nobody}})

\* A worker takes a packet that is for it.
Take(s, w, p) == p \in inbox[s] /\ p.to \in {w, AnyWorker}

Handle(s, w, p, learned, outs) ==
    /\ Take(s, w, p)
    /\ Deliver([inbox EXCEPT ![s] = @ \ {p}], s, w, outs)
    /\ CountSent(s, outs)
    /\ GiveResults(outs)
    /\ memory' = [memory EXCEPT ![s][w] = learned]
    /\ processed' = [processed EXCEPT ![s][p.from] = @ + 1]
    /\ UNCHANGED <<client, closing, failures>>

\* A stage that remembers nothing: it does not matter which worker takes it.
Pass(s, p, outs) == Handle(s, 0, p, {}, outs)

-----------------------------------------------------------------------------
(***************************************************************************)
(* Closing.                                                                *)
(***************************************************************************)
HasAllEofs(s) ==
    Cardinality({f \in Inputs(s) : eofs[s][f] # NoEof}) = Deployment[s].eofs

\* Fault: the total of one flux is enough.
AnyFluxAgrees(s) == \E f \in Inputs(s) : processed[s][f] = eofs[s][f]

Awaited(s, f) == eofs[s][f] * IF f \in Auxiliary(s) THEN Amount[s] ELSE 1

\* One sum over the fluxes; with an auxiliary one, each of its workers must
\* have all of it, and a worker cannot take more than its own copies.
CountersAgree(s) ==
    IF Auxiliary(s) = {}
      THEN Tally(processed[s]) = Tally(eofs[s])
      ELSE \A f \in Inputs(s) : processed[s][f] = Awaited(s, f)

\* The same with the total of one of two inputs read as 0.  The partials are
\* copies of counters that have grown since, so that each sum may be less.
CountersReach(s) ==
    \E f \in Inputs(s) :
        IF Auxiliary(s) = {} THEN Tally(processed[s]) >= eofs[s][f]
                             ELSE processed[s][f] >= Awaited(s, f)

\* The workers of a stage have publishers of their own, and the EOF is sent by
\* the leader's: it may come before the packets of another worker.
Anonymous == Stages \ (Callback \cup {"currency_converter"})

MayBeLate(p) ==
    /\ p.from \in Stages
    /\ Amount[p.from] > 1
    /\ p.from \notin Anonymous => p.by # Leader

(***************************************************************************)
(* A stage begins to close before all is counted.  One worker takes the     *)
(* EOF for the last of the packets.  Of a stage of two inputs a thread may   *)
(* find both EOFs registered while another has yet to add the total of one.  *)
(***************************************************************************)
BeginHastily(s) ==
    /\ s \in Followed \ (hasty \cup announced)
    /\ HasAllEofs(s)
    /\ closed[s] = {}
    /\ IF Amount[s] = 1 THEN inbox[s] # {} /\ \A p \in inbox[s] : MayBeLate(p)
                        ELSE Cardinality(Inputs(s)) = 2
    /\ hasty' = hasty \cup {s}
    /\ UNCHANGED <<client, inbox, memory, processed, sent, eofs, closed, announced, results,
                   failures>>

\* One worker alone compares nothing.  The thread that would take the EOF may
\* still be asking for the rate of a packet.
NothingBefore(s) ==
    /\ inbox[s] = {} \/ s \in hasty
    /\ s = "currency_converter" => \A w \in WorkersOf(s) : memory[s][w].asking = {}

Decided(s) ==
    /\ s \in Followed
    /\ HasAllEofs(s)
    /\ IF Amount[s] > 1 THEN CountersAgree(s) \/ (s \in hasty /\ CountersReach(s))
                        ELSE NothingBefore(s)

\* A worker's callback, and the cleaning of what it holds for the client.
PostProcess(s, w, left, outs) ==
    /\ Decided(s)
    /\ w \in WorkersOf(s) \ closed[s]
    /\ closed' = [closed EXCEPT ![s] = @ \cup {w}]
    /\ memory' = [memory EXCEPT ![s][w] = left]
    /\ Deliver(inbox, s, w, outs)
    /\ CountSent(s, outs)
    /\ GiveResults(outs)
    /\ UNCHANGED <<client, processed, eofs, announced, hasty, failures>>

Announceable(s) ==
    /\ Decided(s)
    /\ s \notin announced
    /\ s \in Callback => closed[s] = WorkersOf(s)

\* Fault: one total, of all the outputs, in every EOF.
SameTotal(s, d) == Tally(sent[s])

TotalFor(s, d) == sent[s][d]

\* send_eof_message_to_next_stage and the stage's callback for it.
SendEofs(s) ==
    /\ Announceable(s)
    /\ announced' = announced \cup {s}
    /\ eofs' = [d \in Followed |->
                  IF d \in Outputs(s)
                    THEN [eofs[d] EXCEPT ![s] = TotalFor(s, d)] ELSE eofs[d]]
    /\ UNCHANGED <<client, inbox, memory, processed, sent, closed, hasty, failures>>

Announce(s) ==
    /\ s # "amount_filter_q5"
    /\ SendEofs(s)
    /\ UNCHANGED results

\* The answer of query 5 is the total of what it never sent.
AnnounceCount ==
    /\ SendEofs("amount_filter_q5")
    /\ results' = results (+) SetToBag({[cantTrx |-> sent["amount_filter_q5"]["gateway"]]})

-----------------------------------------------------------------------------
(***************************************************************************)
(* The filters before the three queries.  Day 0 stands for what is not a   *)
(* minute of September 2022.                                               *)
(***************************************************************************)
DateFilterOutputs(r) ==
    {Out(d, AnyWorker, r) : d \in IF r.day \in 1 .. 5 THEN {"usd_filter_q4", "pay_format_filter"}
                            ELSE IF r.day \in 6 .. 15 THEN {"usd_filter_q3"} ELSE {}}

FilterDate(p) == Pass("date_filter", p, DateFilterOutputs(p.msg))

InDollars(r) == r.payment_currency = "US Dollar" /\ r.receiving_currency = "US Dollar"

FilterUsdQ3(p) ==
    Pass("usd_filter_q3", p,
         {Out(d, AnyWorker, p.msg) : d \in IF InDollars(p.msg) THEN {"amount_filter_q3"} ELSE {}})

FilterUsdQ4(p) ==
    Pass("usd_filter_q4", p,
         {Out(d, AnyWorker, p.msg) :
             d \in IF InDollars(p.msg) THEN Outputs("usd_filter_q4") ELSE {}})

-----------------------------------------------------------------------------
(***************************************************************************)
(* Query 3.                                                                *)
(***************************************************************************)
Added(averages, f, sum, count) ==
    [averages EXCEPT ![f] = [sum |-> @.sum + sum, count |-> @.count + count]]

Averaged(averages) == {f \in Formats : averages[f].count > 0}

\* A transaction without a format is skipped, and counted.
MapAverage(w, p) ==
    LET s == "average_per_pay_format_mapper"
        r == p.msg
    IN Handle(s, w, p,
              IF r.payment_format \in Formats
                THEN Added(memory[s][w], r.payment_format, r.amount_received, 1)
                ELSE memory[s][w],
              {})

\* One message for each format; the format, its sum and its count.
AverageRecords(averages) ==
    {[format |-> f, sum |-> averages[f].sum, count |-> averages[f].count] :
        f \in Averaged(averages)}

SendToJoiner(w) ==
    LET s == "average_per_pay_format_mapper"
    IN PostProcess(s, w, NoAverages,
                   {Out("average_per_pay_format_joiner", AnyWorker, a) : a \in AverageRecords(memory[s][w])})

\* Fault: the averages of another mapper replace what there was.
OverwriteAverage(w, p) ==
    LET s == "average_per_pay_format_joiner"
    IN Handle(s, w, p, Added(NoAverages, p.msg.format, p.msg.sum, p.msg.count), {})

JoinAverage(w, p) ==
    LET s == "average_per_pay_format_joiner"
    IN Handle(s, w, p, Added(memory[s][w], p.msg.format, p.msg.sum, p.msg.count), {})

\* One message with all the averages, for every amount filter.
SendAverages(w) ==
    LET s == "average_per_pay_format_joiner"
    IN PostProcess(s, w, NoAverages,
                   {Out("amount_filter_q3", EveryWorker, AverageRecords(memory[s][w]))})

\* amount < (sum / count) * 0.01, where a format without average has 0.
BelowAverage(r, averages) ==
    /\ r.amount_received > 0
    /\ \E a \in averages : /\ a.format = r.payment_format
                           /\ r.amount_received * 100 * a.count < a.sum

Judged(rows, averages) ==
    {Out("gateway", AnyWorker, r) : r \in {x \in rows : BelowAverage(x, averages)}}

\* The averages of the message replace those of the same format.
TakeAverages(w, p) ==
    LET s == "amount_filter_q3"
        old == {a \in memory[s][w].averages : \A b \in p.msg : b.format # a.format}
    IN /\ p.from = "average_per_pay_format_joiner"
       /\ Handle(s, w, p, [memory[s][w] EXCEPT !.averages = old \cup p.msg], {})

\* The worker's CSV file of the client.
Kept(m, r) == [m EXCEPT !.pending = @ \cup {r}]
Pending(m) == m.pending

\* Until the client is closed a transaction waits in the file.
FilterAmountQ3(w, p) ==
    LET s == "amount_filter_q3"
        m == memory[s][w]
    IN /\ p.from = "usd_filter_q3"
       /\ IF m.ready
            THEN Handle(s, w, p, m, Judged({p.msg}, m.averages))
            ELSE Handle(s, w, p, Kept(m, p.msg), {})

\* The file and the averages are deleted; all_averages_received stays.
JudgePending(w) ==
    LET s == "amount_filter_q3"
        m == memory[s][w]
    IN PostProcess(s, w, [Empty(s) EXCEPT !.ready = TRUE], Judged(Pending(m), m.averages))

-----------------------------------------------------------------------------
(***************************************************************************)
(* Query 4.  The edges of the mapper are both of its dictionaries, which   *)
(* hold them by origin and by destination.                                 *)
(***************************************************************************)
MapEdge(w, p) ==
    LET s == "scather_gather_mapper"
    IN Handle(s, w, p,
              memory[s][w] \cup {<<p.msg.account_origin, p.msg.account_destination>>}, {})

Firsts(pairs)     == {x[1] : x \in pairs}
Seconds(pairs, k) == {x[2] : x \in {y \in pairs : y[1] = k}}
Turned(pairs)   == {<<x[2], x[1]>> : x \in pairs}

Grouped(type, d, pairs) ==
    {Out(d, Shard(d, k), [type |-> type, key |-> k, value |-> Seconds(pairs, k)]) :
        k \in Firsts(pairs)}

SendFans(w) ==
    LET s == "scather_gather_mapper"
        d == "scather_gather_aggregator"
    IN PostProcess(s, w, {}, Grouped("FANOUT", d, memory[s][w])
                               \cup Grouped("FANIN", d, Turned(memory[s][w])))

Learn(m, type, pairs) ==
    IF type = "FANOUT" THEN [m EXCEPT !.fanout = @ \cup pairs]
                       ELSE [m EXCEPT !.fanin = @ \cup pairs]

Aggregate(w, p) ==
    LET s == "scather_gather_aggregator"
    IN Handle(s, w, p, Learn(memory[s][w], p.msg.type, {p.msg.key} \X p.msg.value), {})

\* What a fan that reached the threshold holds; the others are discarded.
AboveThreshold(pairs) ==
    {x \in pairs : Cardinality(Seconds(pairs, x[1])) >= Threshold}

\* One message for each account in the middle, to the pair joiner of that account.
Middles(type, pairs) ==
    {Out("scather_gather_pair_joiner", Shard("scather_gather_pair_joiner", x[2]),
         [type |-> type, key |-> x[1], value |-> x[2]]) : x \in pairs}

SendMiddles(w) ==
    LET s == "scather_gather_aggregator"
    IN PostProcess(s, w, Empty(s),
                   Middles("FANOUT", AboveThreshold(memory[s][w].fanout))
                     \cup Middles("FANIN", AboveThreshold(memory[s][w].fanin)))

\* middle_accounts: by account in the middle, its origins and its destinations.
JoinMiddle(w, p) ==
    LET s == "scather_gather_pair_joiner"
    IN Handle(s, w, p, Learn(memory[s][w], p.msg.type, {<<p.msg.value, p.msg.key>>}), {})

SendPairs(w) ==
    LET s == "scather_gather_pair_joiner"
        d == "scather_gather_joiner"
        m == memory[s][w]
    IN PostProcess(s, w, Empty(s),
                   UNION {{Out(d, Shard(d, pair), <<pair[1], pair[2], mid>>) :
                              pair \in Seconds(m.fanout, mid) \X Seconds(m.fanin, mid)} :
                            mid \in Firsts(m.fanout)})

JoinPair(w, p) ==
    LET s == "scather_gather_joiner" IN Handle(s, w, p, memory[s][w] \cup {p.msg}, {})

PairsOf(triples) == {<<t[1], t[2]>> : t \in triples}

SendScatterGather(w) ==
    LET s == "scather_gather_joiner"
        m == memory[s][w]
        Met(pair) == {t \in m : <<t[1], t[2]>> = pair}
    IN PostProcess(s, w, {},
                   {Out("gateway", AnyWorker, pair) :
                       pair \in {x \in PairsOf(m) :
                                   x[1] # x[2] /\ Cardinality(Met(x)) >= Threshold}})

-----------------------------------------------------------------------------
(***************************************************************************)
(* Query 5.                                                                *)
(***************************************************************************)
None == "none"        \* a field that is missing

Code(currency) == IF currency \in DOMAIN CodeOf THEN CodeOf[currency] ELSE currency

ConversionKey(r) == <<Code(r.payment_currency), r.day>>

\* Fault: the shard is chosen by the currency as the file writes it.
ShardByName(r) == Shard("currency_converter", <<r.payment_currency, r.day>>)

ConversionShard(r) == Shard("currency_converter", ConversionKey(r))

PayFormatOutputs(r) ==
    IF r.payment_format \notin {"ACH", "Wire"} \/ r.payment_currency = None THEN {}
    ELSE IF Code(r.payment_currency) = "USD" THEN {Out("amount_filter_q5", AnyWorker, r)}
    ELSE {Out("currency_converter", ConversionShard(r), r)}

FilterPayFormat(p) == Pass("pay_format_filter", p, PayFormatOutputs(p.msg))

Converter == "currency_converter"

CachedRate(w, key) == {c.rate : c \in {x \in memory[Converter][w].cache : x.key = key}}
RateOf(key)        == IF key \in DOMAIN Rates THEN {Rates[key]} ELSE {}
Idle(w)            == memory[Converter][w].asking = {}

\* The amount in ten thousandths of a dollar.
Converted(r, rates) ==
    {Out("amount_filter_q5", AnyWorker, [r EXCEPT !.amount_paid = @ * rate]) : rate \in rates}

WithRate(m, key, rates) ==
    [cache |-> m.cache \cup {[key |-> key, rate |-> rate] : rate \in rates}, asking |-> {}]

\* A rate that is in the worker's cache is not asked for again.
ConvertCached(w, p) ==
    LET key == ConversionKey(p.msg)
    IN /\ Idle(w)
       /\ CachedRate(w, key) # {}
       /\ Handle(Converter, w, p, memory[Converter][w], Converted(p.msg, CachedRate(w, key)))

\* The static rates answer at once.  A transaction without a rate is dropped,
\* and counted as processed.
ConvertStatic(w, p) ==
    LET key == ConversionKey(p.msg)
    IN /\ Idle(w)
       /\ CachedRate(w, key) = {}
       /\ key[1] \in Unsupported
       /\ Handle(Converter, w, p, WithRate(memory[Converter][w], key, RateOf(key)),
                 Converted(p.msg, RateOf(key)))

\* The request is sent; the worker takes nothing else until it is answered.
Ask(w, p) ==
    LET key == ConversionKey(p.msg)
    IN /\ Idle(w)
       /\ Take(Converter, w, p)
       /\ CachedRate(w, key) = {}
       /\ key[1] \notin Unsupported
       /\ inbox' = [inbox EXCEPT ![Converter] = @ \ {p}]
       /\ memory' = [memory EXCEPT ![Converter][w].asking = {[packet |-> p, attempt |-> 1]}]
       /\ UNCHANGED <<client, processed, sent, closing, results, failures>>

\* The request of the worker ends: with rates, or with none and the packet dropped.
Finish(w, a, rates) ==
    LET m == memory[Converter][w]
        r == a.packet.msg
    IN /\ Deliver(inbox, Converter, w, Converted(r, rates))
       /\ CountSent(Converter, Converted(r, rates))
       /\ memory' = [memory EXCEPT ![Converter][w] = WithRate(m, ConversionKey(r), rates)]
       /\ processed' = [processed EXCEPT ![Converter][a.packet.from] = @ + 1]
       /\ UNCHANGED <<client, closing, results>>

\* The service answers with the rate; when it has none, with an error that is
\* not retried.
AskAnswers(w) ==
    \E a \in memory[Converter][w].asking :
       /\ Finish(w, a, RateOf(ConversionKey(a.packet.msg)))
       /\ UNCHANGED failures

Attempts == MaxRetries + 1

\* The service cannot be reached, or fails: another attempt, if one is left.
AskFails(w) ==
    /\ failures < MaxFailures
    /\ failures' = failures + 1
    /\ \E a \in memory[Converter][w].asking :
          IF a.attempt < Attempts
            THEN /\ memory' = [memory EXCEPT ![Converter][w].asking =
                                  {[a EXCEPT !.attempt = @ + 1]}]
                 /\ UNCHANGED <<client, inbox, processed, sent, closing, results>>
            ELSE Finish(w, a, {})

\* A dollar in the unit of the amounts of an input: what comes from the
\* converter has been multiplied by a rate in hundredths.
Dollar(f) == IF f = Converter THEN 10000 ELSE 100

Small(amount, dollar) == amount > 0 /\ amount < dollar

\* Nothing is sent for a small amount: the counter of the output is the answer.
FilterAmountQ5(p) ==
    Pass("amount_filter_q5", p,
         {Out("gateway", Nobody, p.msg) :
             f \in {x \in {p.from} : Small(p.msg.amount_paid, Dollar(x))}})

-----------------------------------------------------------------------------
\* The date filter, and the EOF of any stage.
Shared ==
    \/ \E p \in inbox["date_filter"] : FilterDate(p)
    \/ \E s \in Followed : Announce(s)

NextQ3 ==
    /\ client.query = 3
    /\ \/ \E p \in inbox["usd_filter_q4"] : FilterUsdQ4(p)
       \/ \E p \in inbox["usd_filter_q3"] : FilterUsdQ3(p)
       \/ \E w \in WorkersOf("average_per_pay_format_mapper") :
             \/ SendToJoiner(w)
             \/ \E p \in inbox["average_per_pay_format_mapper"] : MapAverage(w, p)
       \/ \E w \in WorkersOf("average_per_pay_format_joiner") :
             \/ SendAverages(w)
             \/ \E p \in inbox["average_per_pay_format_joiner"] : JoinAverage(w, p)
       \/ \E w \in WorkersOf("amount_filter_q3") :
             \/ JudgePending(w)
             \/ \E p \in inbox["amount_filter_q3"] : TakeAverages(w, p) \/ FilterAmountQ3(w, p)

NextQ4 ==
    /\ client.query = 4
    /\ \/ \E p \in inbox["usd_filter_q4"] : FilterUsdQ4(p)
       \/ \E w \in WorkersOf("scather_gather_mapper") :
             \/ SendFans(w)
             \/ \E p \in inbox["scather_gather_mapper"] : MapEdge(w, p)
       \/ \E w \in WorkersOf("scather_gather_aggregator") :
             \/ SendMiddles(w)
             \/ \E p \in inbox["scather_gather_aggregator"] : Aggregate(w, p)
       \/ \E w \in WorkersOf("scather_gather_pair_joiner") :
             \/ SendPairs(w)
             \/ \E p \in inbox["scather_gather_pair_joiner"] : JoinMiddle(w, p)
       \/ \E w \in WorkersOf("scather_gather_joiner") :
             \/ SendScatterGather(w)
             \/ \E p \in inbox["scather_gather_joiner"] : JoinPair(w, p)

NextQ5 ==
    /\ client.query = 5
    /\ \/ \E p \in inbox["pay_format_filter"] : FilterPayFormat(p)
       \/ \E w \in WorkersOf(Converter) :
             \/ AskAnswers(w)
             \/ AskFails(w)
             \/ \E p \in inbox[Converter] : ConvertCached(w, p) \/ ConvertStatic(w, p) \/ Ask(w, p)
       \/ \E p \in inbox["amount_filter_q5"] : FilterAmountQ5(p)
       \/ AnnounceCount

Work == Shared \/ NextQ3 \/ NextQ4 \/ NextQ5

Next == Work \/ \E s \in Followed : BeginHastily(s)

Spec == Init /\ [][Next]_vars

\* A hasty round of two inputs may wait for ever: nothing is assumed after it.
FairSpec == Spec /\ WF_vars(hasty = {} /\ Work)

-----------------------------------------------------------------------------
(***************************************************************************)
(* What is right for a client, from what it sent.                          *)
(***************************************************************************)
Early(rows) == {r \in rows : r.day \in 1 .. 5}
Late(rows)  == {r \in rows : r.day \in 6 .. 15}

BelowTheAverage(rows) ==
    {r \in Late(rows) :
        LET same == {x \in Early(rows) : InDollars(x) /\ x.payment_format = r.payment_format}
        IN /\ InDollars(r) /\ r.amount_received > 0
           /\ r.amount_received * 100 * Cardinality(same)
                 < Tally([x \in same |-> x.amount_received])}

Edges(rows) ==
    {<<r.account_origin, r.account_destination>> : r \in {x \in Early(rows) : InDollars(x)}}

ScatterGather(edges) ==
    {pair \in Firsts(edges) \X Firsts(Turned(edges)) :
        /\ pair[1] # pair[2]
        /\ Cardinality({m \in Seconds(edges, pair[1]) : <<m, pair[2]>> \in edges}) >= Threshold}

SmallOnes(rows) ==
    {r \in Early(rows) :
        /\ r.payment_format \in {"ACH", "Wire"}
        /\ r.payment_currency # None
        /\ IF Code(r.payment_currency) = "USD" THEN Small(r.amount_paid, 100)
           ELSE \E rate \in RateOf(ConversionKey(r)) : Small(r.amount_paid * rate, 10000)}

Right == [c \in Clients |->
    CASE c.query = 3 -> BelowTheAverage(c.rows)
      [] c.query = 4 -> ScatterGather(Edges(c.rows))
      [] c.query = 5 -> {[cantTrx |-> Cardinality(SmallOnes(c.rows))]}]

LastStage == [q \in {3, 4, 5} |->
    CASE q = 3 -> "amount_filter_q3"
      [] q = 4 -> "scather_gather_joiner"
      [] q = 5 -> "amount_filter_q5"]

Ended == LastStage[client.query] \in announced

-----------------------------------------------------------------------------
(***************************************************************************)
(* Properties.                                                             *)
(***************************************************************************)

(* When a worker of a stage has run its callback, or the EOF of the stage   *)
(* has left, every stage before it has said its total; and while no stage   *)
(* is hasty, everything that was for the stage has been handled and nothing *)
(* more can come: no packet waits, and no rate is being asked for.          *)
ClosedAfterAll ==
    \A s \in Followed : s \in announced \/ closed[s] # {} =>
        /\ Inputs(s) \ {"gateway"} \subseteq announced
        /\ hasty = {} => /\ inbox[s] = {}
                         /\ s = Converter => \A w \in WorkersOf(s) : Idle(w)

KeysOf(s, w) ==
    LET m == memory[s][w]
    IN CASE s = "scather_gather_aggregator" ->
              ({"FANOUT"} \X Firsts(m.fanout)) \cup ({"FANIN"} \X Firsts(m.fanin))
         [] s = "scather_gather_pair_joiner" -> Firsts(m.fanout) \cup Firsts(m.fanin)
         [] s = "scather_gather_joiner" -> PairsOf(m)
         [] s = Converter ->
              {x.key : x \in m.cache} \cup {ConversionKey(a.packet.msg) : a \in m.asking}

(* A stage of one instance closes as if its instances had agreed: what it   *)
(* has processed is what the EOFs inform.  The code compares nothing there, *)
(* and an EOF may overtake packets.                                         *)
AsIfAgreed ==
    \A s \in Followed :
        Amount[s] = 1 /\ (s \in announced \/ closed[s] # {}) => CountersAgree(s)

(* What has to be counted together is held by one worker: the fan of an     *)
(* account, both sides of an account in the middle, the accounts between a  *)
(* pair, the rate of a currency on a day.                                   *)
KeysNotSplit ==
    \A s \in Followed \cap {"scather_gather_aggregator", "scather_gather_pair_joiner",
                           "scather_gather_joiner", Converter} :
        \A v, w \in WorkersOf(s) : v # w => KeysOf(s, v) \cap KeysOf(s, w) = {}

(* The client of each query is given the rows that are right for what it    *)
(* sent, once each, no other, and then, in the end, the end; unless a stage *)
(* on the way of the query is hasty: from then on nothing is promised.      *)
Answers == INSTANCE QueryAnswers
             WITH right <- Right[client], rows <- results, ended <- Ended, hasty <- hasty # {}

ImplementsAnswers == Answers!FairSpec
=============================================================================
