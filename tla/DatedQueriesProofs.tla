------------------------- MODULE DatedQueriesProofs -------------------------
(***************************************************************************)
(* What has to be counted together stays in one worker, KeysNotSplit of    *)
(* DatedQueries, a stage closes after everything, ClosedAfterAll, and      *)
(* query 4 gives what QueryAnswers promises, but for its fairness: for any *)
(* clients, numbers of workers, rates and hashes; and the wiring of the    *)
(* generated deployment, for any number of workers.                        *)
(***************************************************************************)
EXTENDS DatedQueries, FiniteSetTheorems, TLAPS

-----------------------------------------------------------------------------
(***************************************************************************)
(* The wiring of the generated deployment.                                 *)
(***************************************************************************)
(* The names of the stages.                                                *)
LEMMA StageNames ==
    Stages =
      {"usd_filter_q1q2", "amount_filter_q1", "data_per_bank_redirector",
       "bank_filter", "map_max_amount_per_bank",
       "join_max_amount_per_bank", "date_filter", "usd_filter_q3",
       "usd_filter_q4", "pay_format_filter",
       "average_per_pay_format_mapper",
       "average_per_pay_format_joiner", "amount_filter_q3",
       "currency_converter", "amount_filter_q5",
       "scather_gather_mapper", "scather_gather_aggregator",
       "scather_gather_pair_joiner", "scather_gather_joiner"}
BY DEF Stages, Deployment

(* What every stage waits for and sends to.                                *)
LEMMA WiringTable ==
    /\ Inputs("usd_filter_q1q2") = {"gateway"}
    /\ Outputs("usd_filter_q1q2") = {"amount_filter_q1", "data_per_bank_redirector"}
    /\ Inputs("amount_filter_q1") = {"usd_filter_q1q2"}
    /\ Outputs("amount_filter_q1") = {"gateway"}
    /\ Inputs("data_per_bank_redirector") = {"usd_filter_q1q2"}
    /\ Outputs("data_per_bank_redirector") = {"map_max_amount_per_bank"}
    /\ Inputs("bank_filter") = {"gateway"}
    /\ Outputs("bank_filter") = {"join_max_amount_per_bank"}
    /\ Inputs("map_max_amount_per_bank") = {"data_per_bank_redirector"}
    /\ Outputs("map_max_amount_per_bank") = {"join_max_amount_per_bank"}
    /\ Inputs("join_max_amount_per_bank") = {"bank_filter", "map_max_amount_per_bank"}
    /\ Outputs("join_max_amount_per_bank") = {"gateway"}
    /\ Inputs("date_filter") = {"gateway"}
    /\ Outputs("date_filter") = {"usd_filter_q3", "usd_filter_q4", "pay_format_filter"}
    /\ Inputs("usd_filter_q3") = {"date_filter"}
    /\ Outputs("usd_filter_q3") = {"amount_filter_q3"}
    /\ Inputs("usd_filter_q4") = {"date_filter"}
    /\ Outputs("usd_filter_q4") = {"scather_gather_mapper", "average_per_pay_format_mapper"}
    /\ Inputs("pay_format_filter") = {"date_filter"}
    /\ Outputs("pay_format_filter") = {"amount_filter_q5", "currency_converter"}
    /\ Inputs("average_per_pay_format_mapper") = {"usd_filter_q4"}
    /\ Outputs("average_per_pay_format_mapper") = {"average_per_pay_format_joiner"}
    /\ Inputs("average_per_pay_format_joiner") = {"average_per_pay_format_mapper"}
    /\ Outputs("average_per_pay_format_joiner") = {"amount_filter_q3"}
    /\ Inputs("amount_filter_q3") = {"usd_filter_q3", "average_per_pay_format_joiner"}
    /\ Outputs("amount_filter_q3") = {"gateway"}
    /\ Inputs("currency_converter") = {"pay_format_filter"}
    /\ Outputs("currency_converter") = {"amount_filter_q5"}
    /\ Inputs("amount_filter_q5") = {"pay_format_filter", "currency_converter"}
    /\ Outputs("amount_filter_q5") = {"gateway"}
    /\ Inputs("scather_gather_mapper") = {"usd_filter_q4"}
    /\ Outputs("scather_gather_mapper") = {"scather_gather_aggregator"}
    /\ Inputs("scather_gather_aggregator") = {"scather_gather_mapper"}
    /\ Outputs("scather_gather_aggregator") = {"scather_gather_pair_joiner"}
    /\ Inputs("scather_gather_pair_joiner") = {"scather_gather_aggregator"}
    /\ Outputs("scather_gather_pair_joiner") = {"scather_gather_joiner"}
    /\ Inputs("scather_gather_joiner") = {"scather_gather_pair_joiner"}
    /\ Outputs("scather_gather_joiner") = {"gateway"}
BY DEF Deployment, Config, UsdFilterQ1Q2Config, AmountFilterQ1Config,
       RedirectorConfig, BankFilterConfig, MapMaxConfig, JoinMaxConfig,
       DateFilterConfig, UsdFilterQ3Config, UsdFilterQ4Config,
       PayFormatFilterConfig, AverageMapperConfig, AverageJoinerConfig,
       AmountFilterQ3Config, CurrencyConverterConfig, AmountFilterQ5Config,
       MapperConfig, AggregatorConfig, PairJoinerConfig, JoinerConfig, Stages,
       Inputs, Outputs

(* Every prefix under which a stage counts packets is an input of the stage  *)
(* of that name, and every input is counted by the stage of its name.        *)
THEOREM OutputsAreInputs ==
    \A s, d \in Stages : d \in Outputs(s) <=> s \in Inputs(d)
BY StageNames, WiringTable

-----------------------------------------------------------------------------
(***************************************************************************)
(* The keys of the sharded stages.                                         *)
(***************************************************************************)
\* sha256, read as a number (scather_gather_mapper main.py:135).
HashIsNatural == \A s, k : Hash(s, k) \in Nat

Sharded == {"scather_gather_aggregator", "scather_gather_pair_joiner",
            "scather_gather_joiner", "currency_converter"}

\* The key by which a packet for a sharded stage was routed.
KeyOf(s, msg) ==
    CASE s = "scather_gather_aggregator"  -> msg.key
      [] s = "scather_gather_pair_joiner" -> msg.value
      [] s = "scather_gather_joiner"      -> <<msg[1], msg[2]>>
      [] s = "currency_converter"         -> ConversionKey(msg)

\* The keys in what a worker of a sharded stage holds.
KeysIn(s, m) ==
    CASE s = "scather_gather_aggregator"  -> Firsts(m.fanout) \cup Firsts(m.fanin)
      [] s = "scather_gather_pair_joiner" -> Firsts(m.fanout) \cup Firsts(m.fanin)
      [] s = "scather_gather_joiner"      -> PairsOf(m)
      [] s = "currency_converter" ->
            {x.key : x \in m.cache} \cup {ConversionKey(a.packet.msg) : a \in m.asking}

\* Its fields.
Shape(s, m) ==
    CASE s = "scather_gather_aggregator"  -> m = [fanout |-> m.fanout, fanin |-> m.fanin]
      [] s = "scather_gather_pair_joiner" -> m = [fanout |-> m.fanout, fanin |-> m.fanin]
      [] s = "scather_gather_joiner"      -> TRUE
      [] s = "currency_converter" ->
            /\ m = [cache |-> m.cache, asking |-> m.asking]
            /\ \A a \in m.asking : a = [packet |-> a.packet, attempt |-> a.attempt]

Belongs(s, w, m) == Shape(s, m) /\ \A k \in KeysIn(s, m) : Shard(s, k) = w

Directed(s, box) == \A p \in box : p.to = Shard(s, KeyOf(s, p.msg))

WellSharded(outs) ==
    \A o \in outs : o.stage \in Sharded => o.to = Shard(o.stage, KeyOf(o.stage, o.msg))

InboxInv ==
    /\ inbox = [s \in Followed |-> inbox[s]]
    /\ \A s \in Followed \cap Sharded : Directed(s, inbox[s])

MemoryInv ==
    /\ memory = [s \in Followed |-> [w \in WorkersOf(s) |-> memory[s][w]]]
    /\ \A s \in Followed \cap Sharded : \A w \in WorkersOf(s) : Belongs(s, w, memory[s][w])

(* Packets are on their way to the worker of their key, and a worker holds *)
(* its keys only.                                                          *)
KeyInv == client \in Clients /\ InboxInv /\ MemoryInv

-----------------------------------------------------------------------------
(* The worker of a key is a worker, and none of the marks for several.     *)
LEMMA ShardIsWorker ==
    ASSUME HashIsNatural, NEW d \in Sharded, NEW k
    PROVE  Shard(d, k) \in Nat
<1>1. d \in Stages
  BY StageNames DEF Sharded
<1>2. Amount[d] \in Nat \ {0}
  BY <1>1, DeploymentAssumption
<1>3. Hash(d, k) \in Nat
  BY DEF HashIsNatural
<1> QED
  BY <1>2, <1>3 DEF Shard

(* The stages of a query are followed when the client sent it.             *)
LEMMA FollowedStages ==
    /\ client.query = 4 =>
         {"scather_gather_aggregator", "scather_gather_pair_joiner",
          "scather_gather_joiner"} \subseteq Followed
    /\ client.query = 5 => "currency_converter" \in Followed
BY DEF Followed, Branch

(* Well sharded messages arrive at the workers of their keys.              *)
LEMMA DeliverKeeps ==
    ASSUME HashIsNatural, InboxInv, client' = client,
           NEW boxes, \A d \in Followed : boxes[d] \subseteq inbox[d],
           NEW s, NEW w, NEW outs, WellSharded(outs), Deliver(boxes, s, w, outs)
    PROVE  InboxInv'
<1>1. Followed' = Followed
  BY DEF Followed
<1>2. inbox' = [d \in Followed |-> inbox'[d]]
  BY DEF Deliver
<1>3. ASSUME NEW d \in Followed \cap Sharded, NEW p \in inbox'[d]
      PROVE  p.to = Shard(d, KeyOf(d, p.msg))
  <2>1. p \in boxes[d] \/ p \in Arriving(s, w, d, outs)
    BY <1>3 DEF Deliver
  <2>2. CASE p \in boxes[d]
    BY <2>2 DEF InboxInv, Directed
  <2>3. CASE p \in Arriving(s, w, d, outs)
    <3>1. PICK o \in outs : /\ o.stage = d
                            /\ \E v \in Receivers(o) :
                                 p = [from |-> s, by |-> w, to |-> v, msg |-> o.msg]
      BY <2>3 DEF Arriving
    <3>2. o.to = Shard(d, KeyOf(d, o.msg))
      BY <3>1 DEF WellSharded
    <3>3. o.to \in Nat
      BY <3>2, ShardIsWorker
    <3>4. Receivers(o) = {o.to}
      BY <3>3 DEF Receivers, EveryWorker, Nobody
    <3> QED
      BY <3>1, <3>2, <3>4
  <2> QED
    BY <2>1, <2>2, <2>3
<1> QED
  BY <1>1, <1>2, <1>3 DEF InboxInv, Directed

(* A worker learns what belongs to it.                                     *)
LEMMA MemoryKeeps ==
    ASSUME MemoryInv, client' = client, NEW s, NEW w, NEW m,
           s \in Sharded => Belongs(s, w, m),
           memory' = [memory EXCEPT ![s][w] = m]
    PROVE  MemoryInv'
<1>1. Followed' = Followed
  BY DEF Followed
<1>2. memory' = [d \in Followed |-> [v \in WorkersOf(d) |-> memory'[d][v]]]
  BY DEF MemoryInv
<1>3. ASSUME NEW d \in Followed \cap Sharded, NEW v \in WorkersOf(d)
      PROVE  Belongs(d, v, memory'[d][v])
  <2>1. CASE d = s /\ v = w
    <3>1. memory'[d][v] = m
      BY <2>1 DEF MemoryInv
    <3> QED
      BY <2>1, <3>1
  <2>2. CASE ~(d = s /\ v = w)
    <3>1. memory'[d][v] = memory[d][v]
      BY <2>2 DEF MemoryInv
    <3> QED
      BY <3>1 DEF MemoryInv
  <2> QED
    BY <2>1, <2>2
<1> QED
  BY <1>1, <1>2, <1>3 DEF MemoryInv

(* Taking a packet: well sharded messages, and learning one's own keys.    *)
LEMMA HandleKeeps ==
    ASSUME HashIsNatural, KeyInv, NEW s, NEW w, NEW p, NEW learned, NEW outs,
           Handle(s, w, p, learned, outs), WellSharded(outs),
           s \in Sharded => Belongs(s, w, learned)
    PROVE  KeyInv'
<1> DEFINE boxes == [inbox EXCEPT ![s] = @ \ {p}]
<1>1. client' = client
  BY DEF Handle
<1>2. \A d \in Followed : boxes[d] \subseteq inbox[d]
  BY DEF KeyInv, InboxInv
<1>3. InboxInv'
  <2>1. Deliver(boxes, s, w, outs)
    BY DEF Handle
  <2> HIDE DEF boxes
  <2> QED
    BY <1>1, <1>2, <2>1, DeliverKeeps DEF KeyInv
<1>4. MemoryInv'
  BY <1>1, MemoryKeeps DEF KeyInv, Handle
<1> QED
  BY <1>1, <1>3, <1>4 DEF KeyInv

(* A callback: the same.                                                   *)
LEMMA PostProcessKeeps ==
    ASSUME HashIsNatural, KeyInv, NEW s, NEW w, NEW left, NEW outs,
           PostProcess(s, w, left, outs), WellSharded(outs),
           s \in Sharded => Belongs(s, w, left)
    PROVE  KeyInv'
<1>1. client' = client
  BY DEF PostProcess
<1>2. InboxInv'
  BY <1>1, DeliverKeeps DEF KeyInv, PostProcess
<1>3. MemoryInv'
  BY <1>1, MemoryKeeps DEF KeyInv, PostProcess
<1> QED
  BY <1>1, <1>2, <1>3 DEF KeyInv

(* Messages for stages of any worker are well sharded.                     *)
LEMMA Elsewhere ==
    ASSUME NEW outs, \A o \in outs : o.stage \notin Sharded
    PROVE  WellSharded(outs)
BY DEF WellSharded

(* Who takes a packet of a sharded stage is the worker of its key.         *)
LEMMA TakenByItsWorker ==
    ASSUME HashIsNatural, KeyInv, NEW s \in Followed \cap Sharded,
           NEW w, NEW p, Take(s, w, p)
    PROVE  Shard(s, KeyOf(s, p.msg)) = w
<1>1. p.to = Shard(s, KeyOf(s, p.msg))
  BY DEF KeyInv, InboxInv, Directed, Take
<1>2. p.to \in Nat
  BY <1>1, ShardIsWorker
<1> QED
  BY <1>1, <1>2 DEF Take, AnyWorker

(* What was held stays, and what is learned has the worker's key.          *)
LEMMA LearnKeeps ==
    ASSUME NEW s \in {"scather_gather_aggregator", "scather_gather_pair_joiner"},
           NEW w, NEW m, Belongs(s, w, m),
           NEW type, NEW pairs, \A x \in pairs : Shard(s, x[1]) = w
    PROVE  Belongs(s, w, Learn(m, type, pairs))
<1> DEFINE n == Learn(m, type, pairs)
<1>1. m = [fanout |-> m.fanout, fanin |-> m.fanin]
  BY DEF Belongs, Shape
<1>2. /\ n = [fanout |-> n.fanout, fanin |-> n.fanin]
      /\ n.fanout \subseteq m.fanout \cup pairs
      /\ n.fanin \subseteq m.fanin \cup pairs
  BY <1>1 DEF Learn
<1>3. \A x \in m.fanout \cup m.fanin : Shard(s, x[1]) = w
  BY DEF Belongs, KeysIn, Firsts
<1>4. \A x \in n.fanout \cup n.fanin : Shard(s, x[1]) = w
  BY <1>2, <1>3
<1> HIDE DEF n
<1>5. \A k \in KeysIn(s, n) : Shard(s, k) = w
  BY <1>4 DEF KeysIn, Firsts
<1>6. Shape(s, n)
  BY <1>2 DEF Shape
<1>7. Belongs(s, w, n)
  BY <1>5, <1>6 DEF Belongs
<1> QED
  BY <1>7 DEF n

(* An empty memory holds no key.                                           *)
LEMMA EmptyBelongs ==
    ASSUME NEW s \in Sharded, NEW w
    PROVE  Belongs(s, w, Empty(s))
BY DEF Sharded, Belongs, Shape, KeysIn, Firsts, PairsOf, Empty

-----------------------------------------------------------------------------
(* The steps of the date filter and of the stages of query 3 involve no    *)
(* sharded stage.                                                          *)
LEMMA FilterDateKeeps ==
    ASSUME HashIsNatural, KeyInv, NEW p, FilterDate(p)
    PROVE  KeyInv'
<1>1. WellSharded(DateFilterOutputs(p.msg))
  <2>1. \A o \in DateFilterOutputs(p.msg) : o.stage \notin Sharded
    BY DEF DateFilterOutputs, Out, Sharded
  <2> QED
    BY <2>1, Elsewhere
<1> QED
  BY <1>1, HandleKeeps DEF FilterDate, Pass, Sharded

(* The filter of query 4 sends to mappers, which are not sharded.          *)
LEMMA FilterUsdQ4Keeps ==
    ASSUME HashIsNatural, KeyInv, NEW p, FilterUsdQ4(p)
    PROVE  KeyInv'
<1> DEFINE outs == {Out(d, AnyWorker, p.msg) :
                      d \in IF InDollars(p.msg) THEN Outputs("usd_filter_q4") ELSE {}}
<1>1. WellSharded(outs)
  <2>1. \A o \in outs : o.stage \in Outputs("usd_filter_q4")
    BY DEF Out
  <2>2. \A o \in outs : o.stage \notin Sharded
    BY <2>1, WiringTable DEF Sharded
  <2> QED
    BY <2>2, Elsewhere
<1>2. Handle("usd_filter_q4", 0, p, {}, outs)
  BY DEF FilterUsdQ4, Pass
<1> HIDE DEF outs
<1> QED
  BY <1>1, <1>2, HandleKeeps DEF Sharded

(* Query 3.                                                                *)
LEMMA NextQ3Keeps ==
    ASSUME HashIsNatural, KeyInv, NextQ3
    PROVE  KeyInv'
<1>1. CASE \E p \in inbox["usd_filter_q4"] : FilterUsdQ4(p)
  BY <1>1, FilterUsdQ4Keeps
<1>2. ASSUME NEW p \in inbox["usd_filter_q3"], FilterUsdQ3(p)
      PROVE  KeyInv'
  <2> DEFINE outs == {Out(d, AnyWorker, p.msg) :
                        d \in IF InDollars(p.msg) THEN {"amount_filter_q3"} ELSE {}}
  <2>1. WellSharded(outs)
    BY Elsewhere DEF Out, Sharded
  <2>2. Handle("usd_filter_q3", 0, p, {}, outs)
    BY <1>2 DEF FilterUsdQ3, Pass
  <2> HIDE DEF outs
  <2> QED
    BY <2>1, <2>2, HandleKeeps DEF Sharded
<1>3. ASSUME NEW w, SendToJoiner(w)
      PROVE  KeyInv'
  <2> DEFINE outs == {Out("average_per_pay_format_joiner", AnyWorker, a) :
                        a \in AverageRecords(memory["average_per_pay_format_mapper"][w])}
  <2>1. WellSharded(outs)
    BY Elsewhere DEF Out, Sharded
  <2>2. PostProcess("average_per_pay_format_mapper", w, NoAverages, outs)
    BY <1>3 DEF SendToJoiner
  <2> HIDE DEF outs
  <2> QED
    BY <2>1, <2>2, PostProcessKeeps DEF Sharded
<1>4. ASSUME NEW w, NEW p, MapAverage(w, p)
      PROVE  KeyInv'
  <2>1. \E learned : Handle("average_per_pay_format_mapper", w, p, learned, {})
    BY <1>4 DEF MapAverage
  <2> QED
    BY <2>1, HandleKeeps, Elsewhere DEF Sharded
<1>5. ASSUME NEW w, SendAverages(w)
      PROVE  KeyInv'
  <2> DEFINE outs == {Out("amount_filter_q3", EveryWorker,
                          AverageRecords(memory["average_per_pay_format_joiner"][w]))}
  <2>1. WellSharded(outs)
    BY Elsewhere DEF Out, Sharded
  <2>2. PostProcess("average_per_pay_format_joiner", w, NoAverages, outs)
    BY <1>5 DEF SendAverages
  <2> HIDE DEF outs
  <2> QED
    BY <2>1, <2>2, PostProcessKeeps DEF Sharded
<1>6. ASSUME NEW w, NEW p, JoinAverage(w, p)
      PROVE  KeyInv'
  <2>1. \E learned : Handle("average_per_pay_format_joiner", w, p, learned, {})
    BY <1>6 DEF JoinAverage
  <2> QED
    BY <2>1, HandleKeeps, Elsewhere DEF Sharded
<1>7. \A rows, averages : WellSharded(Judged(rows, averages))
  BY Elsewhere DEF Judged, Out, Sharded
<1>8. ASSUME NEW w, JudgePending(w)
      PROVE  KeyInv'
  <2>1. \E left, rows, averages :
            PostProcess("amount_filter_q3", w, left, Judged(rows, averages))
    BY <1>8 DEF JudgePending
  <2> QED
    BY <2>1, <1>7, PostProcessKeeps DEF Sharded
<1>9. ASSUME NEW w, NEW p, TakeAverages(w, p) \/ FilterAmountQ3(w, p)
      PROVE  KeyInv'
  <2>1. \E learned, outs : /\ Handle("amount_filter_q3", w, p, learned, outs)
                           /\ WellSharded(outs)
    <3>1. WellSharded({})
      BY Elsewhere
    <3>2. CASE TakeAverages(w, p)
      BY <3>1, <3>2 DEF TakeAverages
    <3>3. CASE FilterAmountQ3(w, p)
      BY <3>1, <3>3, <1>7 DEF FilterAmountQ3
    <3> QED
      BY <1>9, <3>2, <3>3
  <2> QED
    BY <2>1, HandleKeeps DEF Sharded
<1> QED
  BY <1>1, <1>2, <1>3, <1>4, <1>5, <1>6, <1>8, <1>9 DEF NextQ3

-----------------------------------------------------------------------------
(* The mapper sends each fan to the aggregator of its account.             *)
LEMMA SendFansKeeps ==
    ASSUME HashIsNatural, KeyInv, NEW w, SendFans(w)
    PROVE  KeyInv'
<1> DEFINE d == "scather_gather_aggregator"
           edges == memory["scather_gather_mapper"][w]
           outs == Grouped("FANOUT", d, edges) \cup Grouped("FANIN", d, Turned(edges))
<1>1. \A type, pairs : WellSharded(Grouped(type, d, pairs))
  BY DEF WellSharded, Grouped, Out, KeyOf
<1>2. WellSharded(outs)
  BY <1>1 DEF WellSharded
<1>3. PostProcess("scather_gather_mapper", w, {}, outs)
  BY DEF SendFans
<1> HIDE DEF outs
<1> QED
  BY <1>2, <1>3, PostProcessKeeps DEF Sharded

(* An aggregator learns about the account of the fan.                      *)
LEMMA AggregateKeeps ==
    ASSUME HashIsNatural, KeyInv, "scather_gather_aggregator" \in Followed,
           NEW w \in WorkersOf("scather_gather_aggregator"), NEW p, Aggregate(w, p)
    PROVE  KeyInv'
<1> DEFINE s == "scather_gather_aggregator"
           pairs == {p.msg.key} \X p.msg.value
           learned == Learn(memory[s][w], p.msg.type, pairs)
<1>1. Handle(s, w, p, learned, {})
  BY DEF Aggregate
<1>2. Shard(s, p.msg.key) = w
  BY <1>1, TakenByItsWorker DEF Handle, KeyOf, Sharded
<1>3. \A x \in pairs : Shard(s, x[1]) = w
  BY <1>2
<1>4. Belongs(s, w, memory[s][w])
  BY DEF KeyInv, MemoryInv, Sharded
<1>5. Belongs(s, w, learned)
  <2> HIDE DEF pairs
  <2> QED
    BY <1>3, <1>4, LearnKeeps
<1> HIDE DEF learned
<1> QED
  BY <1>1, <1>5, HandleKeeps, Elsewhere

(* It sends each account in the middle to the pair joiner of that account. *)
LEMMA SendMiddlesKeeps ==
    ASSUME HashIsNatural, KeyInv, NEW w, SendMiddles(w)
    PROVE  KeyInv'
<1> DEFINE s == "scather_gather_aggregator"
           outs == Middles("FANOUT", AboveThreshold(memory[s][w].fanout))
                     \cup Middles("FANIN", AboveThreshold(memory[s][w].fanin))
<1>1. \A type, pairs : WellSharded(Middles(type, pairs))
  BY DEF WellSharded, Middles, Out, KeyOf
<1>2. WellSharded(outs)
  BY <1>1 DEF WellSharded
<1>3. PostProcess(s, w, Empty(s), outs)
  BY DEF SendMiddles
<1>4. Belongs(s, w, Empty(s))
  BY EmptyBelongs DEF Sharded
<1> HIDE DEF outs
<1> QED
  BY <1>2, <1>3, <1>4, PostProcessKeeps

(* A pair joiner learns about the account in the middle.                   *)
LEMMA JoinMiddleKeeps ==
    ASSUME HashIsNatural, KeyInv, "scather_gather_pair_joiner" \in Followed,
           NEW w \in WorkersOf("scather_gather_pair_joiner"), NEW p, JoinMiddle(w, p)
    PROVE  KeyInv'
<1> DEFINE s == "scather_gather_pair_joiner"
           pairs == {<<p.msg.value, p.msg.key>>}
           learned == Learn(memory[s][w], p.msg.type, pairs)
<1>1. Handle(s, w, p, learned, {})
  BY DEF JoinMiddle
<1>2. Shard(s, p.msg.value) = w
  BY <1>1, TakenByItsWorker DEF Handle, KeyOf, Sharded
<1>3. \A x \in pairs : Shard(s, x[1]) = w
  BY <1>2
<1>4. Belongs(s, w, memory[s][w])
  BY DEF KeyInv, MemoryInv, Sharded
<1>5. Belongs(s, w, learned)
  <2> HIDE DEF pairs
  <2> QED
    BY <1>3, <1>4, LearnKeeps
<1> HIDE DEF learned
<1> QED
  BY <1>1, <1>5, HandleKeeps, Elsewhere

(* It sends each pair to the joiner of the pair.                           *)
LEMMA SendPairsKeeps ==
    ASSUME HashIsNatural, KeyInv, NEW w, SendPairs(w)
    PROVE  KeyInv'
<1> DEFINE s == "scather_gather_pair_joiner"
           d == "scather_gather_joiner"
           m == memory[s][w]
           Through(mid) == {Out(d, Shard(d, pair), <<pair[1], pair[2], mid>>) :
                              pair \in Seconds(m.fanout, mid) \X Seconds(m.fanin, mid)}
           outs == UNION {Through(mid) : mid \in Firsts(m.fanout)}
<1>1. ASSUME NEW mid PROVE WellSharded(Through(mid))
  <2>1. ASSUME NEW o \in Through(mid)
        PROVE  o.to = Shard(o.stage, KeyOf(o.stage, o.msg))
    <3>1. PICK pair \in Seconds(m.fanout, mid) \X Seconds(m.fanin, mid) :
             o = Out(d, Shard(d, pair), <<pair[1], pair[2], mid>>)
      BY <2>1
    <3>2. pair = <<pair[1], pair[2]>>
      BY <3>1
    <3>3. KeyOf(d, o.msg) = pair
      BY <3>1, <3>2 DEF KeyOf, Out
    <3> QED
      BY <3>1, <3>3 DEF Out
  <2> QED
    BY <2>1 DEF WellSharded
<1> HIDE DEF Through
<1>2. WellSharded(outs)
  BY <1>1 DEF WellSharded
<1>3. PostProcess(s, w, Empty(s), outs)
  BY DEF SendPairs, Through
<1>4. Belongs(s, w, Empty(s))
  BY EmptyBelongs DEF Sharded
<1> HIDE DEF outs
<1> QED
  BY <1>2, <1>3, <1>4, PostProcessKeeps

(* A joiner learns about the pair.                                         *)
LEMMA JoinPairKeeps ==
    ASSUME HashIsNatural, KeyInv, "scather_gather_joiner" \in Followed,
           NEW w \in WorkersOf("scather_gather_joiner"), NEW p, JoinPair(w, p)
    PROVE  KeyInv'
<1> DEFINE s == "scather_gather_joiner"
           learned == memory[s][w] \cup {p.msg}
<1>1. Handle(s, w, p, learned, {})
  BY DEF JoinPair
<1>2. Shard(s, <<p.msg[1], p.msg[2]>>) = w
  BY <1>1, TakenByItsWorker DEF Handle, KeyOf, Sharded
<1>3. Belongs(s, w, memory[s][w])
  BY DEF KeyInv, MemoryInv, Sharded
<1>4. Belongs(s, w, learned)
  BY <1>2, <1>3 DEF Belongs, Shape, KeysIn, PairsOf
<1> HIDE DEF learned
<1> QED
  BY <1>1, <1>4, HandleKeeps, Elsewhere

(* Query 4.                                                                *)
LEMMA NextQ4Keeps ==
    ASSUME HashIsNatural, KeyInv, NextQ4
    PROVE  KeyInv'
<1>1. ASSUME NEW w, NEW p, MapEdge(w, p)
      PROVE  KeyInv'
  <2>1. \E learned : Handle("scather_gather_mapper", w, p, learned, {})
    BY <1>1 DEF MapEdge
  <2> QED
    BY <2>1, HandleKeeps, Elsewhere DEF Sharded
<1>2. ASSUME NEW w, SendScatterGather(w)
      PROVE  KeyInv'
  <2> DEFINE s == "scather_gather_joiner"
             m == memory[s][w]
             Met(pair) == {t \in m : <<t[1], t[2]>> = pair}
             pairs == {x \in PairsOf(m) :
                         x[1] # x[2] /\ Cardinality(Met(x)) >= Threshold}
             outs == {Out("gateway", AnyWorker, pair) : pair \in pairs}
  <2>1. WellSharded(outs)
    <3> HIDE DEF pairs
    <3> QED
      BY Elsewhere DEF Out, Sharded
  <2>2. PostProcess(s, w, {}, outs)
    BY <1>2 DEF SendScatterGather
  <2>3. Belongs(s, w, {})
    BY EmptyBelongs DEF Empty, Sharded
  <2> HIDE DEF outs
  <2> QED
    BY <2>1, <2>2, <2>3, PostProcessKeeps
<1> QED
  BY <1>1, <1>2, FollowedStages, FilterUsdQ4Keeps, SendFansKeeps, AggregateKeeps,
     SendMiddlesKeeps, JoinMiddleKeeps, SendPairsKeeps, JoinPairKeeps DEF NextQ4

-----------------------------------------------------------------------------
(* Query 5.  A transaction goes to the converter of its currency and day.  *)
LEMMA FilterPayFormatKeeps ==
    ASSUME HashIsNatural, KeyInv, NEW p, FilterPayFormat(p)
    PROVE  KeyInv'
<1>1. WellSharded(PayFormatOutputs(p.msg))
  BY DEF WellSharded, PayFormatOutputs, Out, KeyOf, ConversionShard, Sharded
<1> QED
  BY <1>1, HandleKeeps DEF FilterPayFormat, Pass, Sharded

(* What is converted goes on to any worker.                                *)
LEMMA ConvertedElsewhere == \A r, rates : WellSharded(Converted(r, rates))
BY Elsewhere DEF Converted, Out, Sharded

(* A rate that is learned, under the worker's key, belongs to it.          *)
LEMMA WithRateBelongs ==
    ASSUME NEW w, NEW m, Belongs("currency_converter", w, m), NEW rates,
           NEW key, Shard("currency_converter", key) = w
    PROVE  Belongs("currency_converter", w, WithRate(m, key, rates))
<1> DEFINE n == WithRate(m, key, rates)
<1>1. n = [cache |-> n.cache, asking |-> {}]
  BY DEF WithRate
<1>2. \A x \in n.cache : x \in m.cache \/ x.key = key
  BY DEF WithRate
<1>3. \A x \in m.cache : Shard("currency_converter", x.key) = w
  BY DEF Belongs, KeysIn
<1> HIDE DEF n
<1>4. Shape("currency_converter", n)
  BY <1>1 DEF Shape
<1>5. \A k \in KeysIn("currency_converter", n) : Shard("currency_converter", k) = w
  BY <1>1, <1>2, <1>3 DEF KeysIn
<1> QED
  BY <1>4, <1>5 DEF Belongs, n

(* A transaction whose rate is cached, or static.                          *)
LEMMA ConvertKeeps ==
    ASSUME HashIsNatural, KeyInv, "currency_converter" \in Followed,
           NEW w \in WorkersOf("currency_converter"), NEW p,
           ConvertCached(w, p) \/ ConvertStatic(w, p)
    PROVE  KeyInv'
<1> DEFINE s == "currency_converter"
           key == ConversionKey(p.msg)
<1>1. Belongs(s, w, memory[s][w])
  BY DEF KeyInv, MemoryInv, Sharded
<1>2. \E learned, rates :
         /\ Handle(s, w, p, learned, Converted(p.msg, rates))
         /\ Belongs(s, w, learned)
  <2>1. CASE ConvertCached(w, p)
    BY <1>1, <2>1 DEF ConvertCached, Converter
  <2>2. CASE ConvertStatic(w, p)
    <3>1. Handle(s, w, p, WithRate(memory[s][w], key, RateOf(key)),
                 Converted(p.msg, RateOf(key)))
      BY <2>2 DEF ConvertStatic, Converter
    <3>2. Shard(s, key) = w
      BY <3>1, TakenByItsWorker DEF Handle, KeyOf, Sharded
    <3> QED
      BY <1>1, <3>1, <3>2, WithRateBelongs
  <2> QED
    BY <2>1, <2>2
<1> QED
  BY <1>2, ConvertedElsewhere, HandleKeeps

(* A transaction whose rate is asked for is one of the worker's key.       *)
LEMMA AskKeeps ==
    ASSUME HashIsNatural, KeyInv, "currency_converter" \in Followed,
           NEW w \in WorkersOf("currency_converter"), NEW p, Ask(w, p)
    PROVE  KeyInv'
<1> DEFINE s == "currency_converter"
           m == memory[s][w]
           a == [packet |-> p, attempt |-> 1]
           n == [cache |-> m.cache, asking |-> {a}]
<1>1. client' = client
  BY DEF Ask
<1>2. Shard(s, ConversionKey(p.msg)) = w
  BY TakenByItsWorker DEF Ask, KeyOf, Sharded, Converter
<1>3. Belongs(s, w, m)
  BY DEF KeyInv, MemoryInv, Sharded
<1>4. Belongs(s, w, n)
  BY <1>2, <1>3 DEF Belongs, Shape, KeysIn
<1>5. m = [cache |-> m.cache, asking |-> m.asking]
  BY <1>3 DEF Belongs, Shape
<1>6. [m EXCEPT !.asking = {a}] = n
  BY <1>5
<1>7. memory' = [memory EXCEPT ![s][w] = n]
  BY <1>6 DEF Ask, Converter, KeyInv, MemoryInv
<1> HIDE DEF n
<1>8. MemoryInv'
  BY <1>1, <1>4, <1>7, MemoryKeeps DEF KeyInv
<1>9. InboxInv'
  BY <1>1 DEF KeyInv, InboxInv, Directed, Ask, Converter, Followed
<1> QED
  BY <1>1, <1>8, <1>9 DEF KeyInv

(* A request that ends, with a rate or none.                               *)
LEMMA FinishKeeps ==
    ASSUME HashIsNatural, KeyInv, "currency_converter" \in Followed,
           NEW w \in WorkersOf("currency_converter"), NEW rates,
           NEW a \in memory["currency_converter"][w].asking, Finish(w, a, rates)
    PROVE  KeyInv'
<1> DEFINE s == "currency_converter"
           key == ConversionKey(a.packet.msg)
           n == WithRate(memory[s][w], key, rates)
<1>1. client' = client
  BY DEF Finish
<1>2. Belongs(s, w, memory[s][w])
  BY DEF KeyInv, MemoryInv, Sharded
<1>3. Shard(s, key) = w
  BY <1>2 DEF Belongs, KeysIn
<1>4. Belongs(s, w, n)
  BY <1>2, <1>3, WithRateBelongs
<1>5. /\ Deliver(inbox, s, w, Converted(a.packet.msg, rates))
      /\ memory' = [memory EXCEPT ![s][w] = n]
  BY DEF Finish, Converter
<1> HIDE DEF n
<1>6. MemoryInv'
  BY <1>1, <1>4, <1>5, MemoryKeeps DEF KeyInv
<1>7. InboxInv'
  BY <1>1, <1>5, ConvertedElsewhere, DeliverKeeps DEF KeyInv
<1> QED
  BY <1>1, <1>6, <1>7 DEF KeyInv

(* Another attempt is about the same packet; the last one ends the request. *)
LEMMA AskFailsKeeps ==
    ASSUME HashIsNatural, KeyInv, "currency_converter" \in Followed,
           NEW w \in WorkersOf("currency_converter"), AskFails(w)
    PROVE  KeyInv'
<1> DEFINE s == "currency_converter"
           m == memory[s][w]
<1>1. PICK a \in m.asking :
         IF a.attempt < Attempts
           THEN /\ memory' = [memory EXCEPT ![s][w].asking = {[a EXCEPT !.attempt = @ + 1]}]
                /\ UNCHANGED <<client, inbox, processed, sent, closing, results>>
           ELSE Finish(w, a, {})
  BY DEF AskFails, Converter
<1>2. CASE a.attempt < Attempts
  <2> DEFINE b == [a EXCEPT !.attempt = @ + 1]
             n == [cache |-> m.cache, asking |-> {b}]
  <2>1. client' = client /\ inbox' = inbox
    BY <1>1, <1>2
  <2>2. Belongs(s, w, m)
    BY DEF KeyInv, MemoryInv, Sharded
  <2>3. a = [packet |-> a.packet, attempt |-> a.attempt]
    BY <1>1, <2>2 DEF Belongs, Shape
  <2>4. b = [packet |-> b.packet, attempt |-> b.attempt] /\ b.packet = a.packet
    BY <2>3
  <2>5. Shard(s, ConversionKey(a.packet.msg)) = w
    BY <1>1, <2>2 DEF Belongs, KeysIn
  <2>6. memory' = [memory EXCEPT ![s][w].asking = {b}]
    BY <1>1, <1>2
  <2> HIDE DEF b
  <2>7. Belongs(s, w, n)
    BY <2>2, <2>4, <2>5 DEF Belongs, Shape, KeysIn
  <2>8. m = [cache |-> m.cache, asking |-> m.asking]
    BY <2>2 DEF Belongs, Shape
  <2>9. [m EXCEPT !.asking = {b}] = n
    BY <2>8
  <2>10. memory' = [memory EXCEPT ![s][w] = n]
    BY <2>6, <2>9 DEF KeyInv, MemoryInv
  <2> HIDE DEF n
  <2>11. MemoryInv'
    BY <2>1, <2>7, <2>10, MemoryKeeps DEF KeyInv
  <2>12. InboxInv'
    BY <2>1 DEF KeyInv, InboxInv, Followed
  <2> QED
    BY <2>1, <2>11, <2>12 DEF KeyInv
<1>3. CASE ~(a.attempt < Attempts)
  BY <1>1, <1>3, FinishKeeps
<1> QED
  BY <1>2, <1>3

(* Query 5.                                                                *)
LEMMA NextQ5Keeps ==
    ASSUME HashIsNatural, KeyInv, NextQ5, \A s : SendEofs(s) => KeyInv'
    PROVE  KeyInv'
<1>1. ASSUME NEW p, FilterAmountQ5(p)
      PROVE  KeyInv'
  <2> DEFINE outs == {Out("gateway", Nobody, p.msg) :
                        f \in {x \in {p.from} : Small(p.msg.amount_paid, Dollar(x))}}
  <2>1. WellSharded(outs)
    BY Elsewhere DEF Out, Sharded
  <2>2. Handle("amount_filter_q5", 0, p, {}, outs)
    BY <1>1 DEF FilterAmountQ5, Pass
  <2> HIDE DEF outs
  <2> QED
    BY <2>1, <2>2, HandleKeeps DEF Sharded
<1>2. ASSUME NEW w \in WorkersOf("currency_converter"),
             "currency_converter" \in Followed, AskAnswers(w)
      PROVE  KeyInv'
  BY <1>2, FinishKeeps DEF AskAnswers, Converter
<1>3. CASE AnnounceCount
  BY <1>3 DEF AnnounceCount
<1> QED
  BY <1>1, <1>2, <1>3, FollowedStages, FilterPayFormatKeeps, ConvertKeeps, AskKeeps,
     AskFailsKeeps DEF NextQ5, Converter

-----------------------------------------------------------------------------
(* An EOF goes past the packets, and no worker learns from it.             *)
LEMMA SendEofsKeeps ==
    ASSUME KeyInv, NEW s, SendEofs(s)
    PROVE  KeyInv'
BY DEF KeyInv, InboxInv, MemoryInv, SendEofs, Followed

(* At first the packets are those of the date filter, and nothing is held. *)
LEMMA InitKeeps ==
    ASSUME Init
    PROVE  KeyInv
<1>1. InboxInv
  BY DEF Init, InboxInv, Directed, Sharded
<1>2. MemoryInv
  <2>1. memory = [s \in Followed |-> [w \in WorkersOf(s) |-> Empty(s)]]
    BY DEF Init
  <2> QED
    BY <2>1, EmptyBelongs DEF MemoryInv
<1> QED
  BY <1>1, <1>2 DEF Init, KeyInv

(* A key that two workers hold is the key of both.                         *)
LEMMA KeysOfOneWorker ==
    ASSUME KeyInv
    PROVE  KeysNotSplit
<1> SUFFICES ASSUME NEW s \in Followed \cap Sharded,
                    NEW v \in WorkersOf(s), NEW w \in WorkersOf(s),
                    NEW x, x \in KeysOf(s, v), x \in KeysOf(s, w)
             PROVE  v = w
  BY DEF KeysNotSplit, Sharded, Converter
<1>1. \A u \in WorkersOf(s) : \A k \in KeysIn(s, memory[s][u]) : Shard(s, k) = u
  BY DEF KeyInv, MemoryInv, Belongs
<1>2. CASE s = "scather_gather_aggregator"
  <2>1. ASSUME NEW u, x \in KeysOf(s, u)
        PROVE  x[2] \in KeysIn(s, memory[s][u])
    <3> DEFINE m == memory[s][u]
    <3>1. \/ x \in {"FANOUT"} \X Firsts(m.fanout)
          \/ x \in {"FANIN"} \X Firsts(m.fanin)
      BY <1>2, <2>1 DEF KeysOf, Converter
    <3>2. x[2] \in Firsts(m.fanout) \cup Firsts(m.fanin)
      BY <3>1
    <3> QED
      BY <1>2, <3>2 DEF KeysIn
  <2> QED
    BY <1>1, <2>1
<1>3. CASE s # "scather_gather_aggregator"
  <2>1. \A u : KeysOf(s, u) = KeysIn(s, memory[s][u])
    BY <1>3 DEF KeysOf, KeysIn, Sharded, Converter
  <2> QED
    BY <1>1, <2>1
<1> QED
  BY <1>2, <1>3

(* Every step keeps packets and memories with the worker of their key.     *)
LEMMA NextKeeps ==
    ASSUME HashIsNatural, KeyInv, [Next]_vars
    PROVE  KeyInv'
<1>1. CASE Shared
  BY <1>1, FilterDateKeeps, SendEofsKeeps DEF Shared, Announce
<1>2. CASE NextQ3
  BY <1>2, NextQ3Keeps
<1>3. CASE NextQ4
  BY <1>3, NextQ4Keeps
<1>4. CASE NextQ5
  BY <1>4, NextQ5Keeps, SendEofsKeeps
<1>5. CASE UNCHANGED vars \/ \E s \in Followed : BeginHastily(s)
  <2>1. UNCHANGED <<client, inbox, memory>>
    BY <1>5 DEF vars, BeginHastily
  <2> QED
    BY <2>1 DEF KeyInv, InboxInv, MemoryInv, Followed
<1> QED
  BY <1>1, <1>2, <1>3, <1>4, <1>5 DEF Next, Work

(* What has to be counted together is held by one worker, whatever the     *)
(* clients send, however many workers there are and whatever is hashed to  *)
(* what: Aggregate, JoinMiddle, JoinPair and the cache of the converters.  *)
THEOREM KeysStayTogether == HashIsNatural /\ Spec => []KeysNotSplit
<1> SUFFICES ASSUME HashIsNatural
             PROVE  Spec => []KeysNotSplit
  OBVIOUS
<1>1. Init => KeyInv
  BY InitKeeps
<1>2. KeyInv /\ [Next]_vars => KeyInv'
  BY NextKeeps
<1>3. KeyInv => KeysNotSplit
  BY KeysOfOneWorker
<1> QED
  BY <1>1, <1>2, <1>3, PTL DEF Spec

-----------------------------------------------------------------------------
(***************************************************************************)
(* Packets and counters.  A stage has at most as many packets, counted,    *)
(* waiting and in hand, as the stages before it have counted for it.       *)
(***************************************************************************)
\* The workers whose packet is neither waiting nor counted: they ask for a rate.
Busy(s) == {w \in WorkersOf(s) : s = Converter /\ ~Idle(w)}

OfFlux(box, f) == {p \in box : p.from = f}

\* An auxiliary packet is counted once and reaches every worker.
Copies(s, f) == IF f \in Auxiliary(s) THEN Amount[s] ELSE 1

Supply(s, f) ==
    IF f = "gateway" THEN Cardinality(client.rows) ELSE sent[f][s] * Copies(s, f)

Load(s, f) == processed[s][f] + Cardinality(OfFlux(inbox[s], f)) + Cardinality(Busy(s))

CountersInv ==
    /\ processed = [s \in Followed |-> [f \in Inputs(s) |-> processed[s][f]]]
    /\ sent = [s \in Followed |-> [d \in Outputs(s) |-> sent[s][d]]]
    /\ eofs = [s \in Followed |-> [f \in Inputs(s) |-> eofs[s][f]]]
    /\ closed = [s \in Followed |-> closed[s]]
    /\ announced \subseteq Followed
    /\ \A s \in Followed : \A f \in Inputs(s) : processed[s][f] \in Nat
    /\ \A s \in Followed : \A d \in Outputs(s) : sent[s][d] \in Nat

\* Fans are finite, and a packet comes from an input of the stage.
PacketsInv ==
    \A s \in Followed :
        /\ IsFiniteSet(inbox[s])
        /\ \A p \in inbox[s] :
              /\ p.from \in Inputs(s)
              /\ s = "scather_gather_aggregator" => IsFiniteSet(p.msg.value)

\* What a worker holds, as far as it sends it.
Holds(s, m) ==
    CASE s = "amount_filter_q3" ->
            /\ m = [averages |-> m.averages, pending |-> m.pending, ready |-> m.ready]
            /\ IsFiniteSet(m.pending)
      [] s \in {"scather_gather_mapper", "scather_gather_joiner"} -> IsFiniteSet(m)
      [] s \in {"scather_gather_aggregator", "scather_gather_pair_joiner"} ->
            IsFiniteSet(m.fanout) /\ IsFiniteSet(m.fanin)
      [] s = "currency_converter" ->
            IsFiniteSet(m.cache) /\ \A a \in m.asking : a.packet.from \in Inputs(s)
      [] OTHER -> TRUE

HoldInv == \A s \in Followed : \A w \in WorkersOf(s) : Holds(s, memory[s][w])

FlowBounded == \A s \in Followed : \A f \in Inputs(s) : Load(s, f) <= Supply(s, f)

\* The total of an EOF is what its stage has sent, which no longer changes.
EofInv ==
    \A s \in Followed : \A f \in Inputs(s) :
        \/ eofs[s][f] = NoEof
        \/ f = "gateway" /\ eofs[s][f] = Cardinality(client.rows)
        \/ f \in announced /\ eofs[s][f] = sent[f][s]

\* The EOF leaves after the callbacks.
CallbackInv == \A s \in announced \cap Callback : closed[s] = WorkersOf(s)

\* What ClosedAfterAll says while no stage is hasty.
ClosedWhole ==
    \A s \in Followed : s \in announced \/ closed[s] # {} =>
        /\ inbox[s] = {}
        /\ s = Converter => \A w \in WorkersOf(s) : Idle(w)
        /\ Inputs(s) \ {"gateway"} \subseteq announced

\* It holds as long as no stage is hasty.
FlowInv ==
    /\ KeyInv
    /\ CountersInv
    /\ PacketsInv
    /\ HoldInv
    /\ FlowBounded
    /\ EofInv
    /\ CallbackInv
    /\ ClosedWhole

-----------------------------------------------------------------------------
(* The stages of each query.                                               *)
LEMMA BranchTable ==
    /\ client.query = 3 => Followed =
         {"date_filter", "usd_filter_q3", "usd_filter_q4", "amount_filter_q3",
          "average_per_pay_format_mapper", "average_per_pay_format_joiner"}
    /\ client.query = 4 => Followed =
         {"date_filter", "usd_filter_q4", "scather_gather_mapper", "scather_gather_aggregator",
          "scather_gather_pair_joiner", "scather_gather_joiner"}
    /\ client.query = 5 => Followed =
         {"date_filter", "pay_format_filter", "currency_converter", "amount_filter_q5"}
BY DEF Followed, Branch

(* A followed stage is a stage, and its inputs are followed or the gateway.*)
LEMMA FollowedInputs ==
    ASSUME client \in Clients, NEW s \in Followed
    PROVE  /\ s \in Stages /\ s # "gateway"
           /\ \A f \in Inputs(s) : f = "gateway" \/ f \in Followed
           /\ "date_filter" \in Followed
<1>1. client.query \in {3, 4, 5}
  BY QueryAssumption
<1> QED
  BY <1>1, BranchTable, StageNames, WiringTable

(* Only the filter of query 3 has an auxiliary input.                      *)
LEMMA AuxiliaryTable ==
    ASSUME NEW s \in Stages
    PROVE  Auxiliary(s) = IF s = "amount_filter_q3" THEN {"average_per_pay_format_joiner"} ELSE {}
<1>1. /\ Auxiliary("amount_filter_q3") = {"average_per_pay_format_joiner"}
      /\ Auxiliary("usd_filter_q1q2") = {}
      /\ Auxiliary("amount_filter_q1") = {}
      /\ Auxiliary("data_per_bank_redirector") = {}
      /\ Auxiliary("bank_filter") = {}
      /\ Auxiliary("map_max_amount_per_bank") = {}
      /\ Auxiliary("join_max_amount_per_bank") = {}
      /\ Auxiliary("date_filter") = {}
      /\ Auxiliary("usd_filter_q3") = {}
      /\ Auxiliary("usd_filter_q4") = {}
      /\ Auxiliary("pay_format_filter") = {}
      /\ Auxiliary("average_per_pay_format_mapper") = {}
      /\ Auxiliary("average_per_pay_format_joiner") = {}
      /\ Auxiliary("currency_converter") = {}
      /\ Auxiliary("amount_filter_q5") = {}
      /\ Auxiliary("scather_gather_mapper") = {}
      /\ Auxiliary("scather_gather_aggregator") = {}
      /\ Auxiliary("scather_gather_pair_joiner") = {}
      /\ Auxiliary("scather_gather_joiner") = {}
  BY DEF Deployment, Config, UsdFilterQ1Q2Config, AmountFilterQ1Config,
         RedirectorConfig, BankFilterConfig, MapMaxConfig, JoinMaxConfig,
         DateFilterConfig, UsdFilterQ3Config, UsdFilterQ4Config,
         PayFormatFilterConfig, AverageMapperConfig, AverageJoinerConfig,
         AmountFilterQ3Config, CurrencyConverterConfig, AmountFilterQ5Config,
         MapperConfig, AggregatorConfig, PairJoinerConfig, JoinerConfig, Auxiliary
<1> QED
  BY <1>1, StageNames

(* Every input is waited for.                                              *)
LEMMA InputsFinite ==
    ASSUME NEW s \in Stages
    PROVE  IsFiniteSet(Inputs(s)) /\ Deployment[s].eofs = Cardinality(Inputs(s))
<1>1. \A a, b : IsFiniteSet({a}) /\ IsFiniteSet({a, b})
  <2> TAKE a, b
  <2>1. IsFiniteSet({a}) /\ {a, b} = {a} \cup {b}
    BY FS_Singleton
  <2> QED
    BY <2>1, FS_AddElement
<1>2. \/ \E a \in Stages \cup {"gateway"} : Inputs(s) = {a}
      \/ Inputs(s) = {"bank_filter", "map_max_amount_per_bank"}
      \/ Inputs(s) = {"usd_filter_q3", "average_per_pay_format_joiner"}
      \/ Inputs(s) = {"pay_format_filter", "currency_converter"}
  BY StageNames, WiringTable
<1> QED
  BY <1>1, <1>2, EofAssumption

(* Stages have workers.                                                    *)
LEMMA AmountPositive ==
    ASSUME NEW s \in Stages
    PROVE  /\ Amount[s] \in Nat \ {0} /\ 0 \in WorkersOf(s)
           /\ IsFiniteSet(WorkersOf(s)) /\ Cardinality(WorkersOf(s)) = Amount[s]
<1>1. Amount[s] \in Nat \ {0}
  BY DeploymentAssumption
<1>2. ASSUME NEW n \in Nat \ {0}
      PROVE  IsFiniteSet(0 .. n - 1) /\ Cardinality(0 .. n - 1) = n
  <2>1. 0 \in Int /\ n - 1 \in Int /\ ~(0 > n - 1)
    OBVIOUS
  <2>2. /\ IsFiniteSet(0 .. n - 1)
        /\ Cardinality(0 .. n - 1) = IF 0 > n - 1 THEN 0 ELSE (n - 1) - 0 + 1
    BY <2>1, FS_Interval
  <2> QED
    BY <2>2
<1> QED
  BY <1>1, <1>2 DEF WorkersOf

-----------------------------------------------------------------------------
(* The image of a finite set is finite and not larger.                     *)
LEMMA ImageFinite ==
    ASSUME NEW S, IsFiniteSet(S), NEW T, NEW g, \A y \in T : \E x \in S : y = g[x]
    PROVE  IsFiniteSet(T) /\ Cardinality(T) <= Cardinality(S)
<1> DEFINE U == {x \in S : g[x] \in T}
           h == [x \in U |-> g[x]]
<1>1. IsFiniteSet(U) /\ Cardinality(U) <= Cardinality(S)
  <2>1. U \in SUBSET S
    OBVIOUS
  <2> HIDE DEF U
  <2> QED
    BY <2>1, FS_Subset
<1>2. h \in Surjection(U, T)
  BY DEF Surjection
<1>3. IsFiniteSet(T) /\ Cardinality(T) <= Cardinality(U)
  <2> HIDE DEF U, h
  <2> QED
    BY <1>1, <1>2, FS_Surjection
<1>4. Cardinality(T) \in Nat /\ Cardinality(U) \in Nat /\ Cardinality(S) \in Nat
  BY <1>1, <1>3, FS_CardinalityType
<1> HIDE DEF U, h
<1> QED
  BY <1>1, <1>3, <1>4

(* Messages that a stage may send: finitely many, to its outputs, and only *)
(* the averages to every worker.                                           *)
SoundOuts(s, outs) ==
    /\ IsFiniteSet(outs)
    /\ \A o \in outs :
          /\ o.stage \in Outputs(s)
          /\ o.stage = "scather_gather_aggregator" => IsFiniteSet(o.msg.value)
    /\ \/ \A o \in outs : o.to # EveryWorker
       \/ /\ s = "average_per_pay_format_joiner"
          /\ \E m : outs = {Out("amount_filter_q3", EveryWorker, m)}

For(d, outs) == {o \in outs : o.stage = d}

(* What arrives is what is sent, a copy for each worker at most.           *)
LEMMA Arrivals ==
    ASSUME NEW s \in Stages, NEW d \in Stages, NEW w, NEW outs, SoundOuts(s, outs)
    PROVE  /\ IsFiniteSet(For(d, outs)) /\ Cardinality(For(d, outs)) \in Nat
           /\ IsFiniteSet(Arriving(s, w, d, outs))
           /\ Cardinality(Arriving(s, w, d, outs)) \in Nat
           /\ Cardinality(Arriving(s, w, d, outs)) <= Cardinality(For(d, outs)) * Copies(d, s)
<1> DEFINE S == For(d, outs)
           A == Arriving(s, w, d, outs)
<1>1. IsFiniteSet(S) /\ Cardinality(S) \in Nat
  <2>1. S \in SUBSET outs
    BY DEF For
  <2> QED
    BY <2>1, FS_Subset, FS_CardinalityType DEF SoundOuts
<1>2. Amount[d] \in Nat \ {0} /\ IsFiniteSet(WorkersOf(d)) /\ Cardinality(WorkersOf(d)) = Amount[d]
  BY AmountPositive
<1>3. CASE \A o \in outs : o.to # EveryWorker
  <2> DEFINE g == [o \in S |-> [from |-> s, by |-> w, to |-> o.to, msg |-> o.msg]]
  <2>1. ASSUME NEW p \in A PROVE \E o \in S : p = g[o]
    <3>1. PICK o \in S : \E v \in Receivers(o) : p = [from |-> s, by |-> w, to |-> v, msg |-> o.msg]
      BY <2>1 DEF Arriving, For
    <3>2. Receivers(o) \subseteq {o.to}
      BY <1>3 DEF Receivers, For
    <3> QED
      BY <3>1, <3>2
  <2> HIDE DEF g, A, S
  <2>2. IsFiniteSet(A) /\ Cardinality(A) <= Cardinality(S)
    BY <1>1, <2>1, ImageFinite
  <2>3. Cardinality(A) \in Nat /\ Copies(d, s) \in Nat \ {0}
    BY <1>2, <2>2, FS_CardinalityType DEF Copies
  <2>4. \A n \in Nat, c \in Nat \ {0} : n <= n * c
    OBVIOUS
  <2>5. Cardinality(S) <= Cardinality(S) * Copies(d, s)
    BY <1>1, <2>3, <2>4
  <2>6. Cardinality(S) * Copies(d, s) \in Nat
    BY <1>1, <2>3
  <2> QED
    BY <1>1, <2>2, <2>3, <2>5, <2>6 DEF A, S
<1>4. ASSUME s = "average_per_pay_format_joiner",
             NEW m, outs = {Out("amount_filter_q3", EveryWorker, m)}
      PROVE  IsFiniteSet(A) /\ Cardinality(A) \in Nat /\ Cardinality(A) <= Cardinality(S) * Copies(d, s)
  <2>1. CASE d = "amount_filter_q3"
    <3>1. S = outs /\ Cardinality(S) = 1
      <4>1. S = outs
        BY <1>4, <2>1 DEF For, Out
      <4> QED
        BY <1>4, <4>1, FS_Singleton
    <3>2. Copies(d, s) = Amount[d]
      BY <1>4, <2>1, AuxiliaryTable DEF Copies
    <3> DEFINE g == [v \in WorkersOf(d) |-> [from |-> s, by |-> w, to |-> v, msg |-> m]]
    <3>3. ASSUME NEW p \in A PROVE \E v \in WorkersOf(d) : p = g[v]
      <4>1. PICK o \in S : \E v \in Receivers(o) : p = [from |-> s, by |-> w, to |-> v, msg |-> o.msg]
        BY <3>3 DEF Arriving, For
      <4>2. o.msg = m /\ Receivers(o) = WorkersOf(d)
        BY <1>4, <2>1, <3>1, <4>1 DEF Out, Receivers
      <4> QED
        BY <4>1, <4>2
    <3> HIDE DEF g, A, S
    <3>4. IsFiniteSet(A) /\ Cardinality(A) <= Cardinality(WorkersOf(d))
      BY <1>2, <3>3, ImageFinite
    <3>5. Cardinality(A) \in Nat
      BY <3>4, FS_CardinalityType
    <3> QED
      BY <1>2, <3>1, <3>2, <3>4, <3>5
  <2>2. CASE d # "amount_filter_q3"
    <3>1. S = {} /\ A = {}
      BY <1>4, <2>2 DEF For, Out, Arriving
    <3>2. Cardinality(S) = 0 /\ IsFiniteSet(A) /\ Cardinality(A) = 0
      BY <3>1, FS_EmptySet
    <3>3. Copies(d, s) \in Nat
      BY <1>2 DEF Copies
    <3> HIDE DEF S, A
    <3> QED
      BY <3>2, <3>3
  <2> QED
    BY <2>1, <2>2
<1> QED
  BY <1>1, <1>3, <1>4 DEF SoundOuts

(* It says where it comes from, and comes to outputs only.                 *)
LEMMA ArrivingFrom ==
    ASSUME NEW s, NEW d, NEW w, NEW outs, SoundOuts(s, outs)
    PROVE  /\ \A p \in Arriving(s, w, d, outs) :
                 /\ p.from = s
                 /\ d = "scather_gather_aggregator" => IsFiniteSet(p.msg.value)
           /\ d \notin Outputs(s) => Arriving(s, w, d, outs) = {}
BY DEF SoundOuts, Arriving

-----------------------------------------------------------------------------
(* The units of a finite table of counters are a finite set.               *)
LEMMA UnitsFinite ==
    ASSUME NEW S, IsFiniteSet(S), NEW g \in [S -> Int]
    PROVE  IsFiniteSet(Units(g))
<1> DEFINE Column == [x \in S |-> {x} \X (1 .. g[x])]
           Columns == {Column[x] : x \in S}
<1>1. ASSUME NEW x \in S PROVE IsFiniteSet(Column[x])
  <2>1. IsFiniteSet(1 .. g[x])
    <3>1. g[x] \in Int
      OBVIOUS
    <3> QED
      BY <3>1, FS_Interval
  <2>2. IsFiniteSet({x} \X (1 .. g[x]))
    BY <2>1, FS_Singleton, FS_Product
  <2> QED
    BY <2>2
<1>2. IsFiniteSet(Columns)
  <2>1. \A C \in Columns : \E x \in S : C = Column[x]
    OBVIOUS
  <2> HIDE DEF Column, Columns
  <2> QED
    BY <2>1, ImageFinite
<1>3. Units(g) = UNION Columns
  BY DEF Units
<1>4. \A C \in Columns : IsFiniteSet(C)
  BY <1>1
<1> HIDE DEF Columns
<1> QED
  BY <1>2, <1>3, <1>4, FS_UNION

(* Counters that are bounded one by one and have the same sum are equal.   *)
LEMMA TallyEqual ==
    ASSUME NEW S, IsFiniteSet(S), NEW g \in [S -> Nat], NEW h \in [S -> Nat],
           \A x \in S : g[x] <= h[x], Tally(g) = Tally(h), NEW x \in S
    PROVE  g[x] = h[x]
<1>1. ASSUME NEW u, NEW v \in {g, h}
      PROVE  u \in Units(v) <=> \E y \in S : \E n \in 1 .. v[y] : u = <<y, n>>
  BY DEF Units
<1>2. \A y \in S, n \in Int : n \in 1 .. g[y] => n \in 1 .. h[y]
  OBVIOUS
<1>3. Units(g) \subseteq Units(h)
  BY <1>1, <1>2
<1>4. IsFiniteSet(Units(h))
  BY UnitsFinite
<1>5. Units(g) = Units(h)
  BY <1>3, <1>4, FS_Subset DEF Tally
<1>6. SUFFICES ASSUME g[x] < h[x] PROVE FALSE
  OBVIOUS
<1>7. h[x] \in 1 .. h[x] /\ h[x] \notin 1 .. g[x]
  BY <1>6
<1>8. <<x, h[x]>> \in Units(h)
  BY <1>1, <1>7
<1>9. <<x, h[x]>> \notin Units(g)
  <2>1. ASSUME NEW y \in S, NEW n \in 1 .. g[y], <<x, h[x]>> = <<y, n>> PROVE FALSE
    BY <1>7, <2>1
  <2> QED
    BY <1>1, <2>1
<1> QED
  BY <1>5, <1>8, <1>9

(* The parts of a load are natural numbers.                                *)
LEMMA LoadTypes ==
    ASSUME CountersInv, PacketsInv, client \in Clients, NEW s \in Followed, NEW f \in Inputs(s)
    PROVE  /\ processed[s][f] \in Nat
           /\ IsFiniteSet(OfFlux(inbox[s], f)) /\ Cardinality(OfFlux(inbox[s], f)) \in Nat
           /\ IsFiniteSet(Busy(s)) /\ Cardinality(Busy(s)) \in Nat
           /\ Copies(s, f) \in Nat /\ Supply(s, f) \in Nat /\ Load(s, f) \in Nat
           /\ f # "gateway" => f \in Followed /\ s \in Outputs(f) /\ sent[f][s] \in Nat
<1>1. s \in Stages /\ (f = "gateway" \/ f \in Followed)
  BY FollowedInputs
<1>2. processed[s][f] \in Nat
  BY DEF CountersInv
<1>3. IsFiniteSet(OfFlux(inbox[s], f)) /\ Cardinality(OfFlux(inbox[s], f)) \in Nat
  <2>1. OfFlux(inbox[s], f) \in SUBSET inbox[s] /\ IsFiniteSet(inbox[s])
    BY DEF OfFlux, PacketsInv
  <2> QED
    BY <2>1, FS_Subset, FS_CardinalityType
<1>4. IsFiniteSet(Busy(s)) /\ Cardinality(Busy(s)) \in Nat
  <2>1. Busy(s) \in SUBSET WorkersOf(s) /\ IsFiniteSet(WorkersOf(s))
    BY <1>1, AmountPositive DEF Busy
  <2> QED
    BY <2>1, FS_Subset, FS_CardinalityType
<1>5. Copies(s, f) \in Nat
  BY <1>1, AmountPositive DEF Copies
<1>6. f # "gateway" => f \in Followed /\ s \in Outputs(f) /\ sent[f][s] \in Nat
  <2> SUFFICES ASSUME f # "gateway"
               PROVE  f \in Followed /\ s \in Outputs(f) /\ sent[f][s] \in Nat
    OBVIOUS
  <2>1. f \in Followed /\ f \in Stages
    BY <1>1, FollowedInputs
  <2>2. s \in Outputs(f)
    BY <1>1, <2>1, OutputsAreInputs
  <2> QED
    BY <2>1, <2>2 DEF CountersInv
<1>7. Cardinality(client.rows) \in Nat
  BY QueryAssumption, FS_CardinalityType
<1>8. Supply(s, f) \in Nat
  BY <1>5, <1>6, <1>7 DEF Supply
<1>9. Load(s, f) \in Nat
  BY <1>2, <1>3, <1>4 DEF Load
<1> QED
  BY <1>2, <1>3, <1>4, <1>5, <1>6, <1>8, <1>9

(* A stage that has all its EOFs knows the total of every input.            *)
LEMMA AllEofsKnown ==
    ASSUME NEW s \in Stages, HasAllEofs(s)
    PROVE  \A f \in Inputs(s) : eofs[s][f] # NoEof
<1> DEFINE known == {f \in Inputs(s) : eofs[s][f] # NoEof}
<1>1. known \in SUBSET Inputs(s) /\ Cardinality(known) = Cardinality(Inputs(s))
  BY InputsFinite DEF HasAllEofs
<1>2. IsFiniteSet(Inputs(s))
  BY InputsFinite
<1> HIDE DEF known
<1>3. known = Inputs(s)
  BY <1>1, <1>2, FS_Subset
<1> QED
  BY <1>3 DEF known

(* A stage that has decided, and is not hasty, has nothing left, in its     *)
(* queues or in hand, and every stage before it has said its total.        *)
LEMMA DecidedMeans ==
    ASSUME FlowInv, hasty = {}, NEW s, Decided(s)
    PROVE  inbox[s] = {} /\ Busy(s) = {} /\ Inputs(s) \ {"gateway"} \subseteq announced
<1>1. s \in Followed /\ client \in Clients /\ CountersInv /\ PacketsInv
  BY DEF Decided, FlowInv, KeyInv
<1>2. s \in Stages
  BY <1>1, FollowedInputs
<1>3. \A f \in Inputs(s) : eofs[s][f] # NoEof
  BY <1>2, AllEofsKnown DEF Decided
<1>4. \A f \in Inputs(s) : IF f = "gateway" THEN eofs[s][f] = Cardinality(client.rows)
                           ELSE f \in announced /\ eofs[s][f] = sent[f][s]
  <2>1. "gateway" \notin announced
    BY <1>1, FollowedInputs DEF CountersInv
  <2> QED
    BY <1>1, <1>3, <2>1 DEF FlowInv, EofInv
<1>5. Inputs(s) \ {"gateway"} \subseteq announced
  BY <1>4
<1>6. CASE ~(Amount[s] > 1)
  <2>1. NothingBefore(s)
    BY <1>6 DEF Decided
  <2>2. inbox[s] = {}
    BY <2>1 DEF NothingBefore
  <2>3. Busy(s) = {}
    BY <2>1 DEF NothingBefore, Busy, Idle, Converter
  <2> QED
    BY <1>5, <2>2, <2>3
<1>7. CASE Amount[s] > 1
  <2>1. CountersAgree(s)
    BY <1>7 DEF Decided
  <2>2. \A f \in Inputs(s) : processed[s][f] <= Supply(s, f)
    <3> SUFFICES ASSUME NEW f \in Inputs(s) PROVE processed[s][f] <= Supply(s, f)
      OBVIOUS
    <3>1. Load(s, f) <= Supply(s, f)
      BY <1>1 DEF FlowInv, FlowBounded
    <3> QED
      BY <1>1, <3>1, LoadTypes DEF Load
  <2>3. \A f \in Inputs(s) : processed[s][f] = Supply(s, f)
    <3>1. CASE Auxiliary(s) = {}
      <4>1. \A f \in Inputs(s) : Supply(s, f) = eofs[s][f]
        <5> SUFFICES ASSUME NEW f \in Inputs(s) PROVE Supply(s, f) = eofs[s][f]
          OBVIOUS
        <5>1. Copies(s, f) = 1
          BY <3>1 DEF Copies
        <5>2. f # "gateway" => sent[f][s] \in Nat
          BY <1>1, LoadTypes
        <5> QED
          BY <1>4, <5>1, <5>2 DEF Supply
      <4>2. processed[s] \in [Inputs(s) -> Nat] /\ eofs[s] \in [Inputs(s) -> Nat]
        <5>1. \A f \in Inputs(s) : processed[s][f] \in Nat /\ eofs[s][f] \in Nat
          BY <1>1, <4>1, LoadTypes
        <5>2. /\ processed[s] = [f \in Inputs(s) |-> processed[s][f]]
              /\ eofs[s] = [f \in Inputs(s) |-> eofs[s][f]]
          BY <1>1 DEF CountersInv
        <5> QED
          BY <5>1, <5>2
      <4>3. Tally(processed[s]) = Tally(eofs[s])
        BY <2>1, <3>1 DEF CountersAgree
      <4>4. IsFiniteSet(Inputs(s))
        BY <1>2, InputsFinite
      <4>5. \A f \in Inputs(s) : processed[s][f] <= eofs[s][f]
        BY <2>2, <4>1
      <4>6. \A f \in Inputs(s) : processed[s][f] = eofs[s][f]
        BY <4>2, <4>3, <4>4, <4>5, TallyEqual
      <4> QED
        BY <4>1, <4>6
    <3>2. CASE Auxiliary(s) # {}
      <4>1. \A f \in Inputs(s) : processed[s][f] = eofs[s][f] * Copies(s, f)
        BY <2>1, <3>2 DEF CountersAgree, Awaited, Copies
      <4>2. s = "amount_filter_q3"
        BY <1>2, <3>2, AuxiliaryTable
      <4>3. "gateway" \notin Inputs(s)
        BY <4>2, WiringTable
      <4> QED
        BY <1>4, <4>1, <4>3 DEF Supply
    <3> QED
      BY <3>1, <3>2
  <2>4. ASSUME NEW f \in Inputs(s) PROVE OfFlux(inbox[s], f) = {} /\ Busy(s) = {}
    <3>1. Load(s, f) <= Supply(s, f) /\ processed[s][f] = Supply(s, f)
      BY <1>1, <2>3 DEF FlowInv, FlowBounded
    <3>2. Cardinality(OfFlux(inbox[s], f)) = 0 /\ Cardinality(Busy(s)) = 0
      BY <1>1, <3>1, LoadTypes DEF Load
    <3> QED
      BY <1>1, <3>2, LoadTypes, FS_EmptySet
  <2>5. inbox[s] = {}
    BY <1>1, <2>4 DEF PacketsInv, OfFlux
  <2>6. Inputs(s) # {}
    BY <1>2, StageNames, WiringTable
  <2> QED
    BY <1>5, <2>4, <2>5, <2>6
<1> QED
  BY <1>6, <1>7

-----------------------------------------------------------------------------
(* A step of one stage that has not said its total: packets leave its      *)
(* queue, messages leave for its outputs, and none of its workers has      *)
(* closed, or it is drained and one of them closes.                        *)
LEMMA StageStep ==
    ASSUME FlowInv, KeyInv', HoldInv', hasty = {}, UNCHANGED <<client, eofs, announced>>,
           NEW s \in Followed, s \notin announced,
           NEW w, NEW outs, SoundOuts(s, outs), CountSent(s, outs),
           NEW boxes, \A d \in Followed : boxes[d] \subseteq inbox[d],
           Deliver(boxes, s, w, outs),
           processed' = [d \in Followed |-> [f \in Inputs(d) |-> processed'[d][f]]],
           \A d \in Followed : \A f \in Inputs(d) :
              /\ processed'[d][f] \in Nat
              /\ processed'[d][f] + Cardinality(OfFlux(boxes[d], f)) + Cardinality(Busy(d)')
                   <= Load(d, f),
           \A d \in Followed \ {s} : Busy(d)' = Busy(d),
           IsFiniteSet(Busy(s)'),
           \/ closed' = closed /\ closed[s] = {}
           \/ Decided(s) /\ s # Converter /\ closed' = [closed EXCEPT ![s] = @ \cup {w}]
    PROVE  FlowInv'
<1>1. /\ Followed' = Followed /\ client' = client /\ eofs' = eofs /\ announced' = announced
      /\ client \in Clients
  BY DEF Followed, FlowInv, KeyInv
<1>2. s \in Stages /\ s # "gateway" /\ \A d \in Followed : d \in Stages
  BY <1>1, FollowedInputs
<1>3. CountersInv /\ PacketsInv /\ s \notin Inputs(s)
  BY <1>2, StageNames, WiringTable DEF FlowInv
<1>4. /\ \A d \in Outputs(s) : sent'[s][d] = sent[s][d] + Cardinality(For(d, outs))
      /\ \A f \in Followed \ {s} : sent'[f] = sent[f]
      /\ sent' = [f \in Followed |-> [d \in Outputs(f) |-> sent'[f][d]]]
  <2>1. sent' = [sent EXCEPT ![s] =
                   [d \in Outputs(s) |-> sent[s][d] + Cardinality(For(d, outs))]]
    BY DEF CountSent, For
  <2>2. sent = [f \in Followed |-> [d \in Outputs(f) |-> sent[f][d]]]
    BY <1>3 DEF CountersInv
  <2> QED
    BY <2>1, <2>2
<1>5. ASSUME NEW d \in Followed
      PROVE  /\ IsFiniteSet(For(d, outs)) /\ Cardinality(For(d, outs)) \in Nat
             /\ IsFiniteSet(Arriving(s, w, d, outs))
             /\ Cardinality(Arriving(s, w, d, outs)) \in Nat
             /\ Cardinality(Arriving(s, w, d, outs)) <= Cardinality(For(d, outs)) * Copies(d, s)
             /\ \A p \in Arriving(s, w, d, outs) :
                   /\ p.from = s
                   /\ d = "scather_gather_aggregator" => IsFiniteSet(p.msg.value)
             /\ s \notin Inputs(d) => Arriving(s, w, d, outs) = {}
             /\ inbox'[d] = boxes[d] \cup Arriving(s, w, d, outs)
  <2>1. d \in Outputs(s) <=> s \in Inputs(d)
    BY <1>2, OutputsAreInputs
  <2> QED
    BY <1>2, <2>1, Arrivals, ArrivingFrom DEF Deliver
<1>6. closed' = [d \in Followed |-> closed'[d]] /\ \A d \in Followed \ {s} : closed'[d] = closed[d]
  <2>1. closed = [d \in Followed |-> closed[d]]
    BY <1>3 DEF CountersInv
  <2> QED
    BY <2>1
<1>7. CountersInv'
  <2>1. \A f \in Followed : \A d \in Outputs(f) : sent'[f][d] \in Nat
    <3> SUFFICES ASSUME NEW f \in Followed, NEW d \in Outputs(f) PROVE sent'[f][d] \in Nat
      OBVIOUS
    <3>1. sent[f][d] \in Nat
      BY <1>3 DEF CountersInv
    <3>2. Cardinality(For(d, outs)) \in Nat
      <4>1. For(d, outs) \in SUBSET outs
        BY DEF For
      <4> QED
        BY <4>1, FS_Subset, FS_CardinalityType DEF SoundOuts
    <3> QED
      BY <1>4, <3>1, <3>2
  <2>2. eofs = [d \in Followed |-> [f \in Inputs(d) |-> eofs[d][f]]] /\ announced \subseteq Followed
    BY <1>3 DEF CountersInv
  <2> QED
    BY <1>1, <1>4, <1>6, <2>1, <2>2 DEF CountersInv
<1>8. PacketsInv'
  <2>1. ASSUME NEW d \in Followed
        PROVE  /\ IsFiniteSet(inbox'[d])
               /\ \A p \in inbox'[d] :
                     /\ p.from \in Inputs(d)
                     /\ d = "scather_gather_aggregator" => IsFiniteSet(p.msg.value)
    <3>1. IsFiniteSet(boxes[d])
      <4>1. IsFiniteSet(inbox[d]) /\ boxes[d] \in SUBSET inbox[d]
        BY <1>3 DEF PacketsInv
      <4> QED
        BY <4>1, FS_Subset
    <3>2. IsFiniteSet(inbox'[d])
      <4>1. /\ inbox'[d] = boxes[d] \cup Arriving(s, w, d, outs)
            /\ IsFiniteSet(Arriving(s, w, d, outs))
        BY <1>5
      <4>2. IsFiniteSet(boxes[d] \cup Arriving(s, w, d, outs))
        BY <3>1, <4>1, FS_Union
      <4> QED
        BY <4>1, <4>2
    <3>3. \A p \in boxes[d] : /\ p.from \in Inputs(d)
                              /\ d = "scather_gather_aggregator" => IsFiniteSet(p.msg.value)
      BY <1>3 DEF PacketsInv
    <3> QED
      BY <1>5, <3>2, <3>3
  <2> QED
    BY <1>1, <2>1 DEF PacketsInv
<1>9. FlowBounded'
  <2> SUFFICES ASSUME NEW d \in Followed, NEW f \in Inputs(d)
               PROVE  (Load(d, f) <= Supply(d, f))'
    BY <1>1 DEF FlowBounded
  <2> DEFINE Old == OfFlux(boxes[d], f)
             New == Arriving(s, w, d, outs)
             All == OfFlux(inbox'[d], f)
             n   == processed'[d][f]
             b   == Cardinality(Busy(d)')
  <2>1. n + Cardinality(Old) + b <= Supply(d, f)
    <3>1. Load(d, f) <= Supply(d, f)
      BY DEF FlowInv, FlowBounded
    <3>2. Load(d, f) \in Nat /\ Supply(d, f) \in Nat
      BY <1>1, <1>3, LoadTypes
    <3>3. n + Cardinality(Old) + b <= Load(d, f)
      OBVIOUS
    <3>4. n \in Nat /\ Cardinality(Old) \in Nat /\ b \in Nat
      <4>1. IsFiniteSet(Old)
        <5>1. Old \in SUBSET OfFlux(inbox[d], f)
          BY DEF OfFlux
        <5>2. IsFiniteSet(OfFlux(inbox[d], f))
          BY <1>1, <1>3, LoadTypes
        <5> QED
          BY <5>1, <5>2, FS_Subset
      <4>2. IsFiniteSet(Busy(d)')
        BY <1>1, <1>3, LoadTypes
      <4> QED
        BY <4>1, <4>2, FS_CardinalityType
    <3> QED
      BY <3>1, <3>2, <3>3, <3>4
  <2>2. n \in Nat /\ b \in Nat /\ IsFiniteSet(Old) /\ Cardinality(Old) \in Nat
    <3>1. IsFiniteSet(Old)
      <4>1. Old \in SUBSET OfFlux(inbox[d], f)
        BY DEF OfFlux
      <4>2. IsFiniteSet(OfFlux(inbox[d], f))
        BY <1>1, <1>3, LoadTypes
      <4> QED
        BY <4>1, <4>2, FS_Subset
    <3>2. IsFiniteSet(Busy(d)')
      BY <1>1, <1>3, LoadTypes
    <3> QED
      BY <3>1, <3>2, FS_CardinalityType
  <2>3. Load(d, f)' = n + Cardinality(All) + b
    BY DEF Load
  <2>4. CASE f # s
    <3>1. All = Old
      BY <1>5, <2>4 DEF OfFlux
    <3>2. Supply(d, f)' = Supply(d, f)
      <4>1. f = "gateway" \/ f \in Followed
        BY <1>1, FollowedInputs
      <4>2. f # "gateway" => sent'[f] = sent[f]
        BY <1>4, <2>4, <4>1
      <4> QED
        BY <1>1, <4>2 DEF Supply, Copies
    <3> QED
      BY <2>1, <2>3, <3>1, <3>2
  <2>5. CASE f = s
    <3>1. All = Old \cup New
      BY <1>5, <2>5 DEF OfFlux
    <3>2. Cardinality(All) <= Cardinality(Old) + Cardinality(New) /\ Cardinality(All) \in Nat
      <4> HIDE DEF Old, New, All
      <4>1. IsFiniteSet(New) /\ IsFiniteSet(Old)
        BY <1>5, <2>2 DEF New
      <4>2. /\ IsFiniteSet(Old \cup New) /\ IsFiniteSet(Old \cap New)
            /\ Cardinality(Old \cup New) = Cardinality(Old) + Cardinality(New) - Cardinality(Old \cap New)
        BY <4>1, FS_Union, FS_Intersection
      <4>3. Cardinality(Old \cap New) \in Nat /\ Cardinality(Old \cup New) \in Nat
            /\ Cardinality(Old) \in Nat /\ Cardinality(New) \in Nat
        BY <4>1, <4>2, FS_CardinalityType
      <4> QED
        BY <3>1, <4>2, <4>3
    <3>3. d \in Outputs(s)
      BY <1>2, <2>5, OutputsAreInputs
    <3>4. /\ Supply(d, s) = sent[s][d] * Copies(d, s)
          /\ Supply(d, s)' = (sent[s][d] + Cardinality(For(d, outs))) * Copies(d, s)
      BY <1>2, <1>4, <3>3 DEF Supply, Copies
    <3>5. sent[s][d] \in Nat /\ Copies(d, s) \in Nat
      BY <1>1, <1>2, <1>3, <2>5, LoadTypes
    <3>6. \A x, y, c \in Nat : (x + y) * c = x * c + y * c /\ x * c \in Nat /\ y * c \in Nat
      OBVIOUS
    <3>7. /\ Cardinality(New) <= Cardinality(For(d, outs)) * Copies(d, s)
          /\ Cardinality(New) \in Nat /\ Cardinality(For(d, outs)) \in Nat
      BY <1>5
    <3> DEFINE x == sent[s][d] * Copies(d, s)
               y == Cardinality(For(d, outs)) * Copies(d, s)
    <3>8. Supply(d, s)' = x + y /\ Supply(d, s) = x /\ x \in Nat /\ y \in Nat
      BY <3>4, <3>5, <3>6, <3>7
    <3> HIDE DEF x
    <3>9. Cardinality(New) <= y
      BY <3>7
    <3> HIDE DEF y, n, b, Old, New, All
    <3>10. n + Cardinality(All) + b <= x + y
      BY <2>1, <2>2, <2>5, <3>2, <3>7, <3>8, <3>9
    <3> QED
      BY <2>3, <2>5, <3>8, <3>10
  <2> QED
    BY <2>4, <2>5
<1>10. EofInv'
  <2>1. \A f \in announced : sent'[f] = sent[f]
    BY <1>3, <1>4 DEF CountersInv
  <2> QED
    BY <1>1, <2>1 DEF EofInv, FlowInv
<1>11. CallbackInv'
  BY <1>1, <1>3, <1>6 DEF CallbackInv, FlowInv, CountersInv
<1>12. ClosedWhole'
  <2> SUFFICES ASSUME NEW d \in Followed, d \in announced \/ closed'[d] # {}
               PROVE  /\ inbox'[d] = {}
                      /\ d = Converter => \A v \in WorkersOf(d) : Idle(v)'
                      /\ Inputs(d) \ {"gateway"} \subseteq announced
    BY <1>1 DEF ClosedWhole
  <2>1. CASE d # s
    <3>1. d \in announced \/ closed[d] # {}
      BY <1>6, <2>1
    <3>2. /\ inbox[d] = {}
          /\ d = Converter => \A v \in WorkersOf(d) : Idle(v)
          /\ Inputs(d) \ {"gateway"} \subseteq announced
      BY <3>1 DEF FlowInv, ClosedWhole
    <3>3. inbox'[d] = {}
      BY <1>2, <1>5, <3>2
    <3>4. d = Converter => \A v \in WorkersOf(d) : Idle(v)'
      <4>1. Busy(d)' = Busy(d)
        BY <2>1
      <4> QED
        BY <3>2, <4>1 DEF Busy
    <3> QED
      BY <3>2, <3>3, <3>4
  <2>2. CASE d = s
    <3>1. Decided(s) /\ s # Converter
      BY <2>2
    <3>2. inbox[s] = {} /\ Inputs(s) \ {"gateway"} \subseteq announced
      BY <3>1, DecidedMeans
    <3>3. inbox'[s] = {}
      BY <1>3, <1>5, <3>2
    <3> QED
      BY <2>2, <3>1, <3>2, <3>3
  <2> QED
    BY <2>1, <2>2
<1> QED
  BY <1>7, <1>8, <1>9, <1>10, <1>11, <1>12 DEF FlowInv

(* A worker remembers what may be held; who asks changes at that stage     *)
(* only, and not when the worker goes on asking for the same.              *)
LEMMA HoldKeeps ==
    ASSUME FlowInv, client' = client, NEW s \in Followed, NEW w, NEW m, Holds(s, m),
           memory' = [memory EXCEPT ![s][w] = m]
    PROVE  /\ HoldInv'
           /\ \A d \in Followed \ {s} : Busy(d)' = Busy(d)
           /\ s = Converter => \A v \in WorkersOf(s) : Idle(v)' <=> IF v = w THEN m.asking = {} ELSE Idle(v)
           /\ s # Converter => Busy(s)' = Busy(s)
<1>1. Followed' = Followed
  BY DEF Followed
<1>2. memory = [d \in Followed |-> [v \in WorkersOf(d) |-> memory[d][v]]]
  BY DEF FlowInv, KeyInv, MemoryInv
<1>3. \A d \in Followed : \A v \in WorkersOf(d) :
         memory'[d][v] = IF d = s /\ v = w THEN m ELSE memory[d][v]
  BY <1>2
<1>4. HoldInv'
  <2>1. \A d \in Followed : \A v \in WorkersOf(d) : Holds(d, memory[d][v])
    BY DEF FlowInv, HoldInv
  <2>2. \A d \in Followed : \A v \in WorkersOf(d) : Holds(d, memory'[d][v])
    BY <1>3, <2>1
  <2> QED
    BY <1>1, <2>2 DEF HoldInv, Holds
<1>5. \A d \in Followed : d # s \/ s # Converter => Busy(d)' = Busy(d)
  BY <1>3 DEF Busy, Idle
<1>6. s = Converter => \A v \in WorkersOf(s) : Idle(v)' <=> IF v = w THEN m.asking = {} ELSE Idle(v)
  BY <1>3 DEF Idle
<1> QED
  BY <1>4, <1>5, <1>6

(* Taking a packet, that one, from a queue.                                *)
LEMMA FluxWithout ==
    ASSUME FlowInv, NEW s \in Followed, NEW p \in inbox[s], NEW f \in Inputs(s)
    PROVE  /\ p.from \in Inputs(s) /\ Cardinality(OfFlux(inbox[s], f)) \in Nat
           /\ Cardinality(OfFlux(inbox[s] \ {p}, f)) =
                IF f = p.from THEN Cardinality(OfFlux(inbox[s], f)) - 1
                ELSE Cardinality(OfFlux(inbox[s], f))
<1>1. p.from \in Inputs(s)
  BY DEF FlowInv, PacketsInv
<1>2. IsFiniteSet(OfFlux(inbox[s], f)) /\ Cardinality(OfFlux(inbox[s], f)) \in Nat
  BY LoadTypes DEF FlowInv, KeyInv
<1>3. CASE f = p.from
  <2>1. OfFlux(inbox[s] \ {p}, f) = OfFlux(inbox[s], f) \ {p} /\ p \in OfFlux(inbox[s], f)
    BY <1>3 DEF OfFlux
  <2> QED
    BY <1>1, <1>2, <1>3, <2>1, FS_RemoveElement
<1>4. CASE f # p.from
  <2>1. OfFlux(inbox[s] \ {p}, f) = OfFlux(inbox[s], f)
    BY <1>4 DEF OfFlux
  <2> QED
    BY <1>1, <1>2, <1>4, <2>1
<1> QED
  BY <1>3, <1>4

(* A worker takes a packet and sends what comes of it.                     *)
LEMMA HandleFlows ==
    ASSUME FlowInv, KeyInv', hasty = {}, NEW s \in Followed, NEW w, NEW p, NEW learned, NEW outs,
           Handle(s, w, p, learned, outs), SoundOuts(s, outs), Holds(s, learned),
           s = Converter => learned.asking = memory[s][w].asking
    PROVE  FlowInv'
<1> DEFINE boxes == [inbox EXCEPT ![s] = @ \ {p}]
<1>1. /\ p \in inbox[s] /\ s \notin announced /\ closed[s] = {}
      /\ UNCHANGED <<client, eofs, announced, closed>>
  BY DEF FlowInv, ClosedWhole, Handle, Take, closing
<1>2. /\ HoldInv'
      /\ \A d \in Followed : Busy(d)' = Busy(d)
  <2>1. memory' = [memory EXCEPT ![s][w] = learned]
    BY DEF Handle
  <2>2. s = Converter => Busy(s)' = Busy(s)
    BY <1>1, <2>1, HoldKeeps DEF Busy, Idle
  <2> QED
    BY <1>1, <2>1, <2>2, HoldKeeps
<1>3. \A d \in Followed : boxes[d] = IF d = s THEN inbox[s] \ {p} ELSE inbox[d]
  BY DEF FlowInv, KeyInv, InboxInv
<1>4. CountersInv /\ PacketsInv /\ client \in Clients
  BY DEF FlowInv, KeyInv
<1>5. p.from \in Inputs(s)
  BY <1>1, <1>4 DEF PacketsInv
<1>6. /\ processed' = [d \in Followed |-> [f \in Inputs(d) |-> processed'[d][f]]]
      /\ \A d \in Followed : \A f \in Inputs(d) :
           processed'[d][f] = IF d = s /\ f = p.from THEN processed[d][f] + 1 ELSE processed[d][f]
  <2>1. processed' = [processed EXCEPT ![s][p.from] = @ + 1]
    BY DEF Handle
  <2>2. processed = [d \in Followed |-> [f \in Inputs(d) |-> processed[d][f]]]
    BY <1>4 DEF CountersInv
  <2>3. \A d \in Followed : \A f \in Inputs(d) :
           processed'[d][f] = IF d = s /\ f = p.from THEN processed[d][f] + 1 ELSE processed[d][f]
    BY <1>5, <2>1, <2>2
  <2>4. processed' = [d \in Followed |-> [f \in Inputs(d) |-> processed'[d][f]]]
    BY <1>5, <2>1, <2>2
  <2> QED
    BY <2>3, <2>4
<1>7. ASSUME NEW d \in Followed, NEW f \in Inputs(d)
      PROVE  /\ processed'[d][f] \in Nat
             /\ processed'[d][f] + Cardinality(OfFlux(boxes[d], f)) + Cardinality(Busy(d)')
                  <= Load(d, f)
  <2>1. /\ processed[d][f] \in Nat /\ Cardinality(OfFlux(inbox[d], f)) \in Nat
        /\ Cardinality(Busy(d)) \in Nat
    BY <1>4, LoadTypes
  <2>2. CASE d = s
    <3>1. Cardinality(OfFlux(boxes[d], f)) =
            IF f = p.from THEN Cardinality(OfFlux(inbox[d], f)) - 1
            ELSE Cardinality(OfFlux(inbox[d], f))
      BY <1>1, <1>3, <2>2, FluxWithout
    <3> HIDE DEF boxes
    <3> QED
      BY <1>2, <1>6, <2>1, <2>2, <3>1 DEF Load
  <2>3. CASE d # s
    <3>1. boxes[d] = inbox[d]
      BY <1>3, <2>3
    <3> HIDE DEF boxes
    <3> QED
      BY <1>2, <1>6, <2>1, <2>3, <3>1 DEF Load
  <2> QED
    BY <2>2, <2>3
<1>8. Deliver(boxes, s, w, outs) /\ CountSent(s, outs)
  BY DEF Handle
<1>9. IsFiniteSet(Busy(s)')
  <2>1. IsFiniteSet(Busy(s))
    BY <1>4, <1>5, LoadTypes
  <2> QED
    BY <1>2, <2>1
<1>10. \A d \in Followed : boxes[d] \subseteq inbox[d]
  BY <1>3
<1> HIDE DEF boxes
<1> QED
  BY <1>1, <1>2, <1>6, <1>7, <1>8, <1>9, <1>10, StageStep

(* A callback of a stage that is drained.                                  *)
LEMMA PostProcessFlows ==
    ASSUME FlowInv, KeyInv', hasty = {}, NEW s \in Callback, NEW w, NEW left, NEW outs,
           PostProcess(s, w, left, outs), SoundOuts(s, outs), Holds(s, left)
    PROVE  FlowInv'
<1>1. /\ s \in Followed /\ s # Converter /\ Decided(s) /\ w \in WorkersOf(s) \ closed[s]
      /\ UNCHANGED <<client, eofs, announced, processed>>
      /\ closed' = [closed EXCEPT ![s] = @ \cup {w}]
      /\ Deliver(inbox, s, w, outs) /\ CountSent(s, outs)
  BY DEF PostProcess, Decided, Callback, Converter
<1>2. s \notin announced
  BY <1>1 DEF FlowInv, CallbackInv
<1>3. CountersInv /\ PacketsInv /\ client \in Clients
  BY DEF FlowInv, KeyInv
<1>4. HoldInv' /\ \A d \in Followed : Busy(d)' = Busy(d)
  <2>1. memory' = [memory EXCEPT ![s][w] = left]
    BY DEF PostProcess
  <2> QED
    BY <1>1, <2>1, HoldKeeps
<1>5. processed' = [d \in Followed |-> [f \in Inputs(d) |-> processed'[d][f]]]
  BY <1>1, <1>3 DEF CountersInv
<1>6. ASSUME NEW d \in Followed, NEW f \in Inputs(d)
      PROVE  /\ processed'[d][f] \in Nat
             /\ processed'[d][f] + Cardinality(OfFlux(inbox[d], f)) + Cardinality(Busy(d)')
                  <= Load(d, f)
  BY <1>1, <1>3, <1>4, LoadTypes DEF Load
<1>7. IsFiniteSet(Busy(s)')
  <2>1. s \in Stages
    BY <1>1, <1>3, FollowedInputs
  <2>2. Inputs(s) # {}
    BY <2>1, StageNames, WiringTable
  <2>3. IsFiniteSet(Busy(s))
    BY <1>1, <1>3, <2>2, LoadTypes
  <2> QED
    BY <1>1, <1>4, <2>3
<1> QED
  BY <1>1, <1>2, <1>4, <1>5, <1>6, <1>7, StageStep

(* A step that sends nothing.                                              *)
LEMMA NothingSent ==
    ASSUME FlowInv, NEW s \in Followed, NEW w, NEW boxes, sent' = sent,
           inbox' = [d \in Followed |-> boxes[d]]
    PROVE  Deliver(boxes, s, w, {}) /\ CountSent(s, {}) /\ SoundOuts(s, {})
<1>1. SoundOuts(s, {})
  BY FS_EmptySet DEF SoundOuts
<1>2. Deliver(boxes, s, w, {})
  BY DEF Deliver, Arriving
<1>3. CountSent(s, {})
  <2>1. sent = [f \in Followed |-> [d \in Outputs(f) |-> sent[f][d]]]
    BY DEF FlowInv, CountersInv
  <2>2. \A d \in Outputs(s) : sent[s][d] \in Nat
    BY DEF FlowInv, CountersInv
  <2>3. \A d : {o \in {} : o.stage = d} = {}
    OBVIOUS
  <2>4. \A d \in Outputs(s) : sent[s][d] + Cardinality({o \in {} : o.stage = d}) = sent[s][d]
    BY <2>2, <2>3, FS_EmptySet
  <2>5. [d \in Outputs(s) |-> sent[s][d] + Cardinality({o \in {} : o.stage = d})] = sent[s]
    BY <2>1, <2>4
  <2>6. [sent EXCEPT ![s] = sent[s]] = sent
    BY <2>1
  <2> QED
    BY <2>5, <2>6 DEF CountSent
<1> QED
  BY <1>1, <1>2, <1>3

(* A converter takes a packet and asks for its rate.                       *)
LEMMA AskFlows ==
    ASSUME FlowInv, KeyInv', hasty = {}, Converter \in Followed,
           NEW w \in WorkersOf(Converter), NEW p, Ask(w, p)
    PROVE  FlowInv'
<1> DEFINE s == Converter
           boxes == [inbox EXCEPT ![s] = @ \ {p}]
           m == memory[s][w]
           a == [packet |-> p, attempt |-> 1]
           n == [cache |-> m.cache, asking |-> {a}]
<1>1. /\ p \in inbox[s] /\ s \notin announced /\ closed[s] = {} /\ Idle(w)
      /\ UNCHANGED <<client, eofs, announced, closed, processed, sent>>
  BY DEF FlowInv, ClosedWhole, Ask, Take, closing
<1>2. CountersInv /\ PacketsInv /\ client \in Clients
  BY DEF FlowInv, KeyInv
<1>3. Inputs(s) = {"pay_format_filter"} /\ p.from = "pay_format_filter"
  BY <1>1, <1>2, WiringTable DEF PacketsInv, Converter
<1>4. memory' = [memory EXCEPT ![s][w] = n]
  <2>1. memory = [d \in Followed |-> [v \in WorkersOf(d) |-> memory[d][v]]]
    BY DEF FlowInv, KeyInv, MemoryInv
  <2>2. m = [cache |-> m.cache, asking |-> m.asking]
    BY DEF FlowInv, KeyInv, MemoryInv, Sharded, Converter, Belongs, Shape
  <2>3. [m EXCEPT !.asking = {a}] = n
    BY <2>2
  <2>4. memory' = [memory EXCEPT ![s][w].asking = {a}]
    BY DEF Ask
  <2> QED
    BY <2>1, <2>3, <2>4
<1>5. Holds(s, n)
  <2>1. Holds(s, m)
    BY DEF FlowInv, HoldInv
  <2> QED
    BY <1>3, <2>1 DEF Holds, Converter
<1>6. /\ HoldInv'
      /\ \A d \in Followed \ {s} : Busy(d)' = Busy(d)
      /\ Busy(s)' = Busy(s) \cup {w} /\ w \notin Busy(s)
  <2>1. /\ HoldInv'
        /\ \A d \in Followed \ {s} : Busy(d)' = Busy(d)
        /\ \A v \in WorkersOf(s) : Idle(v)' <=> IF v = w THEN n.asking = {} ELSE Idle(v)
    <3> HIDE DEF n
    <3> QED
      BY <1>1, <1>4, <1>5, HoldKeeps
  <2>2. n.asking # {}
    OBVIOUS
  <2> QED
    BY <1>1, <2>1, <2>2 DEF Busy
<1>7. \A d \in Followed : boxes[d] = IF d = s THEN inbox[s] \ {p} ELSE inbox[d]
  BY DEF FlowInv, KeyInv, InboxInv
<1>8. IsFiniteSet(Busy(s)) /\ Cardinality(Busy(s)) \in Nat
      /\ IsFiniteSet(Busy(s)') /\ Cardinality(Busy(s)') = Cardinality(Busy(s)) + 1
  <2>1. IsFiniteSet(Busy(s)) /\ Cardinality(Busy(s)) \in Nat
    BY <1>2, <1>3, LoadTypes
  <2> QED
    BY <1>6, <2>1, FS_AddElement
<1>9. ASSUME NEW d \in Followed, NEW f \in Inputs(d)
      PROVE  /\ processed'[d][f] \in Nat
             /\ processed'[d][f] + Cardinality(OfFlux(boxes[d], f)) + Cardinality(Busy(d)')
                  <= Load(d, f)
  <2>1. /\ processed[d][f] \in Nat /\ Cardinality(OfFlux(inbox[d], f)) \in Nat
        /\ Cardinality(Busy(d)) \in Nat
    BY <1>2, LoadTypes
  <2>2. CASE d = s
    <3>1. Cardinality(OfFlux(boxes[d], f)) = Cardinality(OfFlux(inbox[d], f)) - 1
      BY <1>1, <1>3, <1>7, <2>2, FluxWithout
    <3> HIDE DEF boxes
    <3> QED
      BY <1>1, <1>8, <2>1, <2>2, <3>1 DEF Load
  <2>3. CASE d # s
    <3>1. boxes[d] = inbox[d]
      BY <1>7, <2>3
    <3> HIDE DEF boxes
    <3> QED
      BY <1>1, <1>6, <2>1, <2>3, <3>1 DEF Load
  <2> QED
    BY <2>2, <2>3
<1>10. Deliver(boxes, s, w, {}) /\ CountSent(s, {}) /\ SoundOuts(s, {})
  <2>1. inbox' = [d \in Followed |-> boxes[d]]
    BY DEF Ask, FlowInv, KeyInv, InboxInv
  <2> HIDE DEF boxes
  <2> QED
    BY <1>1, <2>1, NothingSent
<1>11. processed' = [d \in Followed |-> [f \in Inputs(d) |-> processed'[d][f]]]
  BY <1>1, <1>2 DEF CountersInv
<1>12. \A d \in Followed : boxes[d] \subseteq inbox[d]
  BY <1>7
<1> HIDE DEF boxes
<1> QED
  BY <1>1, <1>6, <1>8, <1>9, <1>10, <1>11, <1>12, StageStep

\* Messages for one worker each, or for any, or that are not sent.
SingleOuts(s, outs) ==
    /\ IsFiniteSet(outs)
    /\ \A o \in outs :
          /\ o.stage \in Outputs(s)
          /\ o.stage = "scather_gather_aggregator" => IsFiniteSet(o.msg.value)
          /\ o.to # EveryWorker

(* Nothing, and one set of messages with another.                          *)
LEMMA SingleUnion ==
    ASSUME NEW s
    PROVE  /\ SingleOuts(s, {}) /\ SoundOuts(s, {})
           /\ \A A, B : SingleOuts(s, A) /\ SingleOuts(s, B) => SoundOuts(s, A \cup B)
<1>1. SingleOuts(s, {}) /\ SoundOuts(s, {})
  BY FS_EmptySet DEF SingleOuts, SoundOuts
<1>2. ASSUME NEW A, NEW B, SingleOuts(s, A), SingleOuts(s, B)
      PROVE  SoundOuts(s, A \cup B)
  <2>1. IsFiniteSet(A \cup B)
    BY <1>2, FS_Union DEF SingleOuts
  <2> QED
    BY <1>2, <2>1 DEF SingleOuts, SoundOuts
<1> QED
  BY <1>1, <1>2

(* Seconds, Firsts and Turned of finitely many pairs.                      *)
LEMMA PairsFinite ==
    ASSUME NEW pairs, IsFiniteSet(pairs)
    PROVE  /\ IsFiniteSet(Firsts(pairs)) /\ IsFiniteSet(Turned(pairs))
           /\ \A k : IsFiniteSet(Seconds(pairs, k))
           /\ IsFiniteSet(PairsOf(pairs))
<1>1. IsFiniteSet(Firsts(pairs))
  <2> DEFINE g == [x \in pairs |-> x[1]]
  <2>1. \A y \in Firsts(pairs) : \E x \in pairs : y = g[x]
    BY DEF Firsts
  <2> HIDE DEF g
  <2> QED
    BY <2>1, ImageFinite
<1>2. IsFiniteSet(Turned(pairs))
  <2> DEFINE g == [x \in pairs |-> <<x[2], x[1]>>]
  <2>1. \A y \in Turned(pairs) : \E x \in pairs : y = g[x]
    BY DEF Turned
  <2> HIDE DEF g
  <2> QED
    BY <2>1, ImageFinite
<1>3. \A k : IsFiniteSet(Seconds(pairs, k))
  <2> TAKE k
  <2> DEFINE g == [x \in pairs |-> x[2]]
  <2>1. \A y \in Seconds(pairs, k) : \E x \in pairs : y = g[x]
    BY DEF Seconds
  <2> HIDE DEF g
  <2> QED
    BY <2>1, ImageFinite
<1>4. IsFiniteSet(PairsOf(pairs))
  <2> DEFINE g == [x \in pairs |-> <<x[1], x[2]>>]
  <2>1. \A y \in PairsOf(pairs) : \E x \in pairs : y = g[x]
    BY DEF PairsOf
  <2> HIDE DEF g
  <2> QED
    BY <2>1, ImageFinite
<1> QED
  BY <1>1, <1>2, <1>3, <1>4

(* A converted transaction for each of finitely many rates.                *)
LEMMA ConvertedSound ==
    ASSUME NEW r, NEW rates, IsFiniteSet(rates)
    PROVE  SoundOuts(Converter, Converted(r, rates))
<1> DEFINE outs == Converted(r, rates)
           g == [rate \in rates |->
                   Out("amount_filter_q5", AnyWorker, [r EXCEPT !.amount_paid = @ * rate])]
<1>1. \A o \in outs : \E rate \in rates : o = g[rate]
  BY DEF Converted
<1>2. \A o \in outs : o.stage = "amount_filter_q5" /\ o.to = AnyWorker
  BY DEF Converted, Out
<1>3. "amount_filter_q5" \in Outputs(Converter) /\ AnyWorker # EveryWorker
  BY WiringTable DEF Converter, AnyWorker, EveryWorker
<1> HIDE DEF outs, g
<1>4. \A o \in outs : /\ o.stage \in Outputs(Converter)
                      /\ o.stage = "scather_gather_aggregator" => IsFiniteSet(o.msg.value)
                      /\ o.to # EveryWorker
  BY <1>2, <1>3
<1>5. IsFiniteSet(outs)
  BY <1>1, ImageFinite
<1>6. SoundOuts(Converter, outs)
  BY <1>4, <1>5 DEF SoundOuts
<1> QED
  BY <1>6 DEF outs

(* A worker of the converter that learns finitely many rates.              *)
LEMMA WithRateHolds ==
    ASSUME NEW m, Holds(Converter, m), NEW key, NEW rates, IsFiniteSet(rates)
    PROVE  Holds(Converter, WithRate(m, key, rates)) /\ WithRate(m, key, rates).asking = {}
<1> DEFINE new == {[key |-> key, rate |-> rate] : rate \in rates}
           n == WithRate(m, key, rates)
<1>1. IsFiniteSet(new)
  <2> DEFINE g == [rate \in rates |-> [key |-> key, rate |-> rate]]
  <2>1. \A x \in new : \E rate \in rates : x = g[rate]
    OBVIOUS
  <2> HIDE DEF new, g
  <2> QED
    BY <2>1, ImageFinite
<1>2. IsFiniteSet(m.cache)
  BY DEF Holds, Converter
<1>3. n.cache = m.cache \cup new /\ n.asking = {}
  BY DEF WithRate
<1> HIDE DEF new, n
<1>4. IsFiniteSet(n.cache)
  BY <1>1, <1>2, <1>3, FS_Union
<1>5. Holds(Converter, n) /\ n.asking = {}
  BY <1>3, <1>4 DEF Holds, Converter
<1> QED
  BY <1>5 DEF n

(* The answer of a request, or its last failure: the packet is counted.    *)
LEMMA FinishFlows ==
    ASSUME FlowInv, KeyInv', hasty = {}, Converter \in Followed,
           NEW w \in WorkersOf(Converter), NEW a \in memory[Converter][w].asking,
           NEW rates, IsFiniteSet(rates), Finish(w, a, rates)
    PROVE  FlowInv'
<1> DEFINE s == Converter
           m == memory[s][w]
           n == WithRate(m, ConversionKey(a.packet.msg), rates)
           outs == Converted(a.packet.msg, rates)
<1>1. /\ ~Idle(w) /\ s \notin announced /\ closed[s] = {}
      /\ UNCHANGED <<client, eofs, announced, closed>>
      /\ Deliver(inbox, s, w, outs) /\ CountSent(s, outs)
      /\ memory' = [memory EXCEPT ![s][w] = n]
      /\ processed' = [processed EXCEPT ![s][a.packet.from] = @ + 1]
  BY DEF FlowInv, ClosedWhole, Finish, Idle, closing
<1>2. CountersInv /\ PacketsInv /\ client \in Clients
  BY DEF FlowInv, KeyInv
<1>3. Inputs(s) = {"pay_format_filter"} /\ Outputs(s) = {"amount_filter_q5"}
  BY WiringTable DEF Converter
<1>4. Holds(s, m)
  BY DEF FlowInv, HoldInv
<1>5. a.packet.from = "pay_format_filter"
  BY <1>3, <1>4 DEF Holds, Converter
<1>6. Holds(s, n) /\ n.asking = {}
  BY <1>4, WithRateHolds
<1>7. /\ HoldInv'
      /\ \A d \in Followed \ {s} : Busy(d)' = Busy(d)
      /\ Busy(s)' = Busy(s) \ {w} /\ w \in Busy(s)
  <2>1. /\ HoldInv'
        /\ \A d \in Followed \ {s} : Busy(d)' = Busy(d)
        /\ \A v \in WorkersOf(s) : Idle(v)' <=> IF v = w THEN n.asking = {} ELSE Idle(v)
    <3> HIDE DEF n
    <3> QED
      BY <1>1, <1>6, HoldKeeps
  <2> QED
    BY <1>1, <1>6, <2>1 DEF Busy
<1>8. IsFiniteSet(Busy(s)) /\ Cardinality(Busy(s)) \in Nat
      /\ IsFiniteSet(Busy(s)') /\ Cardinality(Busy(s)') = Cardinality(Busy(s)) - 1
  <2>1. IsFiniteSet(Busy(s)) /\ Cardinality(Busy(s)) \in Nat
    BY <1>2, <1>3, LoadTypes
  <2> QED
    BY <1>7, <2>1, FS_RemoveElement
<1>9. /\ processed' = [d \in Followed |-> [f \in Inputs(d) |-> processed'[d][f]]]
      /\ \A d \in Followed : \A f \in Inputs(d) :
           processed'[d][f] = IF d = s THEN processed[d][f] + 1 ELSE processed[d][f]
  <2>1. processed = [d \in Followed |-> [f \in Inputs(d) |-> processed[d][f]]]
    BY <1>2 DEF CountersInv
  <2>2. \A d \in Followed : \A f \in Inputs(d) :
           processed'[d][f] = IF d = s THEN processed[d][f] + 1 ELSE processed[d][f]
    BY <1>1, <1>3, <1>5, <2>1
  <2>3. processed' = [d \in Followed |-> [f \in Inputs(d) |-> processed'[d][f]]]
    BY <1>1, <1>3, <1>5, <2>1
  <2> QED
    BY <2>2, <2>3
<1>10. ASSUME NEW d \in Followed, NEW f \in Inputs(d)
      PROVE  /\ processed'[d][f] \in Nat
             /\ processed'[d][f] + Cardinality(OfFlux(inbox[d], f)) + Cardinality(Busy(d)')
                  <= Load(d, f)
  <2>1. /\ processed[d][f] \in Nat /\ Cardinality(OfFlux(inbox[d], f)) \in Nat
        /\ Cardinality(Busy(d)) \in Nat
    BY <1>2, LoadTypes
  <2>2. CASE d = s
    BY <1>8, <1>9, <2>1, <2>2 DEF Load
  <2>3. CASE d # s
    BY <1>7, <1>9, <2>1, <2>3 DEF Load
  <2> QED
    BY <2>2, <2>3
<1>11. SoundOuts(s, outs)
  BY ConvertedSound
<1> HIDE DEF outs
<1> QED
  BY <1>1, <1>7, <1>8, <1>9, <1>10, <1>11, StageStep

(* Another attempt: the same worker goes on asking for the same packet.    *)
LEMMA RetryFlows ==
    ASSUME FlowInv, KeyInv', hasty = {}, Converter \in Followed,
           NEW w \in WorkersOf(Converter), NEW a \in memory[Converter][w].asking,
           memory' = [memory EXCEPT ![Converter][w].asking = {[a EXCEPT !.attempt = @ + 1]}],
           UNCHANGED <<client, inbox, processed, sent, closing, results>>
    PROVE  FlowInv'
<1> DEFINE s == Converter
           m == memory[s][w]
           b == [a EXCEPT !.attempt = @ + 1]
           n == [cache |-> m.cache, asking |-> {b}]
<1>1. /\ ~Idle(w) /\ s \notin announced /\ closed[s] = {}
      /\ UNCHANGED <<client, inbox, eofs, announced, closed, processed, sent>>
  BY DEF FlowInv, ClosedWhole, Idle, closing
<1>2. CountersInv /\ PacketsInv /\ client \in Clients
  BY DEF FlowInv, KeyInv
<1>3. Holds(s, m) /\ Belongs(s, w, m)
  BY DEF FlowInv, HoldInv, KeyInv, MemoryInv, Sharded, Converter
<1>4. memory' = [memory EXCEPT ![s][w] = n]
  <2>1. memory = [d \in Followed |-> [v \in WorkersOf(d) |-> memory[d][v]]]
    BY DEF FlowInv, KeyInv, MemoryInv
  <2>2. m = [cache |-> m.cache, asking |-> m.asking]
    BY <1>3 DEF Sharded, Converter, Belongs, Shape
  <2> HIDE DEF b
  <2>3. [m EXCEPT !.asking = {b}] = n
    BY <2>2
  <2>4. memory' = [memory EXCEPT ![s][w].asking = {b}]
    BY DEF b
  <2> HIDE DEF n
  <2> QED
    BY <2>1, <2>3, <2>4
<1>5. Holds(s, n)
  <2>1. a = [packet |-> a.packet, attempt |-> a.attempt]
    BY <1>3 DEF Belongs, Shape, Converter
  <2>2. b.packet = a.packet
    BY <2>1
  <2> HIDE DEF b
  <2> QED
    BY <1>3, <2>2 DEF Holds, Converter
<1>6. HoldInv' /\ \A d \in Followed : Busy(d)' = Busy(d)
  <2>1. n.asking # {}
    OBVIOUS
  <2>2. /\ HoldInv'
        /\ \A d \in Followed \ {s} : Busy(d)' = Busy(d)
        /\ \A v \in WorkersOf(s) : Idle(v)' <=> IF v = w THEN n.asking = {} ELSE Idle(v)
    <3> HIDE DEF n
    <3> QED
      BY <1>1, <1>4, <1>5, HoldKeeps
  <2> QED
    BY <1>1, <2>1, <2>2 DEF Busy
<1>7. Deliver(inbox, s, w, {}) /\ CountSent(s, {}) /\ SoundOuts(s, {})
  <2>1. inbox' = [d \in Followed |-> inbox[d]]
    BY <1>1 DEF FlowInv, KeyInv, InboxInv
  <2> QED
    BY <1>1, <2>1, NothingSent
<1>8. ASSUME NEW d \in Followed, NEW f \in Inputs(d)
      PROVE  /\ processed'[d][f] \in Nat
             /\ processed'[d][f] + Cardinality(OfFlux(inbox[d], f)) + Cardinality(Busy(d)')
                  <= Load(d, f)
  BY <1>1, <1>2, <1>6, LoadTypes DEF Load
<1>9. processed' = [d \in Followed |-> [f \in Inputs(d) |-> processed'[d][f]]]
  BY <1>1, <1>2 DEF CountersInv
<1>10. IsFiniteSet(Busy(s)')
  <2>1. "pay_format_filter" \in Inputs(s)
    BY WiringTable DEF Converter
  <2> QED
    BY <1>2, <1>6, <2>1, LoadTypes
<1> QED
  BY <1>1, <1>6, <1>7, <1>8, <1>9, <1>10, StageStep

(* The EOF of a stage says to each of its outputs what it has sent to it.   *)
LEMMA EofsSaid ==
    ASSUME client \in Clients, eofs = [d \in Followed |-> [f \in Inputs(d) |-> eofs[d][f]]],
           NEW s \in Followed, SendEofs(s)
    PROVE  /\ eofs' = [d \in Followed |-> [f \in Inputs(d) |-> eofs'[d][f]]]
           /\ \A d \in Followed : \A f \in Inputs(d) :
                eofs'[d][f] = IF f = s THEN sent[s][d] ELSE eofs[d][f]
<1>1. eofs' = [d \in Followed |->
                 IF d \in Outputs(s) THEN [eofs[d] EXCEPT ![s] = sent[s][d]] ELSE eofs[d]]
  BY DEF SendEofs, TotalFor
<1>2. \A d \in Followed : d \in Outputs(s) <=> s \in Inputs(d)
  BY FollowedInputs, OutputsAreInputs
<1>3. ASSUME NEW d \in Followed
      PROVE  /\ eofs'[d] = [f \in Inputs(d) |-> eofs'[d][f]]
             /\ \A f \in Inputs(d) : eofs'[d][f] = IF f = s THEN sent[s][d] ELSE eofs[d][f]
  <2>1. eofs[d] = [f \in Inputs(d) |-> eofs[d][f]]
    OBVIOUS
  <2>2. CASE d \in Outputs(s)
    <3>1. eofs'[d] = [eofs[d] EXCEPT ![s] = sent[s][d]]
      BY <1>1, <2>2
    <3> QED
      BY <1>2, <2>1, <2>2, <3>1
  <2>3. CASE d \notin Outputs(s)
    <3>1. eofs'[d] = eofs[d] /\ s \notin Inputs(d)
      BY <1>1, <1>2, <2>3
    <3> QED
      BY <2>1, <3>1
  <2> QED
    BY <2>2, <2>3
<1> QED
  BY <1>1, <1>3

(* The EOF of a stage: what it has sent is said, and is all that it sends. *)
LEMMA SendEofsFlows ==
    ASSUME FlowInv, hasty = {}, NEW s, SendEofs(s)
    PROVE  FlowInv'
<1>1. /\ UNCHANGED <<client, inbox, memory, processed, sent, closed>>
      /\ Followed' = Followed /\ announced' = announced \cup {s}
      /\ Decided(s) /\ s \in Followed /\ s \notin announced
      /\ s \in Callback => closed[s] = WorkersOf(s)
  BY DEF SendEofs, Followed, Announceable, Decided
<1>2. CountersInv /\ PacketsInv /\ KeyInv /\ client \in Clients
  BY DEF FlowInv, KeyInv
<1>3. KeyInv'
  BY <1>2, SendEofsKeeps
<1>4. PacketsInv' /\ HoldInv' /\ FlowBounded'
  BY <1>1 DEF FlowInv, PacketsInv, HoldInv, Holds, FlowBounded, Load, Supply, Copies, Busy, Idle
<1>5. /\ eofs' = [d \in Followed |-> [f \in Inputs(d) |-> eofs'[d][f]]]
      /\ \A d \in Followed : \A f \in Inputs(d) :
           eofs'[d][f] = IF f = s THEN sent[s][d] ELSE eofs[d][f]
  BY <1>1, <1>2, EofsSaid DEF CountersInv
<1>6. CountersInv'
  BY <1>1, <1>2, <1>5 DEF CountersInv
<1>7. EofInv'
  <2>1. s # "gateway"
    BY <1>1, <1>2, FollowedInputs
  <2> QED
    BY <1>1, <1>5, <2>1 DEF EofInv, FlowInv
<1>8. CallbackInv'
  BY <1>1 DEF CallbackInv, FlowInv
<1>9. ClosedWhole'
  <2>1. inbox[s] = {} /\ Busy(s) = {} /\ Inputs(s) \ {"gateway"} \subseteq announced
    BY <1>1, DecidedMeans
  <2>2. s = Converter => \A w \in WorkersOf(s) : Idle(w)
    BY <2>1 DEF Busy
  <2> QED
    BY <1>1, <2>1, <2>2 DEF ClosedWhole, FlowInv, Idle
<1> QED
  BY <1>3, <1>4, <1>6, <1>7, <1>8, <1>9 DEF FlowInv

-----------------------------------------------------------------------------
(* The filters: a packet, or none, for each of a few stages.               *)
LEMMA FiltersFlow ==
    ASSUME FlowInv, KeyInv', hasty = {}, NEW p
    PROVE  /\ FilterDate(p) => FlowInv'
           /\ "usd_filter_q3" \in Followed /\ FilterUsdQ3(p) => FlowInv'
           /\ "usd_filter_q4" \in Followed /\ FilterUsdQ4(p) => FlowInv'
<1>1. \A a, b, c : IsFiniteSet({a, b, c})
  <2> TAKE a, b, c
  <2>1. {a, b, c} = {a} \cup {b} \cup {c}
    OBVIOUS
  <2>2. IsFiniteSet({a}) /\ IsFiniteSet({b}) /\ IsFiniteSet({c})
    BY FS_Singleton
  <2>3. IsFiniteSet({a} \cup {b})
    BY <2>2, FS_Union
  <2>4. IsFiniteSet({a} \cup {b} \cup {c})
    BY <2>2, <2>3, FS_Union
  <2> QED
    BY <2>1, <2>4
<1>2. ASSUME NEW s \in {"date_filter", "usd_filter_q3", "usd_filter_q4"}, s \in Followed,
             NEW outs, \A o \in outs : \E d \in Outputs(s) : o = Out(d, AnyWorker, p.msg),
             Pass(s, p, outs)
      PROVE  FlowInv'
  <2>1. /\ Outputs("date_filter") = {"usd_filter_q3", "usd_filter_q4", "pay_format_filter"}
        /\ Outputs("usd_filter_q3") = {"amount_filter_q3", "amount_filter_q3", "amount_filter_q3"}
        /\ Outputs("usd_filter_q4") =
             {"scather_gather_mapper", "scather_gather_mapper", "average_per_pay_format_mapper"}
    BY WiringTable
  <2>2. IsFiniteSet(Outputs(s)) /\ "scather_gather_aggregator" \notin Outputs(s)
    <3>1. \E a, b, c : Outputs(s) = {a, b, c}
      BY <2>1
    <3>2. PICK a, b, c : Outputs(s) = {a, b, c}
      BY <3>1
    <3>3. IsFiniteSet(Outputs(s))
      <4>1. IsFiniteSet({a, b, c})
        BY <1>1
      <4> QED
        BY <3>2, <4>1
    <3>4. "scather_gather_aggregator" \notin Outputs(s)
      BY WiringTable
    <3> QED
      BY <3>3, <3>4
  <2> DEFINE g == [d \in Outputs(s) |-> Out(d, AnyWorker, p.msg)]
  <2>3. \A o \in outs : \E d \in Outputs(s) : o = g[d]
    BY <1>2
  <2>4. \A o \in outs : /\ o.stage \in Outputs(s)
                        /\ o.stage = "scather_gather_aggregator" => IsFiniteSet(o.msg.value)
                        /\ o.to # EveryWorker
    BY <1>2, <2>2 DEF Out, AnyWorker, EveryWorker
  <2> HIDE DEF g
  <2>5. SoundOuts(s, outs)
    <3>1. IsFiniteSet(outs)
      BY <2>2, <2>3, ImageFinite
    <3> QED
      BY <2>4, <3>1 DEF SoundOuts
  <2>6. Holds(s, {}) /\ s # Converter
    BY DEF Holds, Converter
  <2> QED
    BY <1>2, <2>5, <2>6, HandleFlows DEF Pass
<1>3. "date_filter" \in Followed
  BY BranchTable, QueryAssumption DEF FlowInv, KeyInv
<1>4. ASSUME FilterDate(p) PROVE FlowInv'
  <2>1. \A o \in DateFilterOutputs(p.msg) :
           \E d \in Outputs("date_filter") : o = Out(d, AnyWorker, p.msg)
    BY WiringTable DEF DateFilterOutputs
  <2> QED
    BY <1>2, <1>3, <1>4, <2>1 DEF FilterDate
<1>5. ASSUME "usd_filter_q3" \in Followed, FilterUsdQ3(p) PROVE FlowInv'
  <2> DEFINE outs == {Out(d, AnyWorker, p.msg) :
                        d \in IF InDollars(p.msg) THEN {"amount_filter_q3"} ELSE {}}
  <2>1. \A o \in outs : \E d \in Outputs("usd_filter_q3") : o = Out(d, AnyWorker, p.msg)
    BY WiringTable
  <2>2. Pass("usd_filter_q3", p, outs)
    BY <1>5 DEF FilterUsdQ3
  <2> HIDE DEF outs
  <2> QED
    BY <1>2, <1>5, <2>1, <2>2
<1>6. ASSUME "usd_filter_q4" \in Followed, FilterUsdQ4(p) PROVE FlowInv'
  <2> DEFINE outs == {Out(d, AnyWorker, p.msg) :
                        d \in IF InDollars(p.msg) THEN Outputs("usd_filter_q4") ELSE {}}
  <2>1. \A o \in outs : \E d \in Outputs("usd_filter_q4") : o = Out(d, AnyWorker, p.msg)
    OBVIOUS
  <2>2. Pass("usd_filter_q4", p, outs)
    BY <1>6 DEF FilterUsdQ4
  <2> HIDE DEF outs
  <2> QED
    BY <1>2, <1>6, <2>1, <2>2
<1> QED
  BY <1>4, <1>5, <1>6

(* Rows that are judged go to the gateway, a message each.                 *)
LEMMA JudgedSound ==
    ASSUME NEW rows, IsFiniteSet(rows), NEW averages
    PROVE  SoundOuts("amount_filter_q3", Judged(rows, averages))
<1> DEFINE outs == Judged(rows, averages)
           g == [r \in rows |-> Out("gateway", AnyWorker, r)]
<1>1. \A o \in outs : \E r \in rows : o = g[r]
  BY DEF Judged
<1>2. \A o \in outs : /\ o.stage \in Outputs("amount_filter_q3")
                      /\ o.stage = "scather_gather_aggregator" => IsFiniteSet(o.msg.value)
                      /\ o.to # EveryWorker
  BY WiringTable DEF Judged, Out, AnyWorker, EveryWorker
<1> HIDE DEF outs, g
<1>3. IsFiniteSet(outs)
  BY <1>1, ImageFinite
<1>4. SoundOuts("amount_filter_q3", outs)
  BY <1>2, <1>3 DEF SoundOuts
<1> QED
  BY <1>4 DEF outs

(* The averages: kept by format, sent once to each joiner and filter.      *)
LEMMA AveragesFlow ==
    ASSUME FlowInv, KeyInv', hasty = {}, client.query = 3, NEW w, NEW p
    PROVE  /\ MapAverage(w, p) => FlowInv'
           /\ SendToJoiner(w) => FlowInv'
           /\ JoinAverage(w, p) => FlowInv'
           /\ SendAverages(w) => FlowInv'
<1> DEFINE mapper == "average_per_pay_format_mapper"
           joiner == "average_per_pay_format_joiner"
<1>1. mapper \in Followed /\ joiner \in Followed /\ mapper # Converter /\ joiner # Converter
      /\ mapper \in Callback /\ joiner \in Callback
  BY BranchTable DEF Converter, Callback
<1>2. \A m : Holds(mapper, m) /\ Holds(joiner, m)
  BY DEF Holds
<1>3. ASSUME MapAverage(w, p) PROVE FlowInv'
  <2>1. \E learned : Handle(mapper, w, p, learned, {})
    BY <1>3 DEF MapAverage
  <2> QED
    BY <1>1, <1>2, <2>1, SingleUnion, HandleFlows
<1>4. ASSUME JoinAverage(w, p) PROVE FlowInv'
  <2>1. \E learned : Handle(joiner, w, p, learned, {})
    BY <1>4 DEF JoinAverage
  <2> QED
    BY <1>1, <1>2, <2>1, SingleUnion, HandleFlows
<1>5. ASSUME SendToJoiner(w) PROVE FlowInv'
  <2> DEFINE averages == memory[mapper][w]
             outs == {Out(joiner, AnyWorker, a) : a \in AverageRecords(averages)}
             g == [f \in Formats |->
                     Out(joiner, AnyWorker,
                         [format |-> f, sum |-> averages[f].sum, count |-> averages[f].count])]
  <2>1. \A o \in outs : \E f \in Formats : o = g[f]
    BY DEF AverageRecords, Averaged
  <2>2. \A o \in outs : /\ o.stage \in Outputs(mapper)
                        /\ o.stage = "scather_gather_aggregator" => IsFiniteSet(o.msg.value)
                        /\ o.to # EveryWorker
    BY WiringTable DEF Out, AnyWorker, EveryWorker
  <2>3. PostProcess(mapper, w, NoAverages, outs)
    BY <1>5 DEF SendToJoiner
  <2> HIDE DEF outs, g
  <2>4. SoundOuts(mapper, outs)
    <3>1. IsFiniteSet(Formats)
      BY QueryAssumption
    <3>2. IsFiniteSet(outs)
      BY <2>1, <3>1, ImageFinite
    <3> QED
      BY <2>2, <3>2 DEF SoundOuts
  <2> QED
    BY <1>1, <1>2, <2>3, <2>4, PostProcessFlows
<1>6. ASSUME SendAverages(w) PROVE FlowInv'
  <2> DEFINE m == AverageRecords(memory[joiner][w])
             outs == {Out("amount_filter_q3", EveryWorker, m)}
  <2>1. PostProcess(joiner, w, NoAverages, outs)
    BY <1>6 DEF SendAverages
  <2>2. SoundOuts(joiner, outs)
    <3>1. IsFiniteSet(outs)
      BY FS_Singleton
    <3>2. \A o \in outs : o.stage = "amount_filter_q3" /\ "amount_filter_q3" \in Outputs(joiner)
      BY WiringTable DEF Out
    <3>3. \E x : outs = {Out("amount_filter_q3", EveryWorker, x)}
      OBVIOUS
    <3> HIDE DEF outs
    <3> QED
      BY <3>1, <3>2, <3>3 DEF SoundOuts
  <2> HIDE DEF outs
  <2> QED
    BY <1>1, <1>2, <2>1, <2>2, PostProcessFlows
<1> QED
  BY <1>3, <1>4, <1>5, <1>6

(* The amount filter of query 3.                                           *)
LEMMA AmountFilterFlows ==
    ASSUME FlowInv, KeyInv', hasty = {}, client.query = 3,
           NEW w \in WorkersOf("amount_filter_q3"), NEW p
    PROVE  /\ TakeAverages(w, p) => FlowInv'
           /\ FilterAmountQ3(w, p) => FlowInv'
           /\ JudgePending(w) => FlowInv'
<1> DEFINE s == "amount_filter_q3"
           m == memory[s][w]
<1>1. s \in Followed /\ s # Converter /\ s \in Callback
  BY BranchTable DEF Converter, Callback
<1>2. m = [averages |-> m.averages, pending |-> m.pending, ready |-> m.ready]
      /\ IsFiniteSet(m.pending) /\ Holds(s, m)
  <2>1. Holds(s, m)
    BY <1>1 DEF FlowInv, HoldInv
  <2> QED
    BY <2>1 DEF Holds
<1>3. \A n : Holds(s, n) <=>
         /\ n = [averages |-> n.averages, pending |-> n.pending, ready |-> n.ready]
         /\ IsFiniteSet(n.pending)
  BY DEF Holds
<1>4. ASSUME TakeAverages(w, p) PROVE FlowInv'
  <2>1. PICK averages : Handle(s, w, p, [m EXCEPT !.averages = averages], {})
    BY <1>4 DEF TakeAverages
  <2> DEFINE n == [m EXCEPT !.averages = averages]
  <2>2. n = [averages |-> n.averages, pending |-> m.pending, ready |-> n.ready] /\ n.pending = m.pending
    BY <1>2
  <2> HIDE DEF m, n
  <2>3. Holds(s, n)
    BY <1>2, <1>3, <2>2
  <2>4. Handle(s, w, p, n, {})
    BY <2>1 DEF n, m
  <2> QED
    BY <1>1, <2>3, <2>4, SingleUnion, HandleFlows
<1>5. ASSUME FilterAmountQ3(w, p) PROVE FlowInv'
  <2>1. CASE m.ready
    <3>1. Handle(s, w, p, m, Judged({p.msg}, m.averages))
      BY <1>5, <2>1 DEF FilterAmountQ3
    <3>2. SoundOuts(s, Judged({p.msg}, m.averages))
      BY JudgedSound, FS_Singleton
    <3> HIDE DEF m
    <3> QED
      BY <1>1, <1>2, <3>1, <3>2, HandleFlows
  <2>2. CASE ~m.ready
    <3> DEFINE n == Kept(m, p.msg)
    <3>1. Handle(s, w, p, n, {})
      BY <1>5, <2>2 DEF FilterAmountQ3
    <3>2. n = [averages |-> n.averages, pending |-> n.pending, ready |-> n.ready]
          /\ n.pending = m.pending \cup {p.msg}
      BY <1>2 DEF Kept
    <3> HIDE DEF m, n
    <3>3. IsFiniteSet(n.pending)
      <4>1. IsFiniteSet({p.msg})
        BY FS_Singleton
      <4>2. IsFiniteSet(m.pending \cup {p.msg})
        BY <1>2, <4>1, FS_Union
      <4> QED
        BY <3>2, <4>2
    <3>4. Holds(s, n)
      BY <1>3, <3>2, <3>3
    <3> QED
      BY <1>1, <3>1, <3>4, SingleUnion, HandleFlows
  <2> QED
    BY <2>1, <2>2
<1>6. ASSUME JudgePending(w) PROVE FlowInv'
  <2> DEFINE n == [Empty(s) EXCEPT !.ready = TRUE]
  <2>1. PostProcess(s, w, n, Judged(m.pending, m.averages))
    BY <1>6 DEF JudgePending, Pending
  <2>2. n = [averages |-> n.averages, pending |-> n.pending, ready |-> n.ready] /\ n.pending = {}
    <3>1. PICK no : Empty(s) = [averages |-> {}, pending |-> {}, ready |-> no]
      BY DEF Empty
    <3>2. PICK yes : n = [Empty(s) EXCEPT !.ready = yes]
      OBVIOUS
    <3> HIDE DEF n
    <3>3. n = [averages |-> {}, pending |-> {}, ready |-> yes]
      BY <3>1, <3>2
    <3> QED
      BY <3>3
  <2> HIDE DEF m, n
  <2>3. Holds(s, n)
    BY <1>3, <2>2, FS_EmptySet
  <2>4. SoundOuts(s, Judged(m.pending, m.averages))
    BY <1>2, JudgedSound
  <2> QED
    BY <1>1, <2>1, <2>3, <2>4, PostProcessFlows
<1> QED
  BY <1>4, <1>5, <1>6

(* Query 3.                                                                *)
LEMMA NextQ3Flows ==
    ASSUME FlowInv, KeyInv', hasty = {}, NextQ3
    PROVE  FlowInv'
<1>1. client.query = 3
  BY DEF NextQ3
<1>2. "usd_filter_q3" \in Followed /\ "usd_filter_q4" \in Followed
  BY <1>1, BranchTable
<1> QED
  BY <1>1, <1>2, FiltersFlow, AveragesFlow, AmountFilterFlows DEF NextQ3

-----------------------------------------------------------------------------
(* Query 4.  The mapper keeps edges, and sends the fans of its accounts.   *)
LEMMA MapperFlows ==
    ASSUME HashIsNatural, FlowInv, KeyInv', hasty = {}, client.query = 4,
           NEW w \in WorkersOf("scather_gather_mapper"), NEW p
    PROVE  /\ MapEdge(w, p) => FlowInv'
           /\ SendFans(w) => FlowInv'
<1> DEFINE s == "scather_gather_mapper"
           d == "scather_gather_aggregator"
           m == memory[s][w]
<1>1. s \in Followed /\ s # Converter /\ s \in Callback
  BY BranchTable DEF Converter, Callback
<1>2. \A n : Holds(s, n) <=> IsFiniteSet(n)
  BY DEF Holds
<1>3. IsFiniteSet(m)
  BY <1>1, <1>2 DEF FlowInv, HoldInv
<1>4. ASSUME MapEdge(w, p) PROVE FlowInv'
  <2>1. PICK edge : Handle(s, w, p, m \cup {edge}, {})
    BY <1>4 DEF MapEdge
  <2> HIDE DEF m
  <2>2. IsFiniteSet({edge})
    BY FS_Singleton
  <2>3. Holds(s, m \cup {edge})
    BY <1>2, <1>3, <2>2, FS_Union
  <2> QED
    BY <1>1, <2>1, <2>3, SingleUnion, HandleFlows
<1>5. ASSUME NEW type, NEW pairs, IsFiniteSet(pairs)
      PROVE  SingleOuts(s, Grouped(type, d, pairs))
  <2> DEFINE outs == Grouped(type, d, pairs)
             g == [k \in Firsts(pairs) |->
                     Out(d, Shard(d, k), [type |-> type, key |-> k, value |-> Seconds(pairs, k)])]
  <2>1. \A o \in outs : \E k \in Firsts(pairs) : o = g[k]
    BY DEF Grouped
  <2>2. IsFiniteSet(Firsts(pairs))
    BY <1>5, PairsFinite
  <2>3. ASSUME NEW o \in outs
        PROVE  o.stage = d /\ IsFiniteSet(o.msg.value) /\ o.to # EveryWorker
    <3>1. PICK k \in Firsts(pairs) : o = g[k]
      BY <2>1
    <3>2. o.stage = d /\ o.msg.value = Seconds(pairs, k) /\ o.to = Shard(d, k)
      BY <3>1 DEF Out
    <3>3. IsFiniteSet(Seconds(pairs, k))
      BY <1>5, PairsFinite
    <3>4. Shard(d, k) \in Nat
      BY ShardIsWorker DEF Sharded
    <3> QED
      BY <3>2, <3>3, <3>4 DEF EveryWorker
  <2>4. d \in Outputs(s)
    BY WiringTable
  <2> HIDE DEF outs, g
  <2>5. IsFiniteSet(outs)
    BY <2>1, <2>2, ImageFinite
  <2>6. SingleOuts(s, outs)
    BY <2>3, <2>4, <2>5 DEF SingleOuts
  <2> QED
    BY <2>6 DEF outs
<1>6. ASSUME SendFans(w) PROVE FlowInv'
  <2>1. PostProcess(s, w, {}, Grouped("FANOUT", d, m) \cup Grouped("FANIN", d, Turned(m)))
    BY <1>6 DEF SendFans
  <2> HIDE DEF m
  <2>2. SoundOuts(s, Grouped("FANOUT", d, m) \cup Grouped("FANIN", d, Turned(m)))
    BY <1>3, <1>5, PairsFinite, SingleUnion
  <2>3. Holds(s, {})
    BY <1>2, FS_EmptySet
  <2> QED
    BY <1>1, <2>1, <2>2, <2>3, PostProcessFlows
<1> QED
  BY <1>4, <1>6

(* Both sides of a fan stay finite.                                        *)
LEMMA LearnHolds ==
    ASSUME NEW s \in {"scather_gather_aggregator", "scather_gather_pair_joiner"},
           NEW m, Shape(s, m), Holds(s, m), NEW type, NEW pairs, IsFiniteSet(pairs)
    PROVE  Holds(s, Learn(m, type, pairs))
<1> DEFINE n == Learn(m, type, pairs)
<1>1. m = [fanout |-> m.fanout, fanin |-> m.fanin]
  BY DEF Shape
<1>2. IsFiniteSet(m.fanout) /\ IsFiniteSet(m.fanin)
  BY DEF Holds
<1>3. \/ n.fanout = m.fanout \cup pairs /\ n.fanin = m.fanin
      \/ n.fanout = m.fanout /\ n.fanin = m.fanin \cup pairs
  BY <1>1 DEF Learn
<1>4. IsFiniteSet(m.fanout \cup pairs) /\ IsFiniteSet(m.fanin \cup pairs)
  BY <1>2, FS_Union
<1> HIDE DEF n
<1>5. Holds(s, n)
  BY <1>2, <1>3, <1>4 DEF Holds
<1> QED
  BY <1>5 DEF n

(* The aggregator keeps fans, and sends the middles of those that are wide.*)
LEMMA AggregatorFlows ==
    ASSUME HashIsNatural, FlowInv, KeyInv', hasty = {}, client.query = 4,
           NEW w \in WorkersOf("scather_gather_aggregator"), NEW p
    PROVE  /\ Aggregate(w, p) => FlowInv'
           /\ SendMiddles(w) => FlowInv'
<1> DEFINE s == "scather_gather_aggregator"
           d == "scather_gather_pair_joiner"
           m == memory[s][w]
<1>1. s \in Followed /\ s # Converter /\ s \in Callback
  BY BranchTable DEF Converter, Callback
<1>2. Holds(s, m) /\ Shape(s, m)
  BY <1>1 DEF FlowInv, HoldInv, KeyInv, MemoryInv, Sharded, Belongs
<1>3. IsFiniteSet(m.fanout) /\ IsFiniteSet(m.fanin)
  BY <1>2 DEF Holds
<1>4. ASSUME Aggregate(w, p) PROVE FlowInv'
  <2>1. Handle(s, w, p, Learn(m, p.msg.type, {p.msg.key} \X p.msg.value), {})
    BY <1>4 DEF Aggregate
  <2>2. IsFiniteSet(p.msg.value)
    <3>1. p \in inbox[s]
      BY <2>1 DEF Handle, Take
    <3> QED
      BY <1>1, <3>1 DEF FlowInv, PacketsInv
  <2>3. IsFiniteSet({p.msg.key} \X p.msg.value)
    BY <2>2, FS_Singleton, FS_Product
  <2>4. Holds(s, Learn(m, p.msg.type, {p.msg.key} \X p.msg.value))
    BY <1>2, <2>3, LearnHolds
  <2> HIDE DEF m
  <2> QED
    BY <1>1, <2>1, <2>4, SingleUnion, HandleFlows
<1>5. ASSUME NEW type, NEW pairs, IsFiniteSet(pairs)
      PROVE  SingleOuts(s, Middles(type, AboveThreshold(pairs)))
  <2> DEFINE outs == Middles(type, AboveThreshold(pairs))
             g == [x \in pairs |-> Out(d, Shard(d, x[2]), [type |-> type, key |-> x[1], value |-> x[2]])]
  <2>1. \A o \in outs : \E x \in pairs : o = g[x]
    BY DEF Middles, AboveThreshold
  <2>2. ASSUME NEW o \in outs
        PROVE  o.stage = d /\ o.to # EveryWorker
    <3>1. PICK x \in pairs : o = g[x]
      BY <2>1
    <3>2. o.stage = d /\ o.to = Shard(d, x[2])
      BY <3>1 DEF Out
    <3>3. Shard(d, x[2]) \in Nat
      BY ShardIsWorker DEF Sharded
    <3> QED
      BY <3>2, <3>3 DEF EveryWorker
  <2>3. d \in Outputs(s)
    BY WiringTable
  <2> HIDE DEF outs, g
  <2>4. IsFiniteSet(outs)
    BY <1>5, <2>1, ImageFinite
  <2>5. SingleOuts(s, outs)
    BY <2>2, <2>3, <2>4 DEF SingleOuts
  <2> QED
    BY <2>5 DEF outs
<1>6. ASSUME SendMiddles(w) PROVE FlowInv'
  <2> DEFINE A == Middles("FANOUT", AboveThreshold(m.fanout))
             B == Middles("FANIN", AboveThreshold(m.fanin))
  <2>1. PostProcess(s, w, Empty(s), A \cup B)
    BY <1>6 DEF SendMiddles
  <2>2. SoundOuts(s, A \cup B)
    <3>1. SingleOuts(s, A) /\ SingleOuts(s, B)
      BY <1>3, <1>5
    <3> HIDE DEF A, B
    <3> QED
      BY <3>1, SingleUnion
  <2>3. Holds(s, Empty(s))
    <3>1. Empty(s) = [fanout |-> {}, fanin |-> {}]
      BY DEF Empty
    <3> QED
      BY <3>1, FS_EmptySet DEF Holds
  <2> HIDE DEF A, B
  <2> QED
    BY <1>1, <2>1, <2>2, <2>3, PostProcessFlows
<1> QED
  BY <1>4, <1>6

(* The pair joiner keeps middles, and sends the pairs that meet in them.   *)
LEMMA PairJoinerFlows ==
    ASSUME HashIsNatural, FlowInv, KeyInv', hasty = {}, client.query = 4,
           NEW w \in WorkersOf("scather_gather_pair_joiner"), NEW p
    PROVE  /\ JoinMiddle(w, p) => FlowInv'
           /\ SendPairs(w) => FlowInv'
<1> DEFINE s == "scather_gather_pair_joiner"
           d == "scather_gather_joiner"
           m == memory[s][w]
<1>1. s \in Followed /\ s # Converter /\ s \in Callback
  BY BranchTable DEF Converter, Callback
<1>2. Holds(s, m) /\ Shape(s, m)
  BY <1>1 DEF FlowInv, HoldInv, KeyInv, MemoryInv, Sharded, Belongs
<1>3. IsFiniteSet(m.fanout) /\ IsFiniteSet(m.fanin)
  BY <1>2 DEF Holds
<1>4. ASSUME JoinMiddle(w, p) PROVE FlowInv'
  <2>1. Handle(s, w, p, Learn(m, p.msg.type, {<<p.msg.value, p.msg.key>>}), {})
    BY <1>4 DEF JoinMiddle
  <2>2. IsFiniteSet({<<p.msg.value, p.msg.key>>})
    BY FS_Singleton
  <2>3. Holds(s, Learn(m, p.msg.type, {<<p.msg.value, p.msg.key>>}))
    BY <1>2, <2>2, LearnHolds
  <2> HIDE DEF m
  <2> QED
    BY <1>1, <2>1, <2>3, SingleUnion, HandleFlows
<1>5. ASSUME SendPairs(w) PROVE FlowInv'
  <2> DEFINE pairsOf(mid) == Seconds(m.fanout, mid) \X Seconds(m.fanin, mid)
             Through(mid) == {Out(d, Shard(d, pair), <<pair[1], pair[2], mid>>) : pair \in pairsOf(mid)}
             T == [mid \in Firsts(m.fanout) |-> Through(mid)]
             Sets == {Through(mid) : mid \in Firsts(m.fanout)}
             outs == UNION Sets
  <2>1. PostProcess(s, w, Empty(s), outs)
    BY <1>5 DEF SendPairs
  <2>2. ASSUME NEW mid
        PROVE  /\ IsFiniteSet(Through(mid))
               /\ \A o \in Through(mid) : o.stage = d /\ o.to # EveryWorker
    <3> DEFINE g == [pair \in pairsOf(mid) |-> Out(d, Shard(d, pair), <<pair[1], pair[2], mid>>)]
    <3>1. IsFiniteSet(pairsOf(mid))
      BY <1>3, PairsFinite, FS_Product
    <3>2. \A o \in Through(mid) : \E pair \in pairsOf(mid) : o = g[pair]
      OBVIOUS
    <3>3. ASSUME NEW o \in Through(mid)
          PROVE  o.stage = d /\ o.to # EveryWorker
      <4>1. PICK pair \in pairsOf(mid) : o = g[pair]
        BY <3>2
      <4>2. o.stage = d /\ o.to = Shard(d, pair)
        BY <4>1 DEF Out
      <4>3. Shard(d, pair) \in Nat
        BY ShardIsWorker DEF Sharded
      <4> QED
        BY <4>2, <4>3 DEF EveryWorker
    <3> HIDE DEF pairsOf, Through, g
    <3>4. IsFiniteSet(Through(mid))
      BY <3>1, <3>2, ImageFinite
    <3> QED
      BY <3>3, <3>4
  <2>3. SoundOuts(s, outs)
    <3>1. IsFiniteSet(Sets)
      <4>1. \A S \in Sets : \E mid \in Firsts(m.fanout) : S = T[mid]
        OBVIOUS
      <4>2. IsFiniteSet(Firsts(m.fanout))
        BY <1>3, PairsFinite
      <4> HIDE DEF Sets, T
      <4> QED
        BY <4>1, <4>2, ImageFinite
    <3>2. \A S \in Sets : IsFiniteSet(S) /\ \A o \in S : o.stage = d /\ o.to # EveryWorker
      <4> HIDE DEF Through
      <4> QED
        BY <2>2
    <3>3. d \in Outputs(s)
      BY WiringTable
    <3> HIDE DEF Sets
    <3>4. IsFiniteSet(outs)
      BY <3>1, <3>2, FS_UNION
    <3>5. \A o \in outs : o.stage = d /\ o.to # EveryWorker
      BY <3>2
    <3> HIDE DEF outs
    <3> QED
      BY <3>3, <3>4, <3>5 DEF SoundOuts
  <2>4. Holds(s, Empty(s))
    <3>1. Empty(s) = [fanout |-> {}, fanin |-> {}]
      BY DEF Empty
    <3> QED
      BY <3>1, FS_EmptySet DEF Holds
  <2> HIDE DEF outs
  <2> QED
    BY <1>1, <2>1, <2>3, <2>4, PostProcessFlows
<1> QED
  BY <1>4, <1>5

(* The joiner keeps triples, and sends the pairs that have enough of them. *)
LEMMA JoinerFlows ==
    ASSUME FlowInv, KeyInv', hasty = {}, client.query = 4,
           NEW w \in WorkersOf("scather_gather_joiner"), NEW p
    PROVE  /\ JoinPair(w, p) => FlowInv'
           /\ SendScatterGather(w) => FlowInv'
<1> DEFINE s == "scather_gather_joiner"
           m == memory[s][w]
<1>1. s \in Followed /\ s # Converter /\ s \in Callback
  BY BranchTable DEF Converter, Callback
<1>2. \A n : Holds(s, n) <=> IsFiniteSet(n)
  BY DEF Holds
<1>3. IsFiniteSet(m)
  BY <1>1, <1>2 DEF FlowInv, HoldInv
<1>4. ASSUME JoinPair(w, p) PROVE FlowInv'
  <2>1. Handle(s, w, p, m \cup {p.msg}, {})
    BY <1>4 DEF JoinPair
  <2> HIDE DEF m
  <2>2. IsFiniteSet({p.msg})
    BY FS_Singleton
  <2>3. Holds(s, m \cup {p.msg})
    BY <1>2, <1>3, <2>2, FS_Union
  <2> QED
    BY <1>1, <2>1, <2>3, SingleUnion, HandleFlows
<1>5. ASSUME SendScatterGather(w) PROVE FlowInv'
  <2> DEFINE Met(pair) == {t \in m : <<t[1], t[2]>> = pair}
             pairs == {x \in PairsOf(m) : x[1] # x[2] /\ Cardinality(Met(x)) >= Threshold}
             outs == {Out("gateway", AnyWorker, pair) : pair \in pairs}
             g == [pair \in PairsOf(m) |-> Out("gateway", AnyWorker, pair)]
  <2>1. PostProcess(s, w, {}, outs)
    BY <1>5 DEF SendScatterGather
  <2>2. \A o \in outs : \E pair \in PairsOf(m) : o = g[pair]
    OBVIOUS
  <2>3. \A o \in outs : o.stage = "gateway" /\ o.to # EveryWorker
    <3> HIDE DEF pairs
    <3> QED
      BY DEF Out, AnyWorker, EveryWorker
  <2> HIDE DEF outs, g, m
  <2>4. IsFiniteSet(outs)
    BY <1>3, <2>2, PairsFinite, ImageFinite
  <2>5. SoundOuts(s, outs)
    BY <2>3, <2>4, WiringTable DEF SoundOuts
  <2>6. Holds(s, {})
    BY <1>2, FS_EmptySet
  <2> QED
    BY <1>1, <2>1, <2>5, <2>6, PostProcessFlows
<1> QED
  BY <1>4, <1>5

(* Query 4.                                                                *)
LEMMA NextQ4Flows ==
    ASSUME HashIsNatural, FlowInv, KeyInv', hasty = {}, NextQ4
    PROVE  FlowInv'
<1>1. client.query = 4
  BY DEF NextQ4
<1>2. "usd_filter_q4" \in Followed
  BY <1>1, BranchTable
<1> QED
  BY <1>1, <1>2, FiltersFlow, MapperFlows, AggregatorFlows, PairJoinerFlows, JoinerFlows DEF NextQ4

-----------------------------------------------------------------------------
(* Query 5.  The filter of payment formats sends a transaction once, or not.*)
LEMMA FilterPayFormatFlows ==
    ASSUME HashIsNatural, FlowInv, KeyInv', hasty = {}, client.query = 5,
           NEW p, FilterPayFormat(p)
    PROVE  FlowInv'
<1> DEFINE s == "pay_format_filter"
           outs == PayFormatOutputs(p.msg)
<1>1. s \in Followed /\ s # Converter
  BY BranchTable DEF Converter
<1>2. ConversionShard(p.msg) \in Nat
  BY ShardIsWorker DEF ConversionShard, Sharded
<1>3. outs = {} \/ \E o : /\ outs = {o} /\ o.to # EveryWorker
                         /\ o.stage \in {"amount_filter_q5", "currency_converter"}
  BY <1>2 DEF PayFormatOutputs, Out, AnyWorker, EveryWorker
<1>4. IsFiniteSet(outs)
  <2>1. \A o : IsFiniteSet({o}) /\ IsFiniteSet({})
    BY FS_EmptySet, FS_Singleton
  <2>2. CASE outs = {}
    BY <2>1, <2>2
  <2>3. CASE outs # {}
    <3>1. PICK o : outs = {o}
      BY <1>3, <2>3
    <3>2. IsFiniteSet({o})
      BY <2>1
    <3> QED
      BY <3>1, <3>2
  <2> QED
    BY <2>2, <2>3
<1>5. Outputs(s) = {"amount_filter_q5", "currency_converter"}
  BY WiringTable
<1>6. Handle(s, 0, p, {}, outs)
  BY DEF FilterPayFormat, Pass
<1>7. Holds(s, {})
  BY DEF Holds
<1> HIDE DEF outs
<1>8. SoundOuts(s, outs)
  BY <1>3, <1>4, <1>5 DEF SoundOuts
<1> QED
  BY <1>1, <1>6, <1>7, <1>8, HandleFlows

(* The converter: a cached rate, a static one, a request and its end.      *)
LEMMA ConverterFlows ==
    ASSUME FlowInv, KeyInv', hasty = {}, client.query = 5, NEW w \in WorkersOf(Converter), NEW p
    PROVE  /\ ConvertCached(w, p) \/ ConvertStatic(w, p) \/ Ask(w, p) => FlowInv'
           /\ AskAnswers(w) \/ AskFails(w) => FlowInv'
<1> DEFINE s == Converter
           m == memory[s][w]
           key == ConversionKey(p.msg)
<1>1. s \in Followed
  BY BranchTable DEF Converter
<1>2. Holds(s, m)
  BY <1>1 DEF FlowInv, HoldInv
<1>3. \A k : IsFiniteSet(RateOf(k)) /\ IsFiniteSet({})
  BY FS_EmptySet, FS_Singleton DEF RateOf
<1>4. ASSUME ConvertCached(w, p) PROVE FlowInv'
  <2> DEFINE rates == CachedRate(w, key)
             g == [c \in m.cache |-> c.rate]
  <2>1. Handle(s, w, p, m, Converted(p.msg, rates))
    BY <1>4 DEF ConvertCached
  <2>2. IsFiniteSet(m.cache)
    BY <1>2 DEF Holds, Converter
  <2>3. \A r \in rates : \E c \in m.cache : r = g[c]
    BY DEF CachedRate
  <2> HIDE DEF rates, g
  <2>4. SoundOuts(s, Converted(p.msg, rates))
    BY <2>2, <2>3, ImageFinite, ConvertedSound
  <2> QED
    BY <1>1, <1>2, <2>1, <2>4, HandleFlows
<1>5. ASSUME ConvertStatic(w, p) PROVE FlowInv'
  <2> DEFINE n == WithRate(m, key, RateOf(key))
  <2>1. Handle(s, w, p, n, Converted(p.msg, RateOf(key))) /\ m.asking = {}
    BY <1>5 DEF ConvertStatic, Idle
  <2>2. Holds(s, n) /\ n.asking = {}
    BY <1>2, <1>3, WithRateHolds
  <2>3. SoundOuts(s, Converted(p.msg, RateOf(key)))
    BY <1>3, ConvertedSound
  <2> HIDE DEF n
  <2> QED
    BY <1>1, <2>1, <2>2, <2>3, HandleFlows
<1>6. ASSUME Ask(w, p) PROVE FlowInv'
  BY <1>1, <1>6, AskFlows
<1>7. ASSUME AskAnswers(w) PROVE FlowInv'
  <2>1. PICK a \in memory[Converter][w].asking :
           Finish(w, a, RateOf(ConversionKey(a.packet.msg)))
    BY <1>7 DEF AskAnswers
  <2> QED
    BY <1>1, <1>3, <2>1, FinishFlows
<1>8. ASSUME AskFails(w) PROVE FlowInv'
  <2>1. PICK a \in memory[Converter][w].asking :
           IF a.attempt < Attempts
             THEN /\ memory' = [memory EXCEPT ![Converter][w].asking = {[a EXCEPT !.attempt = @ + 1]}]
                  /\ UNCHANGED <<client, inbox, processed, sent, closing, results>>
             ELSE Finish(w, a, {})
    BY <1>8 DEF AskFails
  <2>2. CASE a.attempt < Attempts
    BY <1>1, <2>1, <2>2, RetryFlows
  <2>3. CASE ~(a.attempt < Attempts)
    BY <1>1, <1>3, <2>1, <2>3, FinishFlows
  <2> QED
    BY <2>2, <2>3
<1> QED
  BY <1>4, <1>5, <1>6, <1>7, <1>8

(* The amount filter of query 5 counts, and sends nothing.                 *)
LEMMA FilterAmountQ5Flows ==
    ASSUME FlowInv, KeyInv', hasty = {}, client.query = 5, NEW p, FilterAmountQ5(p)
    PROVE  FlowInv'
<1> DEFINE s == "amount_filter_q5"
           outs == {Out("gateway", Nobody, p.msg) :
                      f \in {x \in {p.from} : Small(p.msg.amount_paid, Dollar(x))}}
<1>1. s \in Followed /\ s # Converter
  BY BranchTable DEF Converter
<1>2. outs \subseteq {Out("gateway", Nobody, p.msg)}
  OBVIOUS
<1>3. Handle(s, 0, p, {}, outs)
  BY DEF FilterAmountQ5, Pass
<1> HIDE DEF outs
<1>4. IsFiniteSet(outs)
  <2>1. IsFiniteSet({Out("gateway", Nobody, p.msg)})
    BY FS_Singleton
  <2> QED
    BY <1>2, <2>1, FS_Subset
<1>5. \A o \in outs : o.stage = "gateway" /\ o.to # EveryWorker
  BY <1>2 DEF Out, Nobody, EveryWorker
<1>6. SoundOuts(s, outs)
  BY <1>4, <1>5, WiringTable DEF SoundOuts
<1>7. Holds(s, {})
  BY DEF Holds
<1> QED
  BY <1>1, <1>3, <1>6, <1>7, HandleFlows

(* Query 5.                                                                *)
LEMMA NextQ5Flows ==
    ASSUME HashIsNatural, FlowInv, KeyInv', hasty = {}, NextQ5
    PROVE  FlowInv'
<1>1. client.query = 5
  BY DEF NextQ5
<1>2. CASE AnnounceCount
  BY <1>2, SendEofsFlows DEF AnnounceCount
<1> QED
  BY <1>1, <1>2, FilterPayFormatFlows, ConverterFlows, FilterAmountQ5Flows DEF NextQ5

-----------------------------------------------------------------------------
(* At first the rows of the client are at the date filter, all counted by  *)
(* the EOF of the gateway, and nothing is held or closed.                  *)
LEMMA InitFlows ==
    ASSUME Init
    PROVE  FlowInv
<1>1. KeyInv /\ client \in Clients
  BY InitKeeps DEF Init
<1>2. \A s \in Followed : s \in Stages /\ s # "gateway"
  BY <1>1, FollowedInputs
<1>3. IsFiniteSet(client.rows) /\ Cardinality(client.rows) \in Nat
  BY <1>1, QueryAssumption, FS_CardinalityType
<1>4. CountersInv
  BY DEF Init, CountersInv
<1>5. ASSUME NEW s \in Followed
      PROVE  /\ IsFiniteSet(inbox[s]) /\ Cardinality(inbox[s]) \in Nat
             /\ s = "date_filter" => Cardinality(inbox[s]) <= Cardinality(client.rows)
             /\ s # "date_filter" => inbox[s] = {}
             /\ \A p \in inbox[s] : p.from = "gateway" /\ s = "date_filter"
  <2>1. CASE s = "date_filter"
    <3> DEFINE g == [r \in client.rows |-> [from |-> "gateway", by |-> 0, to |-> AnyWorker, msg |-> r]]
    <3>1. inbox[s] = {[from |-> "gateway", by |-> 0, to |-> AnyWorker, msg |-> r] : r \in client.rows}
      BY <2>1 DEF Init
    <3>2. \A p \in inbox[s] : p.from = "gateway" /\ \E r \in client.rows : p = g[r]
      BY <3>1
    <3> HIDE DEF g
    <3>3. IsFiniteSet(inbox[s]) /\ Cardinality(inbox[s]) <= Cardinality(client.rows)
      BY <1>3, <3>2, ImageFinite
    <3> QED
      BY <2>1, <3>2, <3>3, FS_CardinalityType
  <2>2. CASE s # "date_filter"
    <3>1. inbox[s] = {}
      BY <2>2 DEF Init
    <3> QED
      BY <2>2, <3>1, FS_EmptySet
  <2> QED
    BY <2>1, <2>2
<1>6. "gateway" \in Inputs("date_filter") /\ Inputs("date_filter") = {"gateway"}
  BY WiringTable
<1>7. PacketsInv
  BY <1>5, <1>6 DEF PacketsInv
<1>8. ASSUME NEW s \in Followed, NEW w \in WorkersOf(s)
      PROVE  Holds(s, memory[s][w]) /\ (s = Converter => Idle(w))
  <2>1. memory[s][w] = Empty(s)
    BY DEF Init
  <2>2. Holds(s, Empty(s))
    BY FS_EmptySet DEF Holds, Empty
  <2>3. s = Converter => Empty(s).asking = {}
    BY DEF Empty, Converter
  <2> QED
    BY <2>1, <2>2, <2>3 DEF Idle
<1>9. HoldInv
  BY <1>8 DEF HoldInv
<1>10. FlowBounded
  <2> SUFFICES ASSUME NEW s \in Followed, NEW f \in Inputs(s)
               PROVE  Load(s, f) <= Supply(s, f)
    BY DEF FlowBounded
  <2>1. Busy(s) = {} /\ Cardinality(Busy(s)) = 0
    BY <1>8, FS_EmptySet DEF Busy
  <2>2. processed[s][f] = 0
    BY DEF Init
  <2>3. Supply(s, f) \in Nat
    BY <1>1, <1>4, <1>7, LoadTypes
  <2>4. CASE s = "date_filter"
    <3>1. OfFlux(inbox[s], f) = inbox[s] /\ Supply(s, f) = Cardinality(client.rows)
      BY <1>5, <1>6, <2>4 DEF OfFlux, Supply
    <3> QED
      BY <1>3, <1>5, <2>1, <2>2, <2>4, <3>1 DEF Load
  <2>5. CASE s # "date_filter"
    <3>1. OfFlux(inbox[s], f) = {} /\ Cardinality(OfFlux(inbox[s], f)) = 0
      BY <1>5, <2>5, FS_EmptySet DEF OfFlux
    <3> QED
      BY <2>1, <2>2, <2>3, <3>1 DEF Load
  <2> QED
    BY <2>4, <2>5
<1>11. EofInv /\ CallbackInv /\ ClosedWhole
  BY DEF Init, EofInv, CallbackInv, ClosedWhole
<1> QED
  BY <1>1, <1>4, <1>7, <1>9, <1>10, <1>11 DEF FlowInv

(* Every step.                                                             *)
LEMMA NextFlows ==
    ASSUME HashIsNatural, hasty = {}, hasty' = {}, FlowInv, [Next]_vars
    PROVE  FlowInv'
<1>1. KeyInv'
  BY NextKeeps DEF FlowInv
<1>2. CASE Shared
  BY <1>1, <1>2, FiltersFlow, SendEofsFlows DEF Shared, Announce
<1>3. CASE NextQ3
  BY <1>1, <1>3, NextQ3Flows
<1>4. CASE NextQ4
  BY <1>1, <1>4, NextQ4Flows
<1>5. CASE NextQ5
  BY <1>1, <1>5, NextQ5Flows
<1>6. CASE UNCHANGED vars
  <2>1. UNCHANGED <<client, inbox, memory, processed, sent, eofs, closed, announced>>
        /\ Followed' = Followed
    BY <1>6 DEF vars, Followed
  <2>2. (CountersInv /\ PacketsInv /\ HoldInv)'
    BY <2>1 DEF FlowInv, CountersInv, PacketsInv, HoldInv, Holds
  <2>3. (FlowBounded /\ EofInv)'
    BY <2>1 DEF FlowInv, FlowBounded, Load, Supply, Copies, Busy, Idle, EofInv
  <2>4. (CallbackInv /\ ClosedWhole)'
    BY <2>1 DEF FlowInv, CallbackInv, ClosedWhole, Idle
  <2> QED
    BY <1>1, <2>2, <2>3, <2>4 DEF FlowInv
<1>7. \A s : ~BeginHastily(s)
  BY DEF BeginHastily
<1> QED
  BY <1>2, <1>3, <1>4, <1>5, <1>6, <1>7 DEF Next, Work

-----------------------------------------------------------------------------
(* What closes a stage, and when a stage is hasty.                         *)
LEMMA ClosingSteps ==
    ASSUME [Next]_vars
    PROVE  /\ client' = client
           /\ \/ UNCHANGED closing
              \/ /\ \E s, w, left, outs : PostProcess(s, w, left, outs)
                 /\ hasty' = hasty
              \/ (\E s : SendEofs(s)) /\ hasty' = hasty
              \/ \E s \in Followed : BeginHastily(s)
<1> DEFINE Kind == \/ UNCHANGED closing
                   \/ /\ \E s, w, left, outs : PostProcess(s, w, left, outs)
                      /\ hasty' = hasty
                   \/ (\E s : SendEofs(s)) /\ hasty' = hasty
                   \/ \E s \in Followed : BeginHastily(s)
<1>1. \A s, w, p, learned, outs : Handle(s, w, p, learned, outs) => client' = client /\ Kind
  BY DEF Handle
<1>2. \A s, w, left, outs : PostProcess(s, w, left, outs) => client' = client /\ Kind
  BY DEF PostProcess
<1>3. \A s : SendEofs(s) => client' = client /\ Kind
  BY DEF SendEofs
<1>4. \A s \in Followed : BeginHastily(s) => client' = client /\ Kind
  BY DEF BeginHastily
<1>5. UNCHANGED vars => client' = client /\ Kind
  BY DEF vars, closing
<1>6. \A w, p : Ask(w, p) => client' = client /\ Kind
  BY DEF Ask
<1>7. \A w, a, rates : Finish(w, a, rates) => client' = client /\ Kind
  BY DEF Finish
<1>8. \A w : AskAnswers(w) \/ AskFails(w) => client' = client /\ Kind
  BY <1>7 DEF AskAnswers, AskFails
<1> HIDE DEF Kind
<1>9. Shared => client' = client /\ Kind
  BY <1>1, <1>3 DEF Shared, FilterDate, Pass, Announce
<1>10. NextQ3 => client' = client /\ Kind
  BY <1>1, <1>2 DEF NextQ3, FilterUsdQ3, FilterUsdQ4, Pass, SendToJoiner, MapAverage, SendAverages,
     JoinAverage, JudgePending, TakeAverages, FilterAmountQ3
<1>11. NextQ4 => client' = client /\ Kind
  BY <1>1, <1>2 DEF NextQ4, FilterUsdQ4, Pass, SendFans, MapEdge, SendMiddles, Aggregate,
     SendPairs, JoinMiddle, SendScatterGather, JoinPair
<1>12. NextQ5 => client' = client /\ Kind
  BY <1>1, <1>3, <1>6, <1>8 DEF NextQ5, FilterPayFormat, Pass, ConvertCached, ConvertStatic,
     FilterAmountQ5, AnnounceCount
<1>13. client' = client /\ Kind
  BY <1>4, <1>5, <1>9, <1>10, <1>11, <1>12 DEF Next, Work
<1> QED
  BY <1>13 DEF Kind

(* Only a beginning makes a stage hasty, and it stays so.                  *)
LEMMA HastyStays ==
    ASSUME [Next]_vars
    PROVE  client' = client /\ hasty \subseteq hasty'
BY ClosingSteps DEF closing, BeginHastily

(***************************************************************************)
(* EOFs, hasty or not: a total is known when its stage has said it, and a   *)
(* stage closes when all before it have.                                   *)
(***************************************************************************)
EndsShape ==
    /\ client \in Clients
    /\ eofs = [s \in Followed |-> [f \in Inputs(s) |-> eofs[s][f]]]
    /\ closed = [s \in Followed |-> closed[s]]
    /\ announced \subseteq Followed

EofsAnnounced ==
    \A s \in Followed : \A f \in Inputs(s) : eofs[s][f] = NoEof \/ f \in announced \cup {"gateway"}

BeforeAnnounced ==
    \A s \in Followed : s \in announced \/ closed[s] # {} => Inputs(s) \ {"gateway"} \subseteq announced

EndsInv == EndsShape /\ EofsAnnounced /\ BeforeAnnounced

LEMMA InitEnds == Init => EndsInv
<1> SUFFICES ASSUME Init
             PROVE  EndsInv
  OBVIOUS
<1>1. EndsShape
  BY DEF Init, EndsShape
<1>2. EofsAnnounced
  BY DEF Init, EofsAnnounced
<1>3. BeforeAnnounced
  BY DEF Init, BeforeAnnounced
<1> QED
  BY <1>1, <1>2, <1>3 DEF EndsInv

LEMMA NextEnds ==
    ASSUME EndsInv, [Next]_vars
    PROVE  EndsInv'
<1>0. client' = client /\ Followed' = Followed
  BY ClosingSteps DEF Followed
<1>1. CASE UNCHANGED <<eofs, closed, announced>>
  BY <1>0, <1>1 DEF EndsInv, EndsShape, EofsAnnounced, BeforeAnnounced
<1>2. ASSUME NEW s, Decided(s)
      PROVE  s \in Followed /\ s \in Stages /\ Inputs(s) \ {"gateway"} \subseteq announced
  <2>1. s \in Followed /\ HasAllEofs(s)
    BY <1>2 DEF Decided
  <2>2. s \in Stages
    BY <2>1, FollowedInputs DEF EndsInv, EndsShape
  <2> QED
    BY <2>1, <2>2, AllEofsKnown DEF EndsInv, EofsAnnounced
<1>3. ASSUME NEW s, NEW w, NEW left, NEW outs, PostProcess(s, w, left, outs)
      PROVE  EndsInv'
  <2>1. /\ s \in Followed /\ Inputs(s) \ {"gateway"} \subseteq announced
        /\ UNCHANGED <<eofs, announced>> /\ closed' = [closed EXCEPT ![s] = @ \cup {w}]
    BY <1>2, <1>3 DEF PostProcess
  <2>2. /\ closed' = [x \in Followed |-> closed'[x]]
        /\ \A x \in Followed \ {s} : closed'[x] = closed[x]
    BY <2>1 DEF EndsInv, EndsShape
  <2> QED
    BY <1>0, <2>1, <2>2 DEF EndsInv, EndsShape, EofsAnnounced, BeforeAnnounced
<1>4. ASSUME NEW s, SendEofs(s)
      PROVE  EndsInv'
  <2>1. /\ s \in Followed /\ Inputs(s) \ {"gateway"} \subseteq announced
        /\ closed' = closed /\ announced' = announced \cup {s}
    BY <1>2, <1>4 DEF SendEofs, Announceable
  <2>2. /\ eofs' = [d \in Followed |-> [f \in Inputs(d) |-> eofs'[d][f]]]
        /\ \A d \in Followed : \A f \in Inputs(d) :
             eofs'[d][f] = IF f = s THEN sent[s][d] ELSE eofs[d][f]
    BY <1>4, <2>1, EofsSaid DEF EndsInv, EndsShape
  <2> QED
    BY <1>0, <2>1, <2>2 DEF EndsInv, EndsShape, EofsAnnounced, BeforeAnnounced
<1> QED
  BY <1>1, <1>3, <1>4, ClosingSteps DEF closing, BeginHastily

-----------------------------------------------------------------------------
\* While no stage is hasty the packets are counted, every one.
ClosingInv == KeyInv /\ EndsInv /\ (hasty = {} => FlowInv)

(* No worker of a stage runs its callback, and no EOF of a stage leaves,   *)
(* before every stage before it has said its total; nor, while no stage is *)
(* hasty, while a packet for the stage waits or is held in hand by a       *)
(* converter: for any clients, numbers of workers, rates and hashes.       *)
THEOREM ClosedAfterAllHolds == HashIsNatural /\ Spec => []ClosedAfterAll
<1> SUFFICES ASSUME HashIsNatural
             PROVE  Spec => []ClosedAfterAll
  OBVIOUS
<1>1. Init => ClosingInv
  BY InitFlows, InitEnds, InitKeeps DEF ClosingInv
<1>2. ClosingInv /\ [Next]_vars => ClosingInv'
  <2> SUFFICES ASSUME ClosingInv, [Next]_vars
               PROVE  ClosingInv'
    OBVIOUS
  <2>1. KeyInv' /\ EndsInv'
    BY NextKeeps, NextEnds DEF ClosingInv
  <2>2. ASSUME hasty' = {}
        PROVE  FlowInv'
    <3>1. hasty = {}
      BY <2>2, HastyStays
    <3> QED
      BY <2>2, <3>1, NextFlows DEF ClosingInv
  <2> QED
    BY <2>1, <2>2 DEF ClosingInv
<1>3. ClosingInv => ClosedAfterAll
  BY DEF ClosingInv, EndsInv, BeforeAnnounced, FlowInv, ClosedWhole, ClosedAfterAll
<1> QED
  BY <1>1, <1>2, <1>3, PTL DEF Spec

\* As in the two configurations of the repository (generar_compose.py).
SeveralWorkers == \A s \in Stages \ {"average_per_pay_format_joiner"} : Amount[s] > 1

\* The invariant behind it.
PairsUnhurried == client \in Clients /\ client.query = 4 /\ hasty = {}

(* On the way of query 4 no stage is ever hasty when each has several       *)
(* workers: all of them compare counters, and wait for one EOF.            *)
THEOREM NeverHasty == SeveralWorkers /\ client.query = 4 /\ Spec => [](hasty = {})
<1> SUFFICES ASSUME SeveralWorkers
             PROVE  client.query = 4 /\ Spec => [](hasty = {})
  OBVIOUS
<1>1. client.query = 4 /\ Init => PairsUnhurried
  BY DEF Init, PairsUnhurried
<1>2. PairsUnhurried /\ [Next]_vars => PairsUnhurried'
  <2> SUFFICES ASSUME PairsUnhurried, [Next]_vars
               PROVE  PairsUnhurried'
    OBVIOUS
  <2>1. client \in Clients /\ client.query = 4 /\ hasty = {}
    BY DEF PairsUnhurried
  <2>2. ASSUME NEW s \in Followed
        PROVE  ~BeginHastily(s)
    <3>0. s \in {"date_filter", "usd_filter_q4", "scather_gather_mapper",
                 "scather_gather_aggregator", "scather_gather_pair_joiner",
                 "scather_gather_joiner"}
      BY <2>1, BranchTable
    <3>1. s \in Stages \ {"average_per_pay_format_joiner"} /\ \E f : Inputs(s) = {f}
      <4>1. s \in Stages \ {"average_per_pay_format_joiner"}
        BY <3>0, StageNames
      <4>2. \E f : Inputs(s) = {f}
        BY <3>0, WiringTable
      <4> QED
        BY <4>1, <4>2
    <3>2. Cardinality(Inputs(s)) = 1
      BY <3>1, FS_Singleton
    <3>3. Amount[s] # 1
      BY <3>1 DEF SeveralWorkers
    <3> QED
      BY <3>2, <3>3 DEF BeginHastily
  <2> QED
    BY <2>1, <2>2, ClosingSteps DEF PairsUnhurried, closing
<1>3. PairsUnhurried => hasty = {}
  BY DEF PairsUnhurried
<1> QED
  BY <1>1, <1>2, <1>3, PTL DEF Spec

-----------------------------------------------------------------------------
(***************************************************************************)
(* Query 4 gives the pairs that are right.  What is told to the workers of *)
(* the last three stages are facts, triples: the type of a fan and its two *)
(* accounts, the one that chooses the worker first; in the last stage the  *)
(* origin, the destination and the middle.  A worker that closes was told  *)
(* every fact of its keys, and no other.                                   *)
(***************************************************************************)
Mapper     == "scather_gather_mapper"
Aggregator == "scather_gather_aggregator"
PairJoiner == "scather_gather_pair_joiner"
LastJoiner == "scather_gather_joiner"

Tellers == {Aggregator, PairJoiner}
Told    == {Aggregator, PairJoiner, LastJoiner}

\* The stage that a stage tells.
Hears(s) == IF s = Aggregator THEN PairJoiner ELSE LastJoiner

\* The facts in a message, and in a worker's memory.
Fan(type, key, value) == {<<type, key, v>> : v \in value}

Learnt(s, msg) ==
    IF s = Aggregator THEN Fan(msg.type, msg.key, msg.value)
    ELSE IF s = PairJoiner THEN {<<msg.type, msg.value, msg.key>>} ELSE {msg}

Facts(type, pairs) == {<<type, x[1], x[2]>> : x \in pairs}

Known(s, m) ==
    IF s = LastJoiner THEN m ELSE Facts("FANOUT", m.fanout) \cup Facts("FANIN", m.fanin)

\* The facts of the edges E, for each stage.
Fans(e) == {<<"FANOUT", e[1], e[2]>>, <<"FANIN", e[2], e[1]>>}

WideFans(E) ==
    Facts("FANOUT", Turned(AboveThreshold(E))) \cup Facts("FANIN", Turned(AboveThreshold(Turned(E))))

Triples(E) ==
    {<<z[1][3], z[2][3], z[1][2]>> :
        z \in {y \in WideFans(E) \X WideFans(E) :
                 y[1][1] = "FANOUT" /\ y[2][1] = "FANIN" /\ y[1][2] = y[2][2]}}

Whole(s, E) ==
    IF s = Aggregator THEN UNION {Fans(e) : e \in E}
    ELSE IF s = PairJoiner THEN WideFans(E) ELSE Triples(E)

\* The worker that is told a fact.
Home(s, x) == Shard(s, IF s = LastJoiner THEN <<x[1], x[2]>> ELSE x[2])

E4 == Edges(client.rows)

Arrived(s, x) ==
    \/ \E p \in inbox[s] : x \in Learnt(s, p.msg)
    \/ Home(s, x) \in closed[s]
    \/ x \in Known(s, memory[s][Home(s, x)])

Sound(s) ==
    /\ \A p \in inbox[s] : Learnt(s, p.msg) \subseteq Whole(s, E4)
    /\ \A w \in WorkersOf(s) : Known(s, memory[s][w]) \subseteq Whole(s, E4)

\* The rows before the mapper.
Wanted(rows) == {r \in Early(rows) : InDollars(r)}

EdgeOf(r) == <<r.account_origin, r.account_destination>>

RowStages == {"date_filter", "usd_filter_q4", Mapper}

MayCome(s, rows) ==
    CASE s = "date_filter" -> rows
      [] s = "usd_filter_q4" -> Early(rows)
      [] s = Mapper -> Wanted(rows)

Mapped(e) ==
    \/ \E w \in WorkersOf(Mapper) : e \in memory[Mapper][w]
    \/ \A x \in Fans(e) : Arrived(Aggregator, x)

RowsSound == \A s \in RowStages : \A p \in inbox[s] : p.msg \in MayCome(s, client.rows)

RowsComplete ==
    \A r \in Wanted(client.rows) :
        (\E s \in RowStages : \E p \in inbox[s] : p.msg = r) \/ Mapped(EdgeOf(r))

MapperHolds ==
    \A w \in WorkersOf(Mapper) :
        /\ memory[Mapper][w] \subseteq E4
        /\ w \in closed[Mapper] => memory[Mapper][w] = {}

\* What a worker told when it closed.
TellersComplete ==
    \A s \in Tellers : \A x \in Whole(Hears(s), E4) :
        Shard(s, x[3]) \in closed[s] => Arrived(Hears(s), x)

PairsGiven ==
    results = SetToBag({pair \in ScatterGather(E4) : Shard(LastJoiner, pair) \in closed[LastJoiner]})

FactsInv ==
    /\ RowsSound /\ RowsComplete /\ MapperHolds
    /\ \A s \in Told : Sound(s)
    /\ TellersComplete
    /\ PairsGiven

-----------------------------------------------------------------------------
(* The names of the stages of query 4, and how they are wired.             *)
LEMMA ScatterStages ==
    /\ client.query = 4 => Followed = RowStages \cup Told
    /\ Told \subseteq Sharded \cap Callback /\ Mapper \in Callback
    /\ Tellers \subseteq Told /\ RowStages \cap Told = {} /\ Told \cup RowStages \subseteq Stages
    /\ Outputs(Mapper) = {Aggregator} /\ Outputs(LastJoiner) = {"gateway"}
    /\ \A s \in Tellers : Outputs(s) = {Hears(s)} /\ Inputs(Hears(s)) = {s} /\ Hears(s) \in Told
    /\ Inputs(Aggregator) = {Mapper} /\ Inputs(Mapper) = {"usd_filter_q4"}
    /\ Inputs("usd_filter_q4") = {"date_filter"}
    /\ LastJoiner \notin Tellers /\ Aggregator \in Told /\ LastJoiner \in Told
    /\ \A s \in Told : s # Converter
<1>1. client.query = 4 => Followed = RowStages \cup Told
  BY BranchTable DEF RowStages, Told, Mapper, Aggregator, PairJoiner, LastJoiner
<1>2. /\ Told \subseteq Sharded \cap Callback /\ Mapper \in Callback
      /\ Tellers \subseteq Told /\ RowStages \cap Told = {} /\ \A s \in Told : s # Converter
  BY DEF RowStages, Told, Tellers, Mapper, Aggregator, PairJoiner, LastJoiner, Sharded, Callback,
         Converter
<1>3. Told \cup RowStages \subseteq Stages
  BY StageNames DEF RowStages, Told, Mapper, Aggregator, PairJoiner, LastJoiner
<1>4. /\ Outputs(Mapper) = {Aggregator} /\ Outputs(LastJoiner) = {"gateway"}
      /\ \A s \in Tellers : Outputs(s) = {Hears(s)} /\ Inputs(Hears(s)) = {s} /\ Hears(s) \in Told
      /\ Inputs(Aggregator) = {Mapper} /\ Inputs(Mapper) = {"usd_filter_q4"}
      /\ Inputs("usd_filter_q4") = {"date_filter"}
  BY WiringTable DEF Told, Tellers, Hears, Mapper, Aggregator, PairJoiner, LastJoiner
<1> QED
  BY <1>1, <1>2, <1>3, <1>4 DEF Told, Tellers, Aggregator, PairJoiner, LastJoiner

(* A fact has a worker.                                                    *)
LEMMA HomeIsWorker ==
    ASSUME HashIsNatural, NEW s \in Told
    PROVE  /\ \A k : Shard(s, k) \in WorkersOf(s) /\ Shard(s, k) \in Nat
           /\ \A x : Home(s, x) \in WorkersOf(s)
<1>1. Amount[s] \in Nat \ {0}
  BY ScatterStages, DeploymentAssumption
<1>2. ASSUME NEW k PROVE Shard(s, k) \in WorkersOf(s) /\ Shard(s, k) \in Nat
  <2>1. Hash(s, k) \in Nat
    BY DEF HashIsNatural
  <2> QED
    BY <1>1, <2>1 DEF Shard, WorkersOf
<1> QED
  BY <1>2 DEF Home

(* The facts of a message have the key of the message.                     *)
LEMMA HomeIsKey ==
    ASSUME NEW s \in Told, NEW msg, NEW x \in Learnt(s, msg)
    PROVE  Home(s, x) = Shard(s, KeyOf(s, msg))
<1>1. CASE s = Aggregator
  BY <1>1 DEF Learnt, Fan, Home, KeyOf, Aggregator, PairJoiner, LastJoiner
<1>2. CASE s = PairJoiner
  BY <1>2 DEF Learnt, Home, KeyOf, Aggregator, PairJoiner, LastJoiner
<1>3. CASE s = LastJoiner
  BY <1>3 DEF Learnt, Home, KeyOf, Aggregator, PairJoiner, LastJoiner
<1> QED
  BY <1>1, <1>2, <1>3 DEF Told

(* A worker knows facts of its keys only.                                  *)
LEMMA KnownAtHome ==
    ASSUME NEW s \in Told, NEW w, NEW m, Belongs(s, w, m), NEW x \in Known(s, m)
    PROVE  Home(s, x) = w
<1>1. CASE s # LastJoiner
  <2>1. \A y \in m.fanout \cup m.fanin : Shard(s, y[1]) = w
    BY <1>1 DEF Belongs, KeysIn, Firsts, Told, Aggregator, PairJoiner, LastJoiner
  <2>2. PICK y \in m.fanout \cup m.fanin, type \in {"FANOUT", "FANIN"} : x = <<type, y[1], y[2]>>
    BY <1>1 DEF Known, Facts
  <2> QED
    BY <1>1, <2>1, <2>2 DEF Home
<1>2. CASE s = LastJoiner
  BY <1>2 DEF Belongs, KeysIn, PairsOf, Known, Home, LastJoiner
<1> QED
  BY <1>1, <1>2

(* What is learned is known.                                               *)
LEMMA LearnAdds ==
    ASSUME NEW s \in Tellers, NEW m, Shape(s, m), NEW type \in {"FANOUT", "FANIN"}, NEW pairs
    PROVE  Known(s, Learn(m, type, pairs)) = Known(s, m) \cup Facts(type, pairs)
<1>1. m = [fanout |-> m.fanout, fanin |-> m.fanin] /\ s # LastJoiner
  BY DEF Shape, Tellers, Aggregator, PairJoiner, LastJoiner
<1>2. \A A, B : Facts(type, A \cup B) = Facts(type, A) \cup Facts(type, B)
  BY DEF Facts
<1>3. CASE type = "FANOUT"
  <2>1. /\ Learn(m, type, pairs).fanout = m.fanout \cup pairs
        /\ Learn(m, type, pairs).fanin = m.fanin
    BY <1>1, <1>3 DEF Learn
  <2> QED
    BY <1>1, <1>2, <1>3, <2>1 DEF Known
<1>4. CASE type = "FANIN"
  <2>1. /\ Learn(m, type, pairs).fanout = m.fanout
        /\ Learn(m, type, pairs).fanin = m.fanin \cup pairs
    BY <1>1, <1>4 DEF Learn
  <2> QED
    BY <1>1, <1>2, <1>4, <2>1 DEF Known
<1> QED
  BY <1>3, <1>4
-----------------------------------------------------------------------------
(***************************************************************************)
(* A step of a worker: the packets that are gone, what it is left with,    *)
(* what it sends, and whether it ends.                                     *)
(***************************************************************************)
StepOf(s, w, gone, left, outs, ends) ==
    /\ client' = client
    /\ \A d \in Followed : inbox'[d] = (IF d = s THEN inbox[d] \ gone ELSE inbox[d])
                                         \cup Arriving(s, w, d, outs)
    /\ \A d \in Followed \ {s} : memory'[d] = memory[d] /\ closed'[d] = closed[d]
    /\ \A v \in WorkersOf(s) : memory'[s][v] = IF v = w THEN left ELSE memory[s][v]
    /\ closed'[s] = closed[s] \cup ends
    /\ GiveResults(outs)

\* A message for the stage d is sent, with the fact x.
Tells(d, outs, x) == \E o \in outs : o.stage = d /\ Receivers(o) # {} /\ x \in Learnt(d, o.msg)

(* The two kinds of steps.                                                 *)
LEMMA HandleIsStep ==
    ASSUME FlowInv, NEW s \in Followed, NEW w, NEW p, NEW learned, NEW outs,
           Handle(s, w, p, learned, outs)
    PROVE  StepOf(s, w, {p}, learned, outs, {}) /\ closed[s] = {} /\ p \in inbox[s]
<1>1. /\ p \in inbox[s] /\ UNCHANGED <<client, closed>>
      /\ Deliver([inbox EXCEPT ![s] = @ \ {p}], s, w, outs)
      /\ memory' = [memory EXCEPT ![s][w] = learned] /\ GiveResults(outs)
  BY DEF Handle, Take, closing
<1>2. closed[s] = {}
  BY <1>1 DEF FlowInv, ClosedWhole
<1>3. InboxInv /\ MemoryInv
  BY DEF FlowInv, KeyInv
<1>4. \A d \in Followed : inbox'[d] = (IF d = s THEN inbox[d] \ {p} ELSE inbox[d])
                                        \cup Arriving(s, w, d, outs)
  BY <1>1, <1>3 DEF Deliver, InboxInv
<1>5. /\ \A d \in Followed \ {s} : memory'[d] = memory[d]
      /\ \A v \in WorkersOf(s) : memory'[s][v] = IF v = w THEN learned ELSE memory[s][v]
  BY <1>1, <1>3 DEF MemoryInv
<1> QED
  BY <1>1, <1>2, <1>4, <1>5 DEF StepOf

(* A worker's callback is a step of its stage, which is drained.           *)
LEMMA PostProcessIsStep ==
    ASSUME FlowInv, NEW s \in Followed, NEW w, NEW left, NEW outs, PostProcess(s, w, left, outs)
    PROVE  StepOf(s, w, {}, left, outs, {w}) /\ Decided(s) /\ w \in WorkersOf(s) \ closed[s]
<1>1. /\ client' = client /\ Decided(s) /\ w \in WorkersOf(s) \ closed[s]
      /\ Deliver(inbox, s, w, outs) /\ closed' = [closed EXCEPT ![s] = @ \cup {w}]
      /\ memory' = [memory EXCEPT ![s][w] = left] /\ GiveResults(outs)
  BY DEF PostProcess
<1>2. MemoryInv /\ CountersInv
  BY DEF FlowInv, KeyInv
<1>3. \A d \in Followed : inbox'[d] = (IF d = s THEN inbox[d] \ {} ELSE inbox[d])
                                        \cup Arriving(s, w, d, outs)
  BY <1>1 DEF Deliver
<1>4. /\ \A d \in Followed \ {s} : memory'[d] = memory[d]
      /\ \A v \in WorkersOf(s) : memory'[s][v] = IF v = w THEN left ELSE memory[s][v]
  BY <1>1, <1>2 DEF MemoryInv
<1>5. /\ \A d \in Followed \ {s} : closed'[d] = closed[d]
      /\ closed'[s] = closed[s] \cup {w}
  BY <1>1, <1>2 DEF CountersInv
<1> QED
  BY <1>1, <1>3, <1>4, <1>5 DEF StepOf

(* What is sent to a stage is there after the step.                        *)
LEMMA TellsArrive ==
    ASSUME NEW s, NEW w, NEW gone, NEW left, NEW outs, NEW ends,
           StepOf(s, w, gone, left, outs, ends),
           NEW d \in Followed, NEW o \in outs, o.stage = d, Receivers(o) # {}
    PROVE  \E p \in inbox'[d] : p.msg = o.msg
<1>1. PICK v \in Receivers(o) : TRUE
  OBVIOUS
<1>2. [from |-> s, by |-> w, to |-> v, msg |-> o.msg] \in Arriving(s, w, d, outs)
  BY DEF Arriving
<1> QED
  BY <1>2 DEF StepOf

(* What arrives was sent.                                                  *)
LEMMA ArrivedMessage ==
    ASSUME NEW s, NEW w, NEW d, NEW outs, NEW p \in Arriving(s, w, d, outs)
    PROVE  \E o \in outs : o.stage = d /\ p.msg = o.msg
BY DEF Arriving

\* A worker of a told stage keeps what it knows, and learns what it takes, or ends.
Keeps(s, w, gone, left, ends) ==
    \/ gone = {} /\ ends = {w}
    \/ /\ Known(s, memory[s][w]) \subseteq Known(s, left)
       /\ \A p \in gone : \A x \in Learnt(s, p.msg) : Home(s, x) = w /\ x \in Known(s, left)

(* A fact that has arrived stays until its worker ends.                    *)
LEMMA ArrivedStays ==
    ASSUME HashIsNatural, client.query = 4, NEW s, NEW w, NEW gone, NEW left, NEW outs, NEW ends,
           StepOf(s, w, gone, left, outs, ends), s \in Told => Keeps(s, w, gone, left, ends),
           NEW d \in Told, NEW x, Arrived(d, x)
    PROVE  Arrived(d, x)'
<1>1. d \in Followed /\ Home(d, x) \in WorkersOf(d)
  BY ScatterStages, HomeIsWorker
<1>2. Home(d, x)' = Home(d, x)
  OBVIOUS
<1>3. closed[d] \subseteq closed'[d]
  BY <1>1 DEF StepOf
<1>4. CASE d # s
  <2>1. inbox[d] \subseteq inbox'[d] /\ memory'[d] = memory[d]
    BY <1>1, <1>4 DEF StepOf
  <2> QED
    BY <1>2, <1>3, <2>1 DEF Arrived
<1>5. CASE d = s
  <2>1. /\ \A p \in inbox[d] : p \in inbox'[d] \/ p \in gone
        /\ memory'[d][Home(d, x)] = IF Home(d, x) = w THEN left ELSE memory[d][Home(d, x)]
        /\ closed'[d] = closed[d] \cup ends
    BY <1>1, <1>5 DEF StepOf
  <2>2. CASE gone = {} /\ ends = {w}
    BY <1>2, <1>3, <2>1, <2>2 DEF Arrived
  <2>3. CASE ~(gone = {} /\ ends = {w})
    <3>1. /\ Known(s, memory[s][w]) \subseteq Known(s, left)
          /\ \A p \in gone : \A y \in Learnt(s, p.msg) : Home(s, y) = w /\ y \in Known(s, left)
      BY <1>5, <2>3 DEF Keeps
    <3>2. CASE \E p \in inbox[d] : x \in Learnt(d, p.msg)
      <4>1. PICK p \in inbox[d] : x \in Learnt(d, p.msg)
        BY <3>2
      <4>2. CASE p \in inbox'[d]
        BY <4>1, <4>2 DEF Arrived
      <4>3. CASE p \in gone
        <5>1. Home(d, x) = w /\ x \in Known(d, left)
          BY <1>5, <3>1, <4>1, <4>3
        <5> QED
          BY <1>2, <2>1, <5>1 DEF Arrived
      <4> QED
        BY <2>1, <4>2, <4>3
    <3>3. CASE x \in Known(d, memory[d][Home(d, x)])
      BY <1>2, <1>5, <2>1, <3>1, <3>3 DEF Arrived
    <3> QED
      BY <1>2, <1>3, <3>2, <3>3 DEF Arrived
  <2> QED
    BY <2>2, <2>3
<1> QED
  BY <1>4, <1>5

(* A stage is told the truth, and knows what it was told.                  *)
LEMMA SoundStays ==
    ASSUME client.query = 4, NEW s, NEW w, NEW gone, NEW left, NEW outs, NEW ends,
           StepOf(s, w, gone, left, outs, ends),
           s \in Told => Known(s, left) \subseteq Whole(s, E4),
           NEW d \in Told, Sound(d),
           \A o \in outs : o.stage = d => Learnt(d, o.msg) \subseteq Whole(d, E4)
    PROVE  Sound(d)'
<1>1. d \in Followed /\ E4' = E4
  BY ScatterStages DEF E4, StepOf
<1>2. ASSUME NEW p \in inbox'[d]
      PROVE  Learnt(d, p.msg) \subseteq Whole(d, E4)
  <2>1. p \in inbox[d] \/ p \in Arriving(s, w, d, outs)
    BY <1>1 DEF StepOf
  <2>2. p \in inbox[d] => Learnt(d, p.msg) \subseteq Whole(d, E4)
    BY DEF Sound
  <2>3. p \in Arriving(s, w, d, outs) => Learnt(d, p.msg) \subseteq Whole(d, E4)
    BY ArrivedMessage
  <2> QED
    BY <2>1, <2>2, <2>3
<1>3. ASSUME NEW v \in WorkersOf(d)
      PROVE  Known(d, memory'[d][v]) \subseteq Whole(d, E4)
  <2>1. memory'[d][v] = IF d = s /\ v = w THEN left ELSE memory[d][v]
    BY <1>1 DEF StepOf
  <2>2. Known(d, memory[d][v]) \subseteq Whole(d, E4)
    BY DEF Sound
  <2> QED
    BY <2>1, <2>2
<1>4. Whole(d, E4)' = Whole(d, E4)
  BY <1>1
<1> QED
  BY <1>2, <1>3, <1>4 DEF Sound

-----------------------------------------------------------------------------
\* A worker of a teller that ends tells the facts of its keys.
TellsWhole(s, outs, ends) ==
    \A x \in Whole(Hears(s), E4) : Shard(s, x[3]) \in ends => Tells(Hears(s), outs, x)

(* What closed workers told stays told.                                    *)
LEMMA TellersStay ==
    ASSUME HashIsNatural, client.query = 4, TellersComplete,
           NEW s, NEW w, NEW gone, NEW left, NEW outs, NEW ends,
           StepOf(s, w, gone, left, outs, ends), s \in Told => Keeps(s, w, gone, left, ends),
           s \in Tellers => TellsWhole(s, outs, ends)
    PROVE  TellersComplete'
<1>1. E4' = E4
  BY DEF E4, StepOf
<1>2. ASSUME NEW t \in Tellers, NEW x \in Whole(Hears(t), E4), Shard(t, x[3]) \in closed'[t]
      PROVE  Arrived(Hears(t), x)'
  <2>1. Hears(t) \in Told /\ t \in Followed /\ Hears(t) \in Followed
    BY ScatterStages
  <2>2. CASE Shard(t, x[3]) \in closed[t]
    <3>1. Arrived(Hears(t), x)
      BY <2>2 DEF TellersComplete
    <3> QED
      BY <2>1, <3>1, ArrivedStays
  <2>3. CASE Shard(t, x[3]) \notin closed[t]
    <3>1. s = t /\ Shard(t, x[3]) \in ends
      BY <1>2, <2>1, <2>3 DEF StepOf
    <3>2. PICK o \in outs : o.stage = Hears(t) /\ Receivers(o) # {} /\ x \in Learnt(Hears(t), o.msg)
      BY <3>1 DEF TellsWhole, Tells
    <3>3. \E p \in inbox'[Hears(t)] : p.msg = o.msg
      BY <2>1, <3>2, TellsArrive
    <3> QED
      BY <3>2, <3>3 DEF Arrived
  <2> QED
    BY <2>2, <2>3
<1>3. TellersComplete' <=>
        \A t \in Tellers : \A x \in Whole(Hears(t), E4) :
           Shard(t, x[3]) \in closed'[t] => Arrived(Hears(t), x)'
  BY <1>1 DEF TellersComplete
<1> QED
  BY <1>2, <1>3

\* A row that is wanted goes on, or a mapper keeps its edge.
RowsGoOn(s, w, gone, left, outs) ==
    \A p \in gone : p.msg \in Wanted(client.rows) =>
        \/ \E o \in outs : o.stage \in RowStages /\ Receivers(o) # {} /\ o.msg = p.msg
        \/ s = Mapper /\ w \in WorkersOf(Mapper) /\ EdgeOf(p.msg) \in left

\* A mapper keeps its edges, or tells their fans and ends.
EdgesGoOn(w, left, outs, ends) ==
    /\ left \subseteq E4
    /\ \/ ends = {} /\ closed[Mapper] = {} /\ memory[Mapper][w] \subseteq left
       \/ /\ ends = {w} /\ left = {}
          /\ \A e \in memory[Mapper][w] : \A x \in Fans(e) : Tells(Aggregator, outs, x)

RowsTold(outs) ==
    \A o \in outs : o.stage \in RowStages => o.msg \in MayCome(o.stage, client.rows)

RowsInv == RowsSound /\ RowsComplete /\ MapperHolds

(* A row that is wanted waits until its edge is known to a mapper, and the *)
(* edge is there until its fans are told.                                  *)
LEMMA RowsStay ==
    ASSUME HashIsNatural, client.query = 4, RowsInv,
           NEW s \in Followed, NEW w, NEW gone, NEW left, NEW outs, NEW ends,
           StepOf(s, w, gone, left, outs, ends), s \in Told => Keeps(s, w, gone, left, ends),
           RowsTold(outs), s \in RowStages => RowsGoOn(s, w, gone, left, outs),
           s = Mapper => EdgesGoOn(w, left, outs, ends)
    PROVE  RowsInv'
<1>1. E4' = E4 /\ client' = client
  BY DEF E4, StepOf
<1>2. \A d \in RowStages : d \in Followed /\ d \notin Told
  BY ScatterStages
<1>3. Mapper \in RowStages /\ Mapper \in Followed /\ Aggregator \in Told /\ Aggregator \in Followed
  BY ScatterStages DEF RowStages
<1>4. RowsSound'
  <2>1. ASSUME NEW d \in RowStages, NEW p \in inbox'[d]
        PROVE  p.msg \in MayCome(d, client.rows)
    <3>1. p \in inbox[d] \/ p \in Arriving(s, w, d, outs)
      BY <1>2 DEF StepOf
    <3>2. p \in inbox[d] => p.msg \in MayCome(d, client.rows)
      BY DEF RowsInv, RowsSound
    <3>3. p \in Arriving(s, w, d, outs) => p.msg \in MayCome(d, client.rows)
      BY ArrivedMessage DEF RowsTold
    <3> QED
      BY <3>1, <3>2, <3>3
  <2> QED
    BY <1>1, <2>1 DEF RowsSound
<1>5. MapperHolds'
  <2>1. ASSUME NEW v \in WorkersOf(Mapper)
        PROVE  memory'[Mapper][v] \subseteq E4 /\ (v \in closed'[Mapper] => memory'[Mapper][v] = {})
    <3>1. memory[Mapper][v] \subseteq E4 /\ (v \in closed[Mapper] => memory[Mapper][v] = {})
      BY DEF RowsInv, MapperHolds
    <3>2. CASE s # Mapper
      <4>1. memory'[Mapper] = memory[Mapper] /\ closed'[Mapper] = closed[Mapper]
        BY <1>3, <3>2 DEF StepOf
      <4> QED
        BY <3>1, <4>1
    <3>3. CASE s = Mapper
      <4>1. /\ memory'[Mapper][v] = IF v = w THEN left ELSE memory[Mapper][v]
            /\ closed'[Mapper] = closed[Mapper] \cup ends
        BY <3>3 DEF StepOf
      <4> QED
        BY <3>1, <3>3, <4>1 DEF EdgesGoOn
    <3> QED
      BY <3>2, <3>3
  <2> QED
    BY <1>1, <2>1 DEF MapperHolds
<1>6. ASSUME NEW e, Mapped(e)
      PROVE  Mapped(e)'
  <2>1. CASE \A x \in Fans(e) : Arrived(Aggregator, x)
    <3>1. \A x \in Fans(e) : Arrived(Aggregator, x)'
      BY <1>3, <2>1, ArrivedStays
    <3> QED
      BY <3>1 DEF Mapped
  <2>2. CASE \E v \in WorkersOf(Mapper) : e \in memory[Mapper][v]
    <3>1. PICK v \in WorkersOf(Mapper) : e \in memory[Mapper][v]
      BY <2>2
    <3>2. CASE s # Mapper
      <4>1. memory'[Mapper] = memory[Mapper]
        BY <1>3, <3>2 DEF StepOf
      <4> QED
        BY <3>1, <4>1 DEF Mapped
    <3>3. CASE s = Mapper
      <4>1. memory'[Mapper][v] = IF v = w THEN left ELSE memory[Mapper][v]
        BY <3>3 DEF StepOf
      <4>2. CASE memory[Mapper][v] \subseteq memory'[Mapper][v]
        BY <3>1, <4>2 DEF Mapped
      <4>3. CASE ~(memory[Mapper][v] \subseteq memory'[Mapper][v])
        <5>1. v = w /\ \A x \in Fans(e) : Tells(Aggregator, outs, x)
          BY <3>1, <3>3, <4>1, <4>3 DEF EdgesGoOn
        <5>2. ASSUME NEW x \in Fans(e) PROVE Arrived(Aggregator, x)'
          <6>1. PICK o \in outs : /\ o.stage = Aggregator /\ Receivers(o) # {}
                                  /\ x \in Learnt(Aggregator, o.msg)
            BY <5>1 DEF Tells
          <6>2. \E p \in inbox'[Aggregator] : p.msg = o.msg
            BY <1>3, <6>1, TellsArrive
          <6> QED
            BY <6>1, <6>2 DEF Arrived
        <5> QED
          BY <5>2 DEF Mapped
      <4> QED
        BY <4>2, <4>3
    <3> QED
      BY <3>2, <3>3
  <2> QED
    BY <1>6, <2>1, <2>2 DEF Mapped
<1>7. RowsComplete'
  <2>1. ASSUME NEW r \in Wanted(client.rows)
        PROVE  (\E d \in RowStages : \E p \in inbox'[d] : p.msg = r) \/ Mapped(EdgeOf(r))'
    <3>1. CASE Mapped(EdgeOf(r))
      BY <1>6, <3>1
    <3>2. CASE \E d \in RowStages : \E p \in inbox[d] : p.msg = r
      <4>0. PICK d \in RowStages : \E p \in inbox[d] : p.msg = r
        BY <3>2
      <4>1. PICK p \in inbox[d] : p.msg = r
        BY <4>0
      <4>2. p \in inbox'[d] \/ (d = s /\ p \in gone)
        BY <1>2 DEF StepOf
      <4>3. CASE d = s /\ p \in gone
        <5>1. CASE \E o \in outs : o.stage \in RowStages /\ Receivers(o) # {} /\ o.msg = r
          <6>1. PICK o \in outs : o.stage \in RowStages /\ Receivers(o) # {} /\ o.msg = r
            BY <5>1
          <6>2. \E q \in inbox'[o.stage] : q.msg = o.msg
            BY <1>2, <6>1, TellsArrive
          <6> QED
            BY <6>1, <6>2
        <5>2. CASE s = Mapper /\ w \in WorkersOf(Mapper) /\ EdgeOf(r) \in left
          <6>1. memory'[Mapper][w] = left
            BY <5>2 DEF StepOf
          <6> QED
            BY <5>2, <6>1 DEF Mapped
        <5> QED
          BY <4>1, <4>3, <5>1, <5>2 DEF RowsGoOn
      <4> QED
        BY <4>1, <4>2, <4>3
    <3> QED
      BY <3>1, <3>2 DEF RowsInv, RowsComplete
  <2> QED
    BY <1>1, <2>1 DEF RowsComplete
<1> QED
  BY <1>4, <1>5, <1>7 DEF RowsInv

(* A worker that closes was told every fact of its keys, and no other.     *)
LEMMA KnowsWhole ==
    ASSUME HashIsNatural, hasty = {}, client.query = 4, FlowInv, FactsInv,
           NEW s \in Told, Decided(s), NEW w \in WorkersOf(s) \ closed[s], NEW x
    PROVE  x \in Known(s, memory[s][w]) <=> x \in Whole(s, E4) /\ Home(s, x) = w
<1>1. s \in Followed /\ s \in Sharded
  BY ScatterStages
<1>2. inbox[s] = {} /\ Inputs(s) \ {"gateway"} \subseteq announced
  BY DecidedMeans
<1>3. x \in Known(s, memory[s][w]) => x \in Whole(s, E4) /\ Home(s, x) = w
  <2>1. Belongs(s, w, memory[s][w])
    BY <1>1 DEF FlowInv, KeyInv, MemoryInv
  <2> QED
    BY <2>1, KnownAtHome DEF FactsInv, Sound
<1>4. ASSUME x \in Whole(s, E4), Home(s, x) = w PROVE x \in Known(s, memory[s][w])
  <2>1. Arrived(s, x)
    <3>1. CASE s = Aggregator
      <4>1. /\ Mapper \in announced /\ Mapper \in Callback /\ Mapper \in Followed
            /\ "usd_filter_q4" \in Followed /\ "date_filter" \in Followed
        BY <1>2, <3>1, ScatterStages DEF RowStages, Mapper
      <4>2. inbox[Mapper] = {} /\ "usd_filter_q4" \in announced
        BY <4>1, ScatterStages DEF FlowInv, ClosedWhole
      <4>3. inbox["usd_filter_q4"] = {} /\ "date_filter" \in announced
        BY <4>1, <4>2, ScatterStages DEF FlowInv, ClosedWhole
      <4>4. inbox["date_filter"] = {}
        BY <4>1, <4>3 DEF FlowInv, ClosedWhole
      <4>5. closed[Mapper] = WorkersOf(Mapper)
        BY <4>1 DEF FlowInv, CallbackInv
      <4>6. \A v \in WorkersOf(Mapper) : memory[Mapper][v] = {}
        BY <4>5 DEF FactsInv, MapperHolds
      <4>7. \A r \in Wanted(client.rows) : Mapped(EdgeOf(r))
        BY <4>2, <4>3, <4>4 DEF FactsInv, RowsComplete, RowStages
      <4>8. PICK e \in E4 : x \in Fans(e)
        <5>1. Whole(s, E4) = UNION {Fans(e) : e \in E4}
          BY <3>1 DEF Whole
        <5> QED
          BY <1>4, <5>1
      <4>9. PICK r \in Wanted(client.rows) : e = EdgeOf(r)
        BY DEF E4, Edges, Wanted, EdgeOf
      <4> QED
        BY <3>1, <4>6, <4>7, <4>8, <4>9 DEF Mapped
    <3>2. CASE s # Aggregator
      <4>1. PICK t \in Tellers : s = Hears(t)
        BY <3>2 DEF Told, Tellers, Hears, Aggregator, PairJoiner, LastJoiner
      <4>2. t \in announced /\ t \in Callback /\ t \in Told
        <5>1. t \in Stages /\ Inputs(s) = {t} /\ t \in Callback /\ t \in Told
          BY <4>1, ScatterStages
        <5>2. t # "gateway"
          BY <5>1, StageNames
        <5> QED
          BY <1>2, <5>1, <5>2
      <4>3. closed[t] = WorkersOf(t)
        BY <4>2 DEF FlowInv, CallbackInv
      <4>4. Shard(t, x[3]) \in closed[t]
        BY <4>2, <4>3, HomeIsWorker
      <4> QED
        BY <1>4, <4>1, <4>4 DEF FactsInv, TellersComplete
    <3> QED
      BY <3>1, <3>2
  <2> QED
    BY <1>2, <1>4, <2>1 DEF Arrived
<1> QED
  BY <1>3, <1>4

-----------------------------------------------------------------------------
(* Bags of different rows.                                                 *)
LEMMA RowsAdded ==
    /\ \A S : SetToBag(S) (+) SetToBag({}) = SetToBag(S)
    /\ \A S, T : S \cap T = {} => SetToBag(S) (+) SetToBag(T) = SetToBag(S \cup T)
<1>1. ASSUME NEW S, NEW T, S \cap T = {}
      PROVE  SetToBag(S) (+) SetToBag(T) = SetToBag(S \cup T)
  <2>1. DOMAIN SetToBag(S) = S /\ DOMAIN SetToBag(T) = T
    BY DEF SetToBag
  <2>2. /\ \A x \in S : SetToBag(S)[x] = 1
        /\ \A x \in T : SetToBag(T)[x] = 1
    BY DEF SetToBag
  <2>3. SetToBag(S) (+) SetToBag(T)
          = [x \in S \cup T |-> (IF x \in S THEN SetToBag(S)[x] ELSE 0)
                                + (IF x \in T THEN SetToBag(T)[x] ELSE 0)]
    BY <2>1 DEF (+)
  <2>4. ASSUME NEW x \in S \cup T
        PROVE  (IF x \in S THEN SetToBag(S)[x] ELSE 0) + (IF x \in T THEN SetToBag(T)[x] ELSE 0) = 1
    BY <1>1, <2>2
  <2>5. SetToBag(S) (+) SetToBag(T) = [x \in S \cup T |-> 1]
    BY <2>3, <2>4
  <2> QED
    BY <2>5 DEF SetToBag
<1>2. \A S : S \cap {} = {} /\ S \cup {} = S
  OBVIOUS
<1> QED
  BY <1>1, <1>2

(* What a stage before the last sends gives no row.                        *)
LEMMA PairsStay ==
    ASSUME client.query = 4, PairsGiven,
           NEW s, NEW w, NEW gone, NEW left, NEW outs, NEW ends,
           StepOf(s, w, gone, left, outs, ends), s # LastJoiner \/ ends = {},
           \A o \in outs : o.stage # "gateway"
    PROVE  PairsGiven' /\ results' = results
<1>1. E4' = E4 /\ LastJoiner \in Followed
  BY ScatterStages DEF E4, StepOf
<1>2. closed'[LastJoiner] = closed[LastJoiner]
  BY <1>1 DEF StepOf
<1>3. {o.msg : o \in {x \in outs : x.stage = "gateway" /\ x.to # Nobody}} = {}
  OBVIOUS
<1>4. results' = results (+) SetToBag({})
  BY <1>3 DEF StepOf, GiveResults
<1>5. results' = results
  BY <1>4, RowsAdded DEF PairsGiven
<1>6. ScatterGather(E4)' = ScatterGather(E4)
  BY <1>1
<1> QED
  BY <1>2, <1>5, <1>6 DEF PairsGiven

\* A step that tells nothing but the truth, all of it, and gives no row.
TruthStep(s, w, gone, left, outs, ends) ==
    /\ StepOf(s, w, gone, left, outs, ends)
    /\ s \in Told => Keeps(s, w, gone, left, ends) /\ Known(s, left) \subseteq Whole(s, E4)
    /\ s \in Tellers => TellsWhole(s, outs, ends)
    /\ \A o \in outs : o.stage \in Told => Learnt(o.stage, o.msg) \subseteq Whole(o.stage, E4)
    /\ RowsTold(outs)
    /\ s \in RowStages => RowsGoOn(s, w, gone, left, outs)
    /\ s = Mapper => EdgesGoOn(w, left, outs, ends)

(* A step that tells the truth, all of it, keeps the invariant.            *)
LEMMA FactsStay ==
    ASSUME HashIsNatural, client.query = 4, FactsInv,
           NEW s \in Followed, NEW w, NEW gone, NEW left, NEW outs, NEW ends,
           TruthStep(s, w, gone, left, outs, ends)
    PROVE  /\ PairsGiven' => FactsInv'
           /\ (s # LastJoiner \/ ends = {}) /\ (\A o \in outs : o.stage # "gateway")
                => FactsInv' /\ results' = results
<1>1. RowsInv'
  BY RowsStay DEF TruthStep, FactsInv, RowsInv
<1>2. TellersComplete'
  BY TellersStay DEF TruthStep, FactsInv
<1>3. ASSUME NEW d \in Told PROVE Sound(d)'
  BY SoundStays DEF TruthStep, FactsInv
<1>4. PairsGiven' => FactsInv'
  BY <1>1, <1>2, <1>3 DEF FactsInv, RowsInv
<1> QED
  BY <1>4, PairsStay DEF TruthStep, FactsInv

(* Messages for one worker, or for any, are received.                      *)
LEMMA OutReceived ==
    ASSUME HashIsNatural
    PROVE  /\ \A d, m : /\ Receivers(Out(d, AnyWorker, m)) # {}
                        /\ Out(d, AnyWorker, m).stage = d /\ Out(d, AnyWorker, m).msg = m
           /\ \A d \in Told : \A k, m : /\ Receivers(Out(d, Shard(d, k), m)) # {}
                                        /\ Out(d, Shard(d, k), m).stage = d
                                        /\ Out(d, Shard(d, k), m).msg = m
<1>1. \A d, m : /\ Receivers(Out(d, AnyWorker, m)) # {}
                /\ Out(d, AnyWorker, m).stage = d /\ Out(d, AnyWorker, m).msg = m
  BY DEF Receivers, Out, AnyWorker, EveryWorker, Nobody
<1>2. ASSUME NEW d \in Told, NEW k, NEW m
      PROVE  /\ Receivers(Out(d, Shard(d, k), m)) # {}
             /\ Out(d, Shard(d, k), m).stage = d
             /\ Out(d, Shard(d, k), m).msg = m
  <2>1. Shard(d, k) \in Nat
    BY HomeIsWorker
  <2> QED
    BY <2>1 DEF Receivers, Out, EveryWorker, Nobody
<1> QED
  BY <1>1, <1>2

-----------------------------------------------------------------------------
(* The filters before the mapper.                                          *)
LEMMA FilterDateTells ==
    ASSUME HashIsNatural, client.query = 4, FlowInv, FactsInv, NEW p, FilterDate(p)
    PROVE  FactsInv' /\ results' = results
<1> DEFINE s == "date_filter"
           outs == DateFilterOutputs(p.msg)
<1>1. s \in Followed /\ s \in RowStages /\ s \notin Told /\ s \notin Tellers /\ s # Mapper /\ s # LastJoiner
  BY ScatterStages DEF RowStages, Mapper, LastJoiner
<1>2. StepOf(s, 0, {p}, {}, outs, {}) /\ p \in inbox[s]
  BY <1>1, HandleIsStep DEF FilterDate, Pass
<1>3. p.msg \in client.rows
  BY <1>1, <1>2 DEF FactsInv, RowsSound, MayCome
<1>4. \A o \in outs : /\ o.stage \in {"usd_filter_q4", "pay_format_filter", "usd_filter_q3"}
                      /\ o.msg = p.msg
                      /\ o.stage = "usd_filter_q4" => p.msg.day \in 1 .. 5
  BY DEF DateFilterOutputs, Out
<1>5. \A o \in outs : o.stage \notin Told /\ o.stage # "gateway" /\ o.stage # Mapper
                      /\ o.stage # "date_filter"
  BY <1>4 DEF Told, Mapper, Aggregator, PairJoiner, LastJoiner
<1>6. RowsTold(outs)
  BY <1>3, <1>4, <1>5 DEF RowsTold, RowStages, MayCome, Early
<1>7. RowsGoOn(s, 0, {p}, {}, outs)
  <2>1. ASSUME p.msg \in Wanted(client.rows)
        PROVE  \E o \in outs : o.stage \in RowStages /\ Receivers(o) # {} /\ o.msg = p.msg
    <3>1. p.msg.day \in 1 .. 5
      BY <2>1 DEF Wanted, Early
    <3>2. Out("usd_filter_q4", AnyWorker, p.msg) \in outs
      BY <3>1 DEF DateFilterOutputs
    <3> QED
      BY <3>2, OutReceived DEF RowStages
  <2> QED
    BY <2>1 DEF RowsGoOn
<1> HIDE DEF outs
<1>8. TruthStep(s, 0, {p}, {}, outs, {})
  BY <1>1, <1>2, <1>5, <1>6, <1>7 DEF TruthStep
<1> QED
  BY <1>1, <1>5, <1>8, FactsStay

(* The usd filter gives the mapper the rows in dollars.                    *)
LEMMA FilterUsdQ4Tells ==
    ASSUME HashIsNatural, client.query = 4, FlowInv, FactsInv, NEW p, FilterUsdQ4(p)
    PROVE  FactsInv' /\ results' = results
<1> DEFINE s == "usd_filter_q4"
           outs == {Out(d, AnyWorker, p.msg) :
                      d \in IF InDollars(p.msg) THEN Outputs("usd_filter_q4") ELSE {}}
<1>1. s \in Followed /\ s \in RowStages /\ s \notin Told /\ s \notin Tellers /\ s # Mapper /\ s # LastJoiner
  BY ScatterStages DEF RowStages, Mapper, LastJoiner
<1>2. StepOf(s, 0, {p}, {}, outs, {}) /\ p \in inbox[s]
  BY <1>1, HandleIsStep DEF FilterUsdQ4, Pass
<1>3. p.msg \in Early(client.rows)
  BY <1>1, <1>2 DEF FactsInv, RowsSound, MayCome
<1>4. Outputs(s) = {Mapper, "average_per_pay_format_mapper"}
  BY WiringTable DEF Mapper
<1>5. \A o \in outs : /\ o.stage \in {Mapper, "average_per_pay_format_mapper"}
                      /\ o.msg = p.msg
                      /\ InDollars(p.msg)
  BY <1>4 DEF Out
<1>6. \A o \in outs : o.stage \notin Told /\ o.stage # "gateway" /\ o.stage # "usd_filter_q4"
                      /\ o.stage # "date_filter"
  BY <1>5 DEF Told, Mapper, Aggregator, PairJoiner, LastJoiner
<1>7. RowsTold(outs)
  BY <1>3, <1>5, <1>6 DEF RowsTold, RowStages, MayCome, Wanted
<1>8. RowsGoOn(s, 0, {p}, {}, outs)
  <2>1. ASSUME p.msg \in Wanted(client.rows)
        PROVE  \E o \in outs : o.stage \in RowStages /\ Receivers(o) # {} /\ o.msg = p.msg
    <3>1. InDollars(p.msg)
      BY <2>1 DEF Wanted
    <3>2. Out(Mapper, AnyWorker, p.msg) \in outs
      BY <1>4, <3>1
    <3> HIDE DEF outs
    <3> QED
      BY <3>2, OutReceived DEF RowStages
  <2> QED
    BY <2>1 DEF RowsGoOn
<1> HIDE DEF outs
<1>9. TruthStep(s, 0, {p}, {}, outs, {})
  BY <1>1, <1>2, <1>6, <1>7, <1>8 DEF TruthStep
<1> QED
  BY <1>1, <1>6, <1>9, FactsStay

(* The mapper keeps the edge, and in the end tells both of its fans.       *)
LEMMA MapEdgeTells ==
    ASSUME HashIsNatural, client.query = 4, FlowInv, FactsInv,
           NEW w \in WorkersOf(Mapper), NEW p, MapEdge(w, p)
    PROVE  FactsInv' /\ results' = results
<1> DEFINE s == Mapper
           left == memory[s][w] \cup {EdgeOf(p.msg)}
<1>1. s \in Followed /\ s \in RowStages /\ s \notin Told /\ s \notin Tellers /\ s # LastJoiner
  BY ScatterStages DEF RowStages
<1>2. StepOf(s, w, {p}, left, {}, {}) /\ p \in inbox[s] /\ closed[s] = {}
  <2>1. Handle(s, w, p, left, {})
    BY DEF MapEdge, EdgeOf, Mapper
  <2> HIDE DEF left
  <2> QED
    BY <1>1, <2>1, HandleIsStep
<1>3. p.msg \in Wanted(client.rows)
  BY <1>1, <1>2 DEF FactsInv, RowsSound, MayCome, Mapper
<1>4. EdgeOf(p.msg) \in E4
  BY <1>3 DEF E4, Edges, EdgeOf, Wanted
<1>5. memory[s][w] \subseteq E4
  BY DEF FactsInv, MapperHolds
<1>6. EdgesGoOn(w, left, {}, {})
  BY <1>2, <1>4, <1>5 DEF EdgesGoOn
<1>7. RowsGoOn(s, w, {p}, left, {}) /\ RowsTold({})
  BY DEF RowsGoOn, RowsTold
<1> HIDE DEF left
<1>8. TruthStep(s, w, {p}, left, {}, {})
  BY <1>1, <1>2, <1>6, <1>7 DEF TruthStep
<1> QED
  BY <1>1, <1>8, FactsStay

(* A mapper that closes tells both fans of each of its edges.              *)
LEMMA SendFansTells ==
    ASSUME HashIsNatural, client.query = 4, FlowInv, FactsInv,
           NEW w \in WorkersOf(Mapper), SendFans(w)
    PROVE  FactsInv' /\ results' = results
<1> DEFINE s == Mapper
           d == Aggregator
           m == memory[s][w]
           fans(type, pairs) == Grouped(type, d, pairs)
           outs == fans("FANOUT", m) \cup fans("FANIN", Turned(m))
<1>1. /\ s \in Followed /\ s \in RowStages /\ s \notin Told /\ s \notin Tellers /\ s # LastJoiner
      /\ d \in Told /\ d \notin RowStages /\ d # "gateway"
  BY ScatterStages DEF RowStages, Aggregator
<1>2. StepOf(s, w, {}, {}, outs, {w})
  <2>1. PostProcess(s, w, {}, outs)
    BY DEF SendFans, Mapper, Aggregator
  <2> HIDE DEF outs
  <2> QED
    BY <1>1, <2>1, PostProcessIsStep
<1>3. m \subseteq E4
  BY DEF FactsInv, MapperHolds
<1>4. ASSUME NEW type, NEW pairs
      PROVE  /\ \A o \in fans(type, pairs) :
                   o.stage = d /\ Learnt(d, o.msg) \subseteq Facts(type, pairs)
             /\ \A x \in pairs : Tells(d, fans(type, pairs), <<type, x[1], x[2]>>)
  <2> DEFINE msgOf(k) == [type |-> type, key |-> k, value |-> Seconds(pairs, k)]
  <2>1. \A k : Learnt(d, msgOf(k)) = {<<type, k, v>> : v \in Seconds(pairs, k)}
    BY DEF Learnt, Fan
  <2>2. \A k : Learnt(d, msgOf(k)) \subseteq Facts(type, pairs)
    BY <2>1 DEF Facts, Seconds
  <2>3. ASSUME NEW o \in fans(type, pairs)
        PROVE  o.stage = d /\ Learnt(d, o.msg) \subseteq Facts(type, pairs)
    <3>1. PICK k : o = Out(d, Shard(d, k), msgOf(k))
      BY DEF Grouped
    <3> HIDE DEF msgOf
    <3> QED
      BY <1>1, <2>2, <3>1, OutReceived
  <2>4. ASSUME NEW x \in pairs
        PROVE  Tells(d, fans(type, pairs), <<type, x[1], x[2]>>)
    <3>1. Out(d, Shard(d, x[1]), msgOf(x[1])) \in fans(type, pairs)
      BY DEF Grouped, Firsts
    <3>2. <<type, x[1], x[2]>> \in Learnt(d, msgOf(x[1]))
      BY <2>1 DEF Seconds
    <3> HIDE DEF msgOf, fans
    <3> QED
      BY <1>1, <3>1, <3>2, OutReceived DEF Tells
  <2> QED
    BY <2>3, <2>4
<1>5. \A e \in E4 : Fans(e) \subseteq Whole(d, E4)
  BY DEF Whole
<1>6. Facts("FANOUT", m) \subseteq Whole(d, E4) /\ Facts("FANIN", Turned(m)) \subseteq Whole(d, E4)
  <2>1. ASSUME NEW x \in Facts("FANOUT", m) PROVE \E e \in m : x \in Fans(e)
    BY DEF Facts, Fans
  <2>2. ASSUME NEW x \in Facts("FANIN", Turned(m)) PROVE \E e \in m : x \in Fans(e)
    <3>1. PICK y \in Turned(m) : x = <<"FANIN", y[1], y[2]>>
      BY DEF Facts
    <3>2. PICK e \in m : y = <<e[2], e[1]>>
      BY DEF Turned
    <3> QED
      BY <3>1, <3>2 DEF Fans
  <2> QED
    BY <1>3, <1>5, <2>1, <2>2
<1>7. \A o \in outs : o.stage = d /\ Learnt(d, o.msg) \subseteq Whole(d, E4)
  <2> HIDE DEF fans
  <2> QED
    BY <1>4, <1>6
<1>8. \A e \in m : \A x \in Fans(e) : Tells(d, outs, x)
  <2>1. ASSUME NEW e \in m
        PROVE  /\ Tells(d, fans("FANOUT", m), <<"FANOUT", e[1], e[2]>>)
               /\ Tells(d, fans("FANIN", Turned(m)), <<"FANIN", e[2], e[1]>>)
    <3>1. /\ <<e[2], e[1]>> \in Turned(m)
          /\ <<e[2], e[1]>>[1] = e[2] /\ <<e[2], e[1]>>[2] = e[1]
      BY DEF Turned
    <3> HIDE DEF fans, m
    <3> QED
      BY <1>4, <3>1
  <2> HIDE DEF fans
  <2> QED
    BY <2>1 DEF Fans, Tells
<1>9. RowsTold(outs) /\ RowsGoOn(s, w, {}, {}, outs)
  BY <1>1, <1>7 DEF RowsTold, RowsGoOn
<1>10. EdgesGoOn(w, {}, outs, {w})
  BY <1>8 DEF EdgesGoOn
<1> HIDE DEF outs
<1>11. TruthStep(s, w, {}, {}, outs, {w})
  BY <1>1, <1>2, <1>7, <1>9, <1>10 DEF TruthStep
<1> QED
  BY <1>1, <1>7, <1>11, FactsStay

-----------------------------------------------------------------------------
\* Some pair of the set joins a to b.
Joined(pairs, a, b) == \E x \in pairs : x[1] = a /\ x[2] = b

(* The facts of pairs.                                                     *)
LEMMA FactsOfPairs ==
    /\ \A type, pairs, a, b : <<type, a, b>> \in Facts(type, pairs) <=> Joined(pairs, a, b)
    /\ \A type, pairs, x : x \in Facts(type, pairs) => x = <<type, x[2], x[3]>>
    /\ \A pairs, a, b : Joined(Turned(pairs), a, b) <=> Joined(pairs, b, a)
    /\ \A pairs, a, b : b \in Seconds(pairs, a) <=> Joined(pairs, a, b)
    /\ \A pairs, a, b : Joined(AboveThreshold(pairs), a, b) <=>
                          Joined(pairs, a, b) /\ Cardinality(Seconds(pairs, a)) >= Threshold
<1>1. \A type, pairs, a, b : <<type, a, b>> \in Facts(type, pairs) <=> Joined(pairs, a, b)
  BY DEF Facts, Joined
<1>2. \A type, pairs, x : x \in Facts(type, pairs) => x = <<type, x[2], x[3]>>
  BY DEF Facts
<1>3. ASSUME NEW pairs, NEW a, NEW b
      PROVE  Joined(Turned(pairs), a, b) <=> Joined(pairs, b, a)
  <2>1. ASSUME NEW x \in Turned(pairs), x[1] = a, x[2] = b PROVE Joined(pairs, b, a)
    BY <2>1 DEF Turned, Joined
  <2>2. ASSUME NEW x \in pairs, x[1] = b, x[2] = a PROVE Joined(Turned(pairs), a, b)
    <3>1. <<x[2], x[1]>> \in Turned(pairs)
      BY DEF Turned
    <3> QED
      BY <2>2, <3>1 DEF Joined
  <2> QED
    BY <2>1, <2>2 DEF Joined
<1>4. \A pairs, a, b : b \in Seconds(pairs, a) <=> Joined(pairs, a, b)
  BY DEF Seconds, Joined
<1>5. ASSUME NEW pairs, NEW a, NEW b
      PROVE  Joined(AboveThreshold(pairs), a, b) <=>
               Joined(pairs, a, b) /\ Cardinality(Seconds(pairs, a)) >= Threshold
  BY DEF Joined, AboveThreshold
<1> QED
  BY <1>1, <1>2, <1>3, <1>4, <1>5

(* The facts of each stage, by type.                                       *)
LEMMA FactsOfStages ==
    ASSUME NEW E
    PROVE  /\ Whole(Aggregator, E) = Facts("FANOUT", E) \cup Facts("FANIN", Turned(E))
           /\ Whole(PairJoiner, E) = WideFans(E) /\ Whole(LastJoiner, E) = Triples(E)
           /\ \A s \in Tellers : \A x \in Whole(s, E) :
                x[1] \in {"FANOUT", "FANIN"} /\ x = <<x[1], x[2], x[3]>>
           /\ \A a, b : <<"FANOUT", a, b>> \in Whole(Aggregator, E) <=> Joined(E, a, b)
           /\ \A a, b : <<"FANIN", a, b>> \in Whole(Aggregator, E) <=> Joined(Turned(E), a, b)
           /\ \A a, b : <<"FANOUT", a, b>> \in WideFans(E) <=> Joined(AboveThreshold(E), b, a)
           /\ \A a, b : <<"FANIN", a, b>> \in WideFans(E) <=> Joined(AboveThreshold(Turned(E)), b, a)
<1>1. Whole(PairJoiner, E) = WideFans(E) /\ Whole(LastJoiner, E) = Triples(E)
  BY DEF Whole, Aggregator, PairJoiner, LastJoiner
<1>2. Whole(Aggregator, E) = Facts("FANOUT", E) \cup Facts("FANIN", Turned(E))
  <2>1. Whole(Aggregator, E) = UNION {Fans(e) : e \in E}
    BY DEF Whole
  <2>2. ASSUME NEW e \in E
        PROVE  Fans(e) \subseteq Facts("FANOUT", E) \cup Facts("FANIN", Turned(E))
    <3>1. <<"FANOUT", e[1], e[2]>> \in Facts("FANOUT", E)
      BY DEF Facts
    <3>a. Joined(E, e[1], e[2])
      BY DEF Joined
    <3>2. Joined(Turned(E), e[2], e[1])
      BY <3>a, FactsOfPairs
    <3>3. <<"FANIN", e[2], e[1]>> \in Facts("FANIN", Turned(E))
      BY <3>2, FactsOfPairs
    <3> QED
      BY <3>1, <3>3 DEF Fans
  <2>3. ASSUME NEW x \in Facts("FANOUT", E) PROVE \E e \in E : x \in Fans(e)
    BY DEF Facts, Fans
  <2>4. ASSUME NEW x \in Facts("FANIN", Turned(E)) PROVE \E e \in E : x \in Fans(e)
    <3>1. x = <<"FANIN", x[2], x[3]>>
      BY FactsOfPairs
    <3>2. Joined(Turned(E), x[2], x[3])
      BY <3>1, FactsOfPairs
    <3>3. Joined(E, x[3], x[2])
      BY <3>2, FactsOfPairs
    <3> QED
      BY <3>1, <3>3 DEF Joined, Fans
  <2> QED
    BY <2>1, <2>2, <2>3, <2>4
<1>3. \A pairs, x : /\ x \in Facts("FANOUT", pairs) => x = <<"FANOUT", x[2], x[3]>>
                    /\ x \in Facts("FANIN", pairs) => x = <<"FANIN", x[2], x[3]>>
  BY FactsOfPairs
<1>4. \A s \in Tellers : \A x \in Whole(s, E) :
        x[1] \in {"FANOUT", "FANIN"} /\ x = <<x[1], x[2], x[3]>>
  <2>1. \A A, B : \A x \in Facts("FANOUT", A) \cup Facts("FANIN", B) :
          x[1] \in {"FANOUT", "FANIN"} /\ x = <<x[1], x[2], x[3]>>
    BY <1>3
  <2> QED
    BY <1>1, <1>2, <2>1 DEF Tellers, WideFans
<1>5. ASSUME NEW A, NEW B, NEW a, NEW b
      PROVE  /\ <<"FANOUT", a, b>> \in Facts("FANOUT", A) \cup Facts("FANIN", B) <=> Joined(A, a, b)
             /\ <<"FANIN", a, b>> \in Facts("FANOUT", A) \cup Facts("FANIN", B) <=> Joined(B, a, b)
  <2>1. <<"FANOUT", a, b>> \notin Facts("FANIN", B) /\ <<"FANIN", a, b>> \notin Facts("FANOUT", A)
    BY DEF Facts
  <2> QED
    BY <2>1, FactsOfPairs
<1>6. \A a, b : /\ <<"FANOUT", a, b>> \in WideFans(E) <=> Joined(Turned(AboveThreshold(E)), a, b)
                /\ <<"FANIN", a, b>> \in WideFans(E) <=> Joined(Turned(AboveThreshold(Turned(E))), a, b)
  BY <1>5 DEF WideFans
<1> QED
  BY <1>1, <1>2, <1>4, <1>5, <1>6, FactsOfPairs

(* What a worker of a teller knows, by type.                               *)
LEMMA KnownByType ==
    ASSUME NEW s \in Tellers, NEW m
    PROVE  \A a, b : /\ <<"FANOUT", a, b>> \in Known(s, m) <=> Joined(m.fanout, a, b)
                     /\ <<"FANIN", a, b>> \in Known(s, m) <=> Joined(m.fanin, a, b)
<1>1. Known(s, m) = Facts("FANOUT", m.fanout) \cup Facts("FANIN", m.fanin)
  BY DEF Known, Tellers, Aggregator, PairJoiner, LastJoiner
<1>2. \A A, B, a, b : <<"FANOUT", a, b>> \notin Facts("FANIN", B) /\ <<"FANIN", a, b>> \notin Facts("FANOUT", A)
  BY DEF Facts
<1> QED
  BY <1>1, <1>2, FactsOfPairs

(* The triples.                                                            *)
LEMMA TriplesAre ==
    ASSUME NEW E, NEW t
    PROVE  t \in Triples(E) <=>
             /\ t = <<t[1], t[2], t[3]>>
             /\ <<"FANOUT", t[3], t[1]>> \in WideFans(E)
             /\ <<"FANIN", t[3], t[2]>> \in WideFans(E)
<1>1. ASSUME t \in Triples(E)
      PROVE  /\ t = <<t[1], t[2], t[3]>>
             /\ <<"FANOUT", t[3], t[1]>> \in WideFans(E)
             /\ <<"FANIN", t[3], t[2]>> \in WideFans(E)
  <2>1. PICK x \in WideFans(E), y \in WideFans(E) :
               /\ x[1] = "FANOUT" /\ y[1] = "FANIN" /\ x[2] = y[2]
               /\ t = <<x[3], y[3], x[2]>>
    BY <1>1 DEF Triples
  <2>2. x = <<x[1], x[2], x[3]>> /\ y = <<y[1], y[2], y[3]>>
    BY FactsOfStages DEF Tellers
  <2> QED
    BY <2>1, <2>2
<1>2. ASSUME t = <<t[1], t[2], t[3]>>,
             <<"FANOUT", t[3], t[1]>> \in WideFans(E), <<"FANIN", t[3], t[2]>> \in WideFans(E)
      PROVE  t \in Triples(E)
  <2> DEFINE z == <<<<"FANOUT", t[3], t[1]>>, <<"FANIN", t[3], t[2]>>>>
  <2>1. /\ z \in WideFans(E) \X WideFans(E) /\ z[1][1] = "FANOUT" /\ z[2][1] = "FANIN"
        /\ z[1][2] = z[2][2] /\ t = <<z[1][3], z[2][3], z[1][2]>>
    BY <1>2
  <2> HIDE DEF z
  <2> QED
    BY <2>1 DEF Triples
<1> QED
  BY <1>1, <1>2

-----------------------------------------------------------------------------
(* A worker that takes a packet knows its facts.                           *)
LEMMA TakenIsTold ==
    ASSUME HashIsNatural, client.query = 4, FlowInv, FactsInv,
           NEW s \in Told, NEW w \in WorkersOf(s), NEW p, NEW left, Handle(s, w, p, left, {}),
           Known(s, left) = Known(s, memory[s][w]) \cup Learnt(s, p.msg)
    PROVE  FactsInv' /\ results' = results
<1>1. /\ s \in Followed /\ s \in Sharded /\ s \notin RowStages /\ s # Mapper
  BY ScatterStages DEF RowStages
<1>2. StepOf(s, w, {p}, left, {}, {}) /\ p \in inbox[s]
  BY <1>1, HandleIsStep
<1>3. \A x \in Learnt(s, p.msg) : Home(s, x) = w
  <2>1. Shard(s, KeyOf(s, p.msg)) = w
    BY <1>1, TakenByItsWorker DEF FlowInv, Handle
  <2> QED
    BY <2>1, HomeIsKey
<1>4. Keeps(s, w, {p}, left, {})
  BY <1>3 DEF Keeps
<1>5. Known(s, left) \subseteq Whole(s, E4)
  BY <1>2 DEF FactsInv, Sound
<1>6. TellsWhole(s, {}, {}) /\ RowsTold({})
  BY DEF TellsWhole, RowsTold
<1>7. TruthStep(s, w, {p}, left, {}, {})
  BY <1>1, <1>2, <1>4, <1>5, <1>6 DEF TruthStep
<1> QED
  BY <1>1, <1>7, FactsStay

(* The facts of a fan.                                                     *)
LEMMA FactsOfFan ==
    ASSUME NEW type, NEW key, NEW value
    PROVE  Facts(type, {key} \X value) = Fan(type, key, value)
<1>1. ASSUME NEW v \in value PROVE <<type, key, v>> \in Facts(type, {key} \X value)
  <2>1. <<key, v>> \in {key} \X value /\ <<key, v>>[1] = key /\ <<key, v>>[2] = v
    OBVIOUS
  <2> QED
    BY <2>1, FactsOfPairs DEF Joined
<1>2. ASSUME NEW x \in Facts(type, {key} \X value) PROVE x \in Fan(type, key, value)
  <2>1. PICK y \in {key} \X value : x = <<type, y[1], y[2]>>
    BY DEF Facts
  <2>2. y[1] = key /\ y[2] \in value
    OBVIOUS
  <2> QED
    BY <2>1, <2>2 DEF Fan
<1> QED
  BY <1>1, <1>2 DEF Fan

(* An aggregator learns what a mapper tells.                               *)
LEMMA AggregateTells ==
    ASSUME HashIsNatural, client.query = 4, FlowInv, FactsInv,
           NEW w \in WorkersOf(Aggregator), NEW p, Aggregate(w, p)
    PROVE  FactsInv' /\ results' = results
<1> DEFINE s == Aggregator
           m == memory[s][w]
           pairs == {p.msg.key} \X p.msg.value
           left == Learn(m, p.msg.type, pairs)
<1>1. Handle(s, w, p, left, {}) /\ p \in inbox[s]
  BY DEF Aggregate, Aggregator, Handle, Take
<1>2. s \in Told /\ s \in Tellers /\ s \in Followed /\ s \in Sharded
  BY ScatterStages DEF Tellers
<1>3. Shape(s, m)
  BY <1>2 DEF FlowInv, KeyInv, MemoryInv, Belongs
<1>4. Learnt(s, p.msg) = Facts(p.msg.type, pairs)
  <2>1. Learnt(s, p.msg) = Fan(p.msg.type, p.msg.key, p.msg.value)
    BY DEF Learnt
  <2> QED
    BY <2>1, FactsOfFan
<1>5. CASE p.msg.type \in {"FANOUT", "FANIN"}
  <2>1. Known(s, left) = Known(s, m) \cup Learnt(s, p.msg)
    BY <1>2, <1>3, <1>4, <1>5, LearnAdds
  <2> HIDE DEF left, pairs
  <2> QED
    BY <1>1, <1>2, <2>1, TakenIsTold
<1>6. CASE p.msg.type \notin {"FANOUT", "FANIN"}
  <2>1. Learnt(s, p.msg) = {}
    <3>1. Learnt(s, p.msg) \subseteq Whole(s, E4)
      BY <1>1, <1>2 DEF FactsInv, Sound
    <3>2. \A x \in Learnt(s, p.msg) : x[1] = p.msg.type
      BY <1>4 DEF Facts
    <3> QED
      BY <1>2, <1>6, <3>1, <3>2, FactsOfStages
  <2>2. pairs = {}
    BY <1>4, <2>1 DEF Facts
  <2>3. left.fanout = m.fanout /\ left.fanin = m.fanin
    <3>1. m = [fanout |-> m.fanout, fanin |-> m.fanin]
      BY <1>3 DEF Shape, Aggregator
    <3> HIDE DEF m, pairs
    <3> QED
      BY <1>6, <2>2, <3>1 DEF Learn
  <2>4. Known(s, left) = Known(s, m) \cup Learnt(s, p.msg)
    BY <1>2, <2>1, <2>3 DEF Known, Tellers, Aggregator, PairJoiner, LastJoiner
  <2> HIDE DEF left, pairs
  <2> QED
    BY <1>1, <1>2, <2>4, TakenIsTold
<1> QED
  BY <1>5, <1>6

(* A pair joiner learns what an aggregator tells.                          *)
LEMMA JoinMiddleTells ==
    ASSUME HashIsNatural, client.query = 4, FlowInv, FactsInv,
           NEW w \in WorkersOf(PairJoiner), NEW p, JoinMiddle(w, p)
    PROVE  FactsInv' /\ results' = results
<1> DEFINE s == PairJoiner
           m == memory[s][w]
           pairs == {<<p.msg.value, p.msg.key>>}
           left == Learn(m, p.msg.type, pairs)
<1>1. Handle(s, w, p, left, {}) /\ p \in inbox[s]
  BY DEF JoinMiddle, PairJoiner, Handle, Take
<1>2. s \in Told /\ s \in Tellers /\ s \in Followed /\ s \in Sharded
  BY ScatterStages DEF Tellers
<1>3. Shape(s, m)
  BY <1>2 DEF FlowInv, KeyInv, MemoryInv, Belongs
<1>4. /\ Learnt(s, p.msg) = {<<p.msg.type, p.msg.value, p.msg.key>>}
      /\ Facts(p.msg.type, pairs) = {<<p.msg.type, p.msg.value, p.msg.key>>}
  BY DEF Learnt, Facts, Aggregator, PairJoiner
<1>5. p.msg.type \in {"FANOUT", "FANIN"}
  <2>1. Learnt(s, p.msg) \subseteq Whole(s, E4)
    BY <1>1, <1>2 DEF FactsInv, Sound
  <2> QED
    BY <1>2, <1>4, <2>1, FactsOfStages
<1> HIDE DEF m, pairs
<1>6. Known(s, left) = Known(s, m) \cup Learnt(s, p.msg)
  BY <1>2, <1>3, <1>4, <1>5, LearnAdds
<1> USE DEF m
<1> HIDE DEF left, pairs
<1> QED
  BY <1>1, <1>2, <1>6, TakenIsTold

(* A joiner learns what a pair joiner tells.                               *)
LEMMA JoinPairTells ==
    ASSUME HashIsNatural, client.query = 4, FlowInv, FactsInv,
           NEW w \in WorkersOf(LastJoiner), NEW p, JoinPair(w, p)
    PROVE  FactsInv' /\ results' = results
<1> DEFINE s == LastJoiner
           left == memory[s][w] \cup {p.msg}
<1>1. Handle(s, w, p, left, {})
  BY DEF JoinPair, LastJoiner
<1>2. s \in Told
  BY ScatterStages
<1>3. Known(s, left) = Known(s, memory[s][w]) \cup Learnt(s, p.msg)
  BY DEF Known, Learnt, Aggregator, PairJoiner, LastJoiner
<1> HIDE DEF left
<1> QED
  BY <1>1, <1>2, <1>3, TakenIsTold

-----------------------------------------------------------------------------
(* A worker that ends tells what it knows, which is all of its part.       *)
LEMMA EndIsTold ==
    ASSUME HashIsNatural, client.query = 4, FlowInv, FactsInv,
           NEW s \in Tellers, NEW w, NEW outs, PostProcess(s, w, Empty(s), outs),
           TellsWhole(s, outs, {w}),
           \A o \in outs : o.stage = Hears(s) /\ Learnt(Hears(s), o.msg) \subseteq Whole(Hears(s), E4)
    PROVE  FactsInv' /\ results' = results
<1>1. /\ s \in Followed /\ s \in Told /\ s \notin RowStages /\ s # Mapper /\ s # LastJoiner
      /\ Hears(s) \in Told /\ Hears(s) \notin RowStages /\ Hears(s) # "gateway"
  BY ScatterStages, StageNames DEF RowStages
<1>2. StepOf(s, w, {}, Empty(s), outs, {w})
  BY <1>1, PostProcessIsStep
<1>3. Known(s, Empty(s)) = {}
  <2>1. Empty(s) = [fanout |-> {}, fanin |-> {}] /\ s # LastJoiner
    BY DEF Empty, Tellers, Aggregator, PairJoiner, LastJoiner
  <2> QED
    BY <2>1 DEF Known, Facts
<1>4. Keeps(s, w, {}, Empty(s), {w}) /\ RowsTold(outs)
  BY <1>1 DEF Keeps, RowsTold
<1>5. TruthStep(s, w, {}, Empty(s), outs, {w})
  BY <1>1, <1>2, <1>3, <1>4 DEF TruthStep
<1> QED
  BY <1>1, <1>5, FactsStay

\* What the worker w of the stage s holds of the pairs G.
PartOf(s, w, F, G) == \A a, b : Joined(F, a, b) <=> Joined(G, a, b) /\ Shard(s, a) = w

(* The fans of a part that are wide are the wide fans of the part.         *)
LEMMA WidePart ==
    ASSUME NEW s, NEW w, NEW F, NEW G, PartOf(s, w, F, G)
    PROVE  PartOf(s, w, AboveThreshold(F), AboveThreshold(G))
<1>1. ASSUME NEW a, Shard(s, a) = w
      PROVE  Seconds(F, a) = Seconds(G, a)
  BY <1>1, FactsOfPairs DEF PartOf
<1> QED
  BY <1>1, FactsOfPairs DEF PartOf

(* The messages of the middles.                                            *)
LEMMA MiddlesTell ==
    ASSUME HashIsNatural, NEW type, NEW pairs
    PROVE  /\ \A o \in Middles(type, pairs) :
                /\ o.stage = PairJoiner
                /\ \E a, b : Joined(pairs, a, b) /\ Learnt(PairJoiner, o.msg) = {<<type, b, a>>}
           /\ \A a, b : Joined(pairs, a, b) =>
                Tells(PairJoiner, Middles(type, pairs), <<type, b, a>>)
<1> DEFINE d == PairJoiner
           msgOf(x) == [type |-> type, key |-> x[1], value |-> x[2]]
<1>1. \A x : Learnt(d, msgOf(x)) = {<<type, x[2], x[1]>>}
  BY DEF Learnt, Aggregator, PairJoiner
<1>2. d \in Told
  BY DEF Told
<1>3. ASSUME NEW o \in Middles(type, pairs)
      PROVE  /\ o.stage = d
             /\ \E a, b : Joined(pairs, a, b) /\ Learnt(d, o.msg) = {<<type, b, a>>}
  <2>1. PICK x \in pairs : o = Out(d, Shard(d, x[2]), msgOf(x))
    BY DEF Middles, PairJoiner
  <2>2. o.stage = d /\ o.msg = msgOf(x)
    <3> HIDE DEF msgOf
    <3> QED
      BY <1>2, <2>1, OutReceived
  <2>3. Joined(pairs, x[1], x[2]) /\ Learnt(d, o.msg) = {<<type, x[2], x[1]>>}
    <3> HIDE DEF msgOf
    <3> QED
      BY <1>1, <2>2 DEF Joined
  <2> QED
    BY <2>2, <2>3
<1>4. ASSUME NEW a, NEW b, Joined(pairs, a, b)
      PROVE  Tells(d, Middles(type, pairs), <<type, b, a>>)
  <2>1. PICK x \in pairs : x[1] = a /\ x[2] = b
    BY <1>4 DEF Joined
  <2>2. Out(d, Shard(d, x[2]), msgOf(x)) \in Middles(type, pairs)
    BY DEF Middles, PairJoiner
  <2>3. <<type, b, a>> \in Learnt(d, msgOf(x))
    BY <1>1, <2>1
  <2> HIDE DEF msgOf
  <2> QED
    BY <1>2, <2>2, <2>3, OutReceived DEF Tells
<1> QED
  BY <1>3, <1>4

(* An aggregator that closes holds whole fans: it tells the wide ones.     *)
LEMMA SendMiddlesTells ==
    ASSUME HashIsNatural, hasty = {}, client.query = 4, FlowInv, FactsInv,
           NEW w \in WorkersOf(Aggregator), SendMiddles(w)
    PROVE  FactsInv' /\ results' = results
<1> DEFINE s == Aggregator
           m == memory[s][w]
           A == AboveThreshold(m.fanout)
           B == AboveThreshold(m.fanin)
           outs == Middles("FANOUT", A) \cup Middles("FANIN", B)
<1>1. PostProcess(s, w, Empty(s), outs) /\ Decided(s) /\ w \notin closed[s]
  BY DEF SendMiddles, Aggregator, PostProcess
<1>2. s \in Tellers /\ s \in Told /\ Hears(s) = PairJoiner /\ s # LastJoiner
  BY DEF Tellers, Told, Hears, Aggregator, LastJoiner
<1>3. \A x : x \in Known(s, m) <=> x \in Whole(s, E4) /\ Home(s, x) = w
  BY <1>1, <1>2, KnowsWhole
<1>4. \A type, a, b : Home(s, <<type, a, b>>) = Shard(s, a)
  BY <1>2 DEF Home
<1>5. PartOf(s, w, m.fanout, E4) /\ PartOf(s, w, m.fanin, Turned(E4))
  <2> HIDE DEF m
  <2>1. \A a, b : /\ <<"FANOUT", a, b>> \in Known(s, m) <=> Joined(m.fanout, a, b)
                  /\ <<"FANIN", a, b>> \in Known(s, m) <=> Joined(m.fanin, a, b)
    BY <1>2, KnownByType
  <2>2. \A a, b : /\ <<"FANOUT", a, b>> \in Whole(s, E4) <=> Joined(E4, a, b)
                  /\ <<"FANIN", a, b>> \in Whole(s, E4) <=> Joined(Turned(E4), a, b)
    BY FactsOfStages
  <2> HIDE DEF s
  <2> QED
    BY <1>3, <1>4, <2>1, <2>2 DEF PartOf
<1>6. PartOf(s, w, A, AboveThreshold(E4)) /\ PartOf(s, w, B, AboveThreshold(Turned(E4)))
  <2> HIDE DEF m
  <2> QED
    BY <1>5, WidePart
<1> HIDE DEF m, A, B
<1>7. \A a, b : /\ Joined(A, a, b) <=> <<"FANOUT", b, a>> \in WideFans(E4) /\ Shard(s, a) = w
                /\ Joined(B, a, b) <=> <<"FANIN", b, a>> \in WideFans(E4) /\ Shard(s, a) = w
  BY <1>6, FactsOfStages DEF PartOf
<1>8. Whole(PairJoiner, E4) = WideFans(E4)
  BY FactsOfStages
<1>9. ASSUME NEW o \in outs
      PROVE  o.stage = PairJoiner /\ Learnt(PairJoiner, o.msg) \subseteq WideFans(E4)
  <2>1. CASE o \in Middles("FANOUT", A)
    <3>1. PICK a, b : Joined(A, a, b) /\ Learnt(PairJoiner, o.msg) = {<<"FANOUT", b, a>>}
      BY <2>1, MiddlesTell
    <3> QED
      BY <1>7, <2>1, <3>1, MiddlesTell
  <2>2. CASE o \in Middles("FANIN", B)
    <3>1. PICK a, b : Joined(B, a, b) /\ Learnt(PairJoiner, o.msg) = {<<"FANIN", b, a>>}
      BY <2>2, MiddlesTell
    <3> QED
      BY <1>7, <2>2, <3>1, MiddlesTell
  <2> QED
    BY <2>1, <2>2
<1>10. TellsWhole(s, outs, {w})
  <2>1. ASSUME NEW x \in WideFans(E4), Shard(s, x[3]) = w
        PROVE  Tells(PairJoiner, outs, x)
    <3>1. x[1] \in {"FANOUT", "FANIN"} /\ x = <<x[1], x[2], x[3]>>
      BY <1>8, FactsOfStages DEF Tellers
    <3>2. \/ Tells(PairJoiner, Middles("FANOUT", A), x)
          \/ Tells(PairJoiner, Middles("FANIN", B), x)
      <4>1. CASE x[1] = "FANOUT"
        <5>1. x = <<"FANOUT", x[2], x[3]>>
          BY <3>1, <4>1
        <5>2. Joined(A, x[3], x[2])
          BY <1>7, <2>1, <5>1
        <5> QED
          BY <5>1, <5>2, MiddlesTell
      <4>2. CASE x[1] = "FANIN"
        <5>1. x = <<"FANIN", x[2], x[3]>>
          BY <3>1, <4>2
        <5>2. Joined(B, x[3], x[2])
          BY <1>7, <2>1, <5>1
        <5> QED
          BY <5>1, <5>2, MiddlesTell
      <4> QED
        BY <3>1, <4>1, <4>2
    <3> QED
      BY <3>2 DEF Tells
  <2> HIDE DEF outs
  <2> QED
    BY <1>2, <1>8, <2>1 DEF TellsWhole
<1> HIDE DEF outs, s
<1> QED
  BY <1>1, <1>2, <1>8, <1>9, <1>10, EndIsTold

(* A pair joiner that closes tells every pair that meets in its middles.   *)
LEMMA SendPairsTells ==
    ASSUME HashIsNatural, hasty = {}, client.query = 4, FlowInv, FactsInv,
           NEW w \in WorkersOf(PairJoiner), SendPairs(w)
    PROVE  FactsInv' /\ results' = results
<1> DEFINE s == PairJoiner
           d == LastJoiner
           m == memory[s][w]
           outOf(pair, mid) == Out(d, Shard(d, pair), <<pair[1], pair[2], mid>>)
           outs == UNION {{outOf(pair, mid) : pair \in Seconds(m.fanout, mid) \X Seconds(m.fanin, mid)} :
                            mid \in Firsts(m.fanout)}
<1>1. PostProcess(s, w, Empty(s), outs) /\ Decided(s) /\ w \notin closed[s]
  BY DEF SendPairs, PairJoiner, LastJoiner, PostProcess
<1>2. s \in Tellers /\ s \in Told /\ Hears(s) = d /\ s # LastJoiner /\ d \in Told
  BY DEF Tellers, Told, Hears, Aggregator, PairJoiner, LastJoiner
<1>3. \A x : x \in Known(s, m) <=> x \in Whole(s, E4) /\ Home(s, x) = w
  BY <1>1, <1>2, KnowsWhole
<1>4. \A type, a, b : Home(s, <<type, a, b>>) = Shard(s, a)
  BY <1>2 DEF Home
<1>5. Whole(s, E4) = WideFans(E4) /\ Whole(d, E4) = Triples(E4)
  BY FactsOfStages
<1> HIDE DEF m
<1>6. \A a, b : /\ Joined(m.fanout, a, b) <=> <<"FANOUT", a, b>> \in WideFans(E4) /\ Shard(s, a) = w
                /\ Joined(m.fanin, a, b) <=> <<"FANIN", a, b>> \in WideFans(E4) /\ Shard(s, a) = w
  BY <1>2, <1>3, <1>4, <1>5, KnownByType
<1>7. \A x : Learnt(d, x) = {x}
  BY DEF Learnt, Aggregator, PairJoiner, LastJoiner
<1>8. ASSUME NEW o \in outs
      PROVE  o.stage = d /\ o.msg \in Triples(E4)
  <2>1. PICK mid \in Firsts(m.fanout) :
          \E pair \in Seconds(m.fanout, mid) \X Seconds(m.fanin, mid) : o = outOf(pair, mid)
    OBVIOUS
  <2>2. PICK pair \in Seconds(m.fanout, mid) \X Seconds(m.fanin, mid) : o = outOf(pair, mid)
    BY <2>1
  <2>3. Joined(m.fanout, mid, pair[1]) /\ Joined(m.fanin, mid, pair[2])
    BY FactsOfPairs
  <2>4. o.stage = d /\ o.msg = <<pair[1], pair[2], mid>>
    BY <2>2 DEF Out
  <2> QED
    BY <1>6, <2>3, <2>4, TriplesAre
<1>9. TellsWhole(s, outs, {w})
  <2>1. ASSUME NEW t \in Triples(E4), Shard(s, t[3]) = w
        PROVE  Tells(d, outs, t)
    <3>1. /\ t = <<t[1], t[2], t[3]>>
          /\ Joined(m.fanout, t[3], t[1]) /\ Joined(m.fanin, t[3], t[2])
      BY <1>6, <2>1, TriplesAre
    <3> DEFINE pair == <<t[1], t[2]>>
    <3>2. t[3] \in Firsts(m.fanout)
      BY <3>1 DEF Joined, Firsts
    <3>3. pair \in Seconds(m.fanout, t[3]) \X Seconds(m.fanin, t[3])
      BY <3>1, FactsOfPairs
    <3>4. outOf(pair, t[3]) \in outs
      BY <3>2, <3>3
    <3>5. outOf(pair, t[3]) = Out(d, Shard(d, pair), t)
      BY <3>1
    <3> HIDE DEF outOf, outs, pair
    <3> QED
      BY <1>2, <1>7, <3>4, <3>5, OutReceived DEF Tells
  <2> HIDE DEF outs
  <2> QED
    BY <1>2, <1>5, <2>1 DEF TellsWhole
<1> HIDE DEF outs, s, d
<1> QED
  BY <1>1, <1>2, <1>5, <1>7, <1>8, <1>9, EndIsTold

-----------------------------------------------------------------------------
\* The pairs that the last joiner finds in its triples.
Met(triples) ==
    {x \in PairsOf(triples) :
        x[1] # x[2] /\ Cardinality({t \in triples : <<t[1], t[2]>> = x}) >= Threshold}

EdgeSet(E) == IsFiniteSet(E) /\ \A e \in E : e = <<e[1], e[2]>>

TriplesOf(w, E) == {t \in Triples(E) : Home(LastJoiner, t) = w}

(* The pairs that meet in enough triples are those that enough accounts    *)
(* join: when enough do, both fans of the pair are wide.                   *)
LEMMA PairsThatMeet ==
    ASSUME NEW E, EdgeSet(E), NEW w, NEW x
    PROVE  x \in Met(TriplesOf(w, E)) <=> x \in ScatterGather(E) /\ Shard(LastJoiner, x) = w
<1> DEFINE m == TriplesOf(w, E)
           met == {t \in m : <<t[1], t[2]>> = x}
           mids == {k \in Seconds(E, x[1]) : <<k, x[2]>> \in E}
<1>0. /\ IsFiniteSet(E) /\ \A e \in E : e = <<e[1], e[2]>>
      /\ \A t : t \in m <=> t \in Triples(E) /\ Home(LastJoiner, t) = w
  BY DEF EdgeSet, TriplesOf
<1> HIDE DEF m
<1>1. Threshold \in Nat \ {0}
  BY QueryAssumption
<1>2. /\ IsFiniteSet(Seconds(E, x[1])) /\ IsFiniteSet(Seconds(Turned(E), x[2]))
      /\ mids \subseteq Seconds(E, x[1])
  BY <1>0, PairsFinite
<1>3. IsFiniteSet(mids) /\ Cardinality(mids) \in Nat
      /\ Cardinality(mids) <= Cardinality(Seconds(E, x[1]))
  <2> HIDE DEF mids
  <2> QED
    BY <1>2, FS_Subset, FS_CardinalityType
<1>4. mids \subseteq Seconds(Turned(E), x[2])
  <2>1. ASSUME NEW k \in mids PROVE k \in Seconds(Turned(E), x[2])
    <3>1. Joined(E, k, x[2])
      <4>1. <<k, x[2]>> \in E /\ <<k, x[2]>>[1] = k /\ <<k, x[2]>>[2] = x[2]
        OBVIOUS
      <4> QED
        BY <4>1 DEF Joined
    <3> QED
      BY <3>1, FactsOfPairs
  <2> QED
    BY <2>1
<1>5. Cardinality(mids) <= Cardinality(Seconds(Turned(E), x[2]))
      /\ Cardinality(Seconds(E, x[1])) \in Nat /\ Cardinality(Seconds(Turned(E), x[2])) \in Nat
  <2> HIDE DEF mids
  <2> QED
    BY <1>2, <1>4, FS_Subset, FS_CardinalityType
<1>6. ASSUME NEW t \in m
      PROVE  /\ t = <<t[1], t[2], t[3]>>
             /\ Joined(E, t[1], t[3]) /\ Joined(Turned(E), t[2], t[3])
             /\ Shard(LastJoiner, <<t[1], t[2]>>) = w
  <2>1. /\ t = <<t[1], t[2], t[3]>>
        /\ <<"FANOUT", t[3], t[1]>> \in WideFans(E) /\ <<"FANIN", t[3], t[2]>> \in WideFans(E)
    BY <1>0, TriplesAre
  <2>2. Joined(AboveThreshold(E), t[1], t[3]) /\ Joined(AboveThreshold(Turned(E)), t[2], t[3])
    BY <2>1, FactsOfStages
  <2>3. Home(LastJoiner, t) = w
    BY <1>0
  <2> QED
    BY <2>1, <2>2, <2>3, FactsOfPairs DEF Home
<1>7. ASSUME NEW t \in met
      PROVE  x = <<x[1], x[2]>> /\ t = <<x[1], x[2], t[3]>> /\ t[3] \in mids
  <2>1. /\ x = <<t[1], t[2]>> /\ t = <<t[1], t[2], t[3]>>
        /\ Joined(E, t[1], t[3]) /\ Joined(Turned(E), t[2], t[3])
    BY <1>6
  <2>2. x[1] = t[1] /\ x[2] = t[2]
    BY <2>1
  <2>3. Joined(E, t[3], x[2]) /\ t[3] \in Seconds(E, x[1])
    BY <2>1, <2>2, FactsOfPairs
  <2>4. <<t[3], x[2]>> \in E
    BY <1>0, <2>3 DEF Joined
  <2> QED
    BY <2>1, <2>2, <2>3, <2>4
<1>8. IsFiniteSet(met) /\ Cardinality(met) \in Nat /\ Cardinality(met) <= Cardinality(mids)
  <2> DEFINE g == [k \in mids |-> <<x[1], x[2], k>>]
  <2>1. \A t \in met : \E k \in mids : t = g[k]
    BY <1>7
  <2> HIDE DEF g, met, mids
  <2> QED
    BY <1>3, <2>1, ImageFinite, FS_CardinalityType
<1>9. ASSUME x \in PairsOf(m), x[1] # x[2], Cardinality(met) >= Threshold
      PROVE  x \in ScatterGather(E) /\ Shard(LastJoiner, x) = w
  <2>1. PICK t \in m : x = <<t[1], t[2]>>
    BY <1>9 DEF PairsOf
  <2>2. Joined(E, x[1], t[3]) /\ Joined(Turned(E), x[2], t[3]) /\ Shard(LastJoiner, x) = w
    BY <1>6, <2>1
  <2>3. x[1] \in Firsts(E) /\ x[2] \in Firsts(Turned(E)) /\ x = <<x[1], x[2]>>
    BY <2>1, <2>2 DEF Joined, Firsts
  <2>4. Cardinality(mids) >= Threshold
    BY <1>1, <1>3, <1>8, <1>9
  <2>5. x \in Firsts(E) \X Firsts(Turned(E))
    BY <2>3
  <2> QED
    BY <1>9, <2>2, <2>4, <2>5 DEF ScatterGather
<1>10. ASSUME x \in ScatterGather(E), Shard(LastJoiner, x) = w
       PROVE  x \in PairsOf(m) /\ x[1] # x[2] /\ Cardinality(met) >= Threshold
  <2>1. /\ x \in Firsts(E) \X Firsts(Turned(E)) /\ x[1] # x[2]
        /\ Cardinality(mids) >= Threshold
    BY <1>10 DEF ScatterGather
  <2>2. x = <<x[1], x[2]>>
    BY <2>1
  <2>3. /\ Cardinality(Seconds(E, x[1])) >= Threshold
        /\ Cardinality(Seconds(Turned(E), x[2])) >= Threshold
    BY <1>1, <1>3, <1>5, <2>1
  <2>4. ASSUME NEW k \in mids PROVE <<x[1], x[2], k>> \in met
    <3>1. Joined(E, x[1], k) /\ Joined(Turned(E), x[2], k)
      BY <1>4, FactsOfPairs
    <3>2. Joined(AboveThreshold(E), x[1], k) /\ Joined(AboveThreshold(Turned(E)), x[2], k)
      BY <2>3, <3>1, FactsOfPairs
    <3>3. <<"FANOUT", k, x[1]>> \in WideFans(E) /\ <<"FANIN", k, x[2]>> \in WideFans(E)
      BY <3>2, FactsOfStages
    <3> DEFINE t == <<x[1], x[2], k>>
    <3>4. t[1] = x[1] /\ t[2] = x[2] /\ t[3] = k /\ t = <<t[1], t[2], t[3]>>
      OBVIOUS
    <3> HIDE DEF t
    <3>5. t \in Triples(E)
      BY <3>3, <3>4, TriplesAre
    <3>6. <<t[1], t[2]>> = x
      BY <2>2, <3>4
    <3>7. Home(LastJoiner, t) = w
      BY <1>10, <3>6 DEF Home
    <3>8. t \in met
      BY <1>0, <3>5, <3>6, <3>7
    <3> QED
      BY <3>8 DEF t
  <2>5. Cardinality(mids) <= Cardinality(met)
    <3> DEFINE g == [t \in met |-> t[3]]
    <3>1. \A k \in mids : g[<<x[1], x[2], k>>] = k
      BY <2>4
    <3>2. \A k \in mids : \E t \in met : k = g[t]
      BY <2>4, <3>1
    <3> HIDE DEF g, met, mids
    <3> QED
      BY <1>8, <3>2, ImageFinite
  <2>6. met # {}
    <3>1. Cardinality(met) >= Threshold
      BY <1>1, <1>3, <1>8, <2>1, <2>5
    <3> HIDE DEF met
    <3> QED
      BY <1>1, <3>1, FS_EmptySet
  <2>7. x \in PairsOf(m)
    BY <2>6 DEF PairsOf
  <2> HIDE DEF met, mids
  <2> QED
    BY <1>1, <1>3, <1>8, <2>1, <2>5, <2>7
<1>11. x \in Met(m) <=> x \in PairsOf(m) /\ x[1] # x[2] /\ Cardinality(met) >= Threshold
  BY DEF Met
<1> HIDE DEF met
<1> QED
  BY <1>9, <1>10, <1>11 DEF m

(* The edges of finitely many rows are finitely many pairs.                *)
LEMMA EdgesFinite ==
    ASSUME client \in Clients
    PROVE  EdgeSet(E4)
<1> DEFINE g == [r \in client.rows |-> EdgeOf(r)]
<1>1. IsFiniteSet(client.rows)
  BY QueryAssumption
<1>2. \A e \in E4 : \E r \in client.rows : e = g[r]
  BY DEF E4, Edges, Early, EdgeOf
<1>3. \A e \in E4 : \E r \in client.rows : e = EdgeOf(r)
  BY DEF E4, Edges, Early, EdgeOf
<1>4. \A e \in E4 : e = <<e[1], e[2]>>
  BY <1>3 DEF EdgeOf
<1> HIDE DEF g
<1> QED
  BY <1>1, <1>2, <1>4, ImageFinite DEF EdgeSet

(* The last joiner gives the pairs of its key, which it had not given.     *)
LEMMA SendScatterGatherTells ==
    ASSUME HashIsNatural, hasty = {}, client.query = 4, FlowInv, FactsInv,
           NEW w \in WorkersOf(LastJoiner), SendScatterGather(w)
    PROVE  /\ FactsInv' /\ w \notin closed[LastJoiner]
           /\ results' = results (+) SetToBag({x \in ScatterGather(E4) : Shard(LastJoiner, x) = w})
<1> DEFINE s == LastJoiner
           m == memory[s][w]
           pairs == Met(m)
           outs == {Out("gateway", AnyWorker, pair) : pair \in pairs}
           given == {x \in ScatterGather(E4) : Shard(s, x) \in closed[s]}
           new == {x \in ScatterGather(E4) : Shard(s, x) = w}
<1>1. PostProcess(s, w, {}, outs) /\ Decided(s) /\ w \notin closed[s]
  BY DEF SendScatterGather, Met, LastJoiner, PostProcess
<1>2. s \in Told /\ s \in Followed /\ s \notin Tellers /\ s \notin RowStages /\ s # Mapper
      /\ "gateway" \notin Told /\ "gateway" \notin RowStages
  BY ScatterStages, StageNames DEF RowStages
<1>3. StepOf(s, w, {}, {}, outs, {w})
  <2> HIDE DEF outs
  <2> QED
    BY <1>1, <1>2, PostProcessIsStep
<1>4. pairs = new
  <2>1. m = TriplesOf(w, E4)
    <3>1. Known(s, m) = m
      BY DEF Known
    <3>2. Whole(s, E4) = Triples(E4)
      BY FactsOfStages
    <3>3. \A t : t \in m <=> t \in Triples(E4) /\ Home(s, t) = w
      BY <1>1, <1>2, <3>1, <3>2, KnowsWhole
    <3> QED
      BY <3>3 DEF TriplesOf
  <2>2. EdgeSet(E4)
    BY EdgesFinite DEF FlowInv, KeyInv
  <2> HIDE DEF m
  <2>3. ASSUME NEW x PROVE x \in pairs <=> x \in new
    BY <2>1, <2>2, PairsThatMeet
  <2> QED
    BY <2>3
<1> HIDE DEF pairs
<1>5. \A o \in outs : o.stage = "gateway"
  BY DEF Out
<1>6. {o.msg : o \in {x \in outs : x.stage = "gateway" /\ x.to # Nobody}} = new
  <2>1. \A x : /\ Out("gateway", AnyWorker, x).msg = x
               /\ Out("gateway", AnyWorker, x).stage = "gateway"
               /\ Out("gateway", AnyWorker, x).to # Nobody
    BY DEF Out, AnyWorker, Nobody
  <2> HIDE DEF new
  <2> QED
    BY <1>4, <2>1
<1>7. results' = results (+) SetToBag(new)
  BY <1>3, <1>6 DEF StepOf, GiveResults
<1>8. PairsGiven'
  <2>1. E4' = E4 /\ closed'[s] = closed[s] \cup {w}
    BY <1>3 DEF E4, StepOf
  <2>2. results = SetToBag(given)
    BY DEF FactsInv, PairsGiven
  <2>3. given \cap new = {}
    BY <1>1
  <2>4. given \cup new = {x \in ScatterGather(E4) : Shard(s, x) \in closed'[s]}
    BY <2>1
  <2> HIDE DEF given, new
  <2>5. results' = SetToBag(given \cup new)
    BY <1>7, <2>2, <2>3, RowsAdded
  <2> QED
    BY <2>1, <2>4, <2>5 DEF PairsGiven
<1>9. Keeps(s, w, {}, {}, {w}) /\ Known(s, {}) \subseteq Whole(s, E4)
  BY DEF Keeps, Known
<1>10. RowsTold(outs)
  BY <1>2, <1>5 DEF RowsTold
<1> HIDE DEF outs
<1>11. TruthStep(s, w, {}, {}, outs, {w})
  BY <1>2, <1>3, <1>5, <1>9, <1>10 DEF TruthStep
<1> QED
  BY <1>1, <1>2, <1>7, <1>8, <1>11, FactsStay

-----------------------------------------------------------------------------
(* In the beginning the rows wait for the date filter, and nothing is told.*)
LEMMA InitFacts == HashIsNatural /\ client.query = 4 /\ Init => FactsInv
<1> SUFFICES ASSUME HashIsNatural, client.query = 4, Init PROVE FactsInv
  OBVIOUS
<1>1. /\ \A s \in Followed : s # "date_filter" => inbox[s] = {}
      /\ "date_filter" \in Followed
      /\ inbox["date_filter"] =
           {[from |-> "gateway", by |-> 0, to |-> AnyWorker, msg |-> r] : r \in client.rows}
      /\ \A s \in Followed : closed[s] = {} /\ \A w \in WorkersOf(s) : memory[s][w] = Empty(s)
  BY BranchTable DEF Init
<1>2. /\ \A s \in RowStages \cup Told : s \in Followed
      /\ \A s \in Told : s # "date_filter"
      /\ Mapper \in Followed
  BY ScatterStages DEF RowStages
<1>3. RowsSound
  <2>1. \A p \in inbox["date_filter"] : p.msg \in client.rows
    BY <1>1
  <2>2. \A s \in RowStages \ {"date_filter"} : inbox[s] = {}
    BY <1>1, <1>2
  <2>3. MayCome("date_filter", client.rows) = client.rows
    BY DEF MayCome, Mapper
  <2> QED
    BY <2>1, <2>2, <2>3 DEF RowsSound
<1>4. RowsComplete
  <2>1. ASSUME NEW r \in Wanted(client.rows)
        PROVE  \E p \in inbox["date_filter"] : p.msg = r
    <3>1. r \in client.rows
      BY DEF Wanted, Early
    <3>2. [from |-> "gateway", by |-> 0, to |-> AnyWorker, msg |-> r] \in inbox["date_filter"]
      BY <1>1, <3>1
    <3> QED
      BY <3>2
  <2> QED
    BY <2>1 DEF RowsComplete, RowStages
<1>5. MapperHolds
  <2>1. Empty(Mapper) = {}
    BY DEF Empty, Mapper
  <2> QED
    BY <1>1, <1>2, <2>1 DEF MapperHolds
<1>6. ASSUME NEW s \in Told PROVE Sound(s)
  <2>1. Known(s, Empty(s)) = {}
    <3>1. CASE s = LastJoiner
      BY <3>1 DEF Known, Empty, LastJoiner
    <3>2. CASE s # LastJoiner
      <4>1. Empty(s) = [fanout |-> {}, fanin |-> {}]
        BY <3>2 DEF Empty, Told, Aggregator, PairJoiner, LastJoiner
      <4> QED
        BY <3>2, <4>1 DEF Known, Facts
    <3> QED
      BY <3>1, <3>2
  <2> QED
    BY <1>1, <1>2, <2>1 DEF Sound
<1>7. TellersComplete
  BY <1>1, <1>2, ScatterStages DEF TellersComplete
<1>8. PairsGiven
  <2>1. closed[LastJoiner] = {}
    BY <1>1, <1>2 DEF Told
  <2>2. {x \in ScatterGather(E4) : Shard(LastJoiner, x) \in closed[LastJoiner]} = {}
    BY <2>1
  <2> QED
    BY <2>2 DEF PairsGiven, Init, EmptyBag
<1> QED
  BY <1>3, <1>4, <1>5, <1>6, <1>7, <1>8 DEF FactsInv

(* No step changes what was told but those of the stages.                  *)
LEMMA FactsFrame ==
    ASSUME FactsInv, UNCHANGED <<client, inbox, memory, closed, results>>
    PROVE  FactsInv'
BY DEF FactsInv, RowsSound, RowsComplete, MapperHolds, Sound, TellersComplete, PairsGiven,
       Mapped, Arrived, E4

\* A step that gives the pairs of a worker of the last joiner, or no row.
GivesPairs ==
    \/ results' = results
    \/ \E w \in WorkersOf(LastJoiner) \ closed[LastJoiner] :
          results' = results (+) SetToBag({x \in ScatterGather(E4) : Shard(LastJoiner, x) = w})

(* Every step of query 4 keeps what is told right and whole.               *)
LEMMA NextFacts ==
    ASSUME HashIsNatural, hasty = {}, hasty' = {}, client.query = 4, FlowInv, FactsInv, [Next]_vars
    PROVE  FactsInv' /\ GivesPairs /\ client' = client
<1>1. client' = client
  BY ClosingSteps
<1>0. results' = results => GivesPairs
  BY DEF GivesPairs
<1>2. CASE \E p \in inbox["date_filter"] : FilterDate(p)
  BY <1>0, <1>1, <1>2, FilterDateTells
<1>3. CASE \E s \in Followed : Announce(s)
  <2>1. UNCHANGED <<client, inbox, memory, closed, results>>
    BY <1>3 DEF Announce, SendEofs
  <2> QED
    BY <1>0, <1>1, <2>1, FactsFrame
<1>4. CASE NextQ4
  <2>1. CASE \E p \in inbox["usd_filter_q4"] : FilterUsdQ4(p)
    BY <1>0, <1>1, <2>1, FilterUsdQ4Tells
  <2>2. ASSUME NEW w \in WorkersOf(Mapper), SendFans(w) \/ \E p \in inbox[Mapper] : MapEdge(w, p)
        PROVE  FactsInv' /\ GivesPairs
    BY <1>0, <2>2, SendFansTells, MapEdgeTells
  <2>3. ASSUME NEW w \in WorkersOf(Aggregator),
               SendMiddles(w) \/ \E p \in inbox[Aggregator] : Aggregate(w, p)
        PROVE  FactsInv' /\ GivesPairs
    BY <1>0, <2>3, SendMiddlesTells, AggregateTells
  <2>4. ASSUME NEW w \in WorkersOf(PairJoiner),
               SendPairs(w) \/ \E p \in inbox[PairJoiner] : JoinMiddle(w, p)
        PROVE  FactsInv' /\ GivesPairs
    BY <1>0, <2>4, SendPairsTells, JoinMiddleTells
  <2>5. ASSUME NEW w \in WorkersOf(LastJoiner),
               SendScatterGather(w) \/ \E p \in inbox[LastJoiner] : JoinPair(w, p)
        PROVE  FactsInv' /\ GivesPairs
    BY <1>0, <2>5, SendScatterGatherTells, JoinPairTells DEF GivesPairs
  <2>6. \/ \E p \in inbox["usd_filter_q4"] : FilterUsdQ4(p)
        \/ \E w \in WorkersOf(Mapper) : SendFans(w) \/ \E p \in inbox[Mapper] : MapEdge(w, p)
        \/ \E w \in WorkersOf(Aggregator) :
              SendMiddles(w) \/ \E p \in inbox[Aggregator] : Aggregate(w, p)
        \/ \E w \in WorkersOf(PairJoiner) :
              SendPairs(w) \/ \E p \in inbox[PairJoiner] : JoinMiddle(w, p)
        \/ \E w \in WorkersOf(LastJoiner) :
              SendScatterGather(w) \/ \E p \in inbox[LastJoiner] : JoinPair(w, p)
    BY <1>4 DEF NextQ4, Mapper, Aggregator, PairJoiner, LastJoiner
  <2> QED
    BY <1>1, <2>1, <2>2, <2>3, <2>4, <2>5, <2>6
<1>5. CASE UNCHANGED vars
  <2>1. UNCHANGED <<client, inbox, memory, closed, results>>
    BY <1>5 DEF vars
  <2> QED
    BY <1>0, <1>1, <2>1, FactsFrame
<1>6. \A s : ~BeginHastily(s)
  BY DEF BeginHastily
<1> QED
  BY <1>1, <1>2, <1>3, <1>4, <1>5, <1>6 DEF Next, Work, Shared, NextQ3, NextQ5

-----------------------------------------------------------------------------
(* What is right for a client of query 4, and when it has ended.           *)
LEMMA RightOfQuery4 ==
    ASSUME client \in Clients, client.query = 4
    PROVE  Right[client] = ScatterGather(E4) /\ (Ended <=> LastJoiner \in announced)
<1>1. Right[client] = ScatterGather(E4)
  BY DEF Right, E4
<1>2. LastStage[4] = LastJoiner
  BY DEF LastStage, LastJoiner
<1> QED
  BY <1>1, <1>2 DEF Ended

(* The EOF of a stage leaves in a step that gives no row of query 4.       *)
LEMMA AnnounceOrGive ==
    ASSUME client.query = 4, [Next]_vars
    PROVE  \/ announced' = announced
           \/ closed' = closed /\ results' = results /\ announced \subseteq announced'
<1>1. \A s, w, p, learned, outs : Handle(s, w, p, learned, outs) => announced' = announced
  BY DEF Handle, closing
<1>2. \A s, w, left, outs : PostProcess(s, w, left, outs) => announced' = announced
  BY DEF PostProcess
<1>3. CASE Shared
  BY <1>1, <1>3 DEF Shared, FilterDate, Pass, Announce, SendEofs
<1>4. CASE NextQ4
  BY <1>1, <1>2, <1>4 DEF NextQ4, FilterUsdQ4, Pass, SendFans, MapEdge, SendMiddles, Aggregate,
     SendPairs, JoinMiddle, SendScatterGather, JoinPair
<1>5. CASE UNCHANGED vars
  BY <1>5 DEF vars
<1>6. \A s : BeginHastily(s) => announced' = announced
  BY DEF BeginHastily
<1> QED
  BY <1>3, <1>4, <1>5, <1>6 DEF Next, Work, NextQ3, NextQ5

(* What bags are made of, in the abstract specification and here.          *)
LEMMA BagsOfAnswers ==
    /\ \A S : Answers!SetToBag(S) = SetToBag(S)
    /\ \A b, c : Answers!(+)(b, c) = b (+) c
    /\ \A x, b : Answers!BagIn(x, b) <=> BagIn(x, b)
    /\ \A x, S : BagIn(x, SetToBag(S)) <=> x \in S
    /\ Answers!EmptyBag = SetToBag({})
<1>1. \A S : Answers!SetToBag(S) = SetToBag(S)
  BY DEF Answers!SetToBag, SetToBag
<1>2. \A b, c : Answers!(+)(b, c) = b (+) c
  BY DEF Answers!(+), (+)
<1>3. \A x, b : Answers!BagIn(x, b) <=> BagIn(x, b)
  BY DEF Answers!BagIn, Answers!BagToSet, BagIn, BagToSet
<1>4. \A x, S : BagIn(x, SetToBag(S)) <=> x \in S
  BY DEF BagIn, BagToSet, SetToBag
<1>5. Answers!EmptyBag = SetToBag({})
  BY <1>1 DEF Answers!EmptyBag
<1> QED
  BY <1>1, <1>2, <1>3, <1>4, <1>5

(* Every step gives rows that were missing, or ends with none missing.     *)
LEMMA NextAnswersPairs ==
    ASSUME HashIsNatural, client.query = 4, FlowInv, FactsInv, [Next]_vars,
           FlowInv', FactsInv', GivesPairs, client' = client, hasty = {}, hasty' = {}
    PROVE  [Answers!Next]_(Answers!vars)
<1> DEFINE SG == ScatterGather(E4)
           given == {x \in SG : Shard(LastJoiner, x) \in closed[LastJoiner]}
<1>1. client \in Clients /\ LastJoiner \in Followed /\ LastJoiner \in Callback /\ LastJoiner \in Told
  BY ScatterStages DEF FlowInv, KeyInv
<1>2. /\ Right[client] = SG /\ Right[client]' = Right[client]
      /\ Ended <=> LastJoiner \in announced
      /\ Ended' <=> LastJoiner \in announced'
      /\ Ended \in BOOLEAN /\ Ended' \in BOOLEAN
  <2>1. LastStage[4] = LastJoiner
    BY DEF LastStage, LastJoiner
  <2> QED
    BY <1>1, <2>1, RightOfQuery4 DEF Ended
<1>3. results = SetToBag(given)
  BY DEF FactsInv, PairsGiven
<1>4. Answers!Missing = SG \ given
  BY <1>2, <1>3, BagsOfAnswers DEF Answers!Missing
<1>5. ASSUME LastJoiner \in announced
      PROVE  closed[LastJoiner] = WorkersOf(LastJoiner)
  BY <1>1, <1>5 DEF FlowInv, CallbackInv
<1>6. ASSUME LastJoiner \in announced'
      PROVE  closed'[LastJoiner] = WorkersOf(LastJoiner)
  <2>1. Followed' = Followed
    BY DEF Followed
  <2> QED
    BY <1>1, <1>6 DEF FlowInv, CallbackInv
<1>7. CASE results' # results
  <2>1. PICK w \in WorkersOf(LastJoiner) \ closed[LastJoiner] :
             results' = results (+) SetToBag({x \in SG : Shard(LastJoiner, x) = w})
    BY <1>7 DEF GivesPairs
  <2>2. announced' = announced
    BY <1>7, AnnounceOrGive
  <2>3. ~Ended /\ Ended' = Ended
    BY <1>2, <1>5, <2>1, <2>2
  <2>4. {x \in SG : Shard(LastJoiner, x) = w} \in SUBSET Answers!Missing
    BY <1>4, <2>1
  <2>5. results' = Answers!(+)(results, Answers!SetToBag({x \in SG : Shard(LastJoiner, x) = w}))
    BY <2>1, BagsOfAnswers
  <2>6. Answers!Answer
    BY <1>2, <2>3, <2>4, <2>5 DEF Answers!Answer
  <2> QED
    BY <2>6 DEF Answers!Next
<1>8. CASE results' = results /\ Ended' = Ended
  BY <1>2, <1>8 DEF Answers!vars
<1>9. CASE results' = results /\ Ended' # Ended
  <2>1. announced' # announced
    BY <1>2, <1>9
  <2>2. closed' = closed
    BY <2>1, AnnounceOrGive
  <2>3. SG = given
    <3>1. \A x \in SG : Shard(LastJoiner, x) \in WorkersOf(LastJoiner)
      BY <1>1, HomeIsWorker
    <3>2. LastJoiner \in announced \/ LastJoiner \in announced'
      BY <1>2, <1>9
    <3>3. closed[LastJoiner] = WorkersOf(LastJoiner)
      BY <1>5, <1>6, <2>2, <3>2
    <3> QED
      BY <3>1, <3>3
  <2>4. ~Ended /\ Ended' = TRUE
    BY <1>2, <1>9, AnnounceOrGive
  <2>5. Answers!Missing = {}
    BY <1>4, <2>3
  <2>6. results' = Answers!(+)(results, Answers!SetToBag(Answers!Missing))
    BY <1>3, <1>9, <2>5, BagsOfAnswers, RowsAdded
  <2>7. Answers!End
    BY <1>2, <2>4, <2>6 DEF Answers!End
  <2> QED
    BY <2>7 DEF Answers!Next
<1> QED
  BY <1>7, <1>8, <1>9

\* The inductive invariant of query 4.
PairsInv ==
    /\ client \in Clients
    /\ client.query = 4
    /\ hasty = {} => FlowInv /\ FactsInv

(* A client of query 4 is given the pairs of accounts that are right for   *)
(* what it sent, once each and no other, and the end when none is missing: *)
(* QueryAnswers without its fairness, whatever the rows, the workers and   *)
(* the hash, as long as no stage is hasty, which NeverHasty excludes when  *)
(* each has several workers (scather_gather_joiner main.py,                *)
(* EOF_controller.py).                                                     *)
THEOREM ScatterGatherIsRight ==
    HashIsNatural /\ client.query = 4 /\ Spec => Answers!Spec
<1> SUFFICES ASSUME HashIsNatural
             PROVE  client.query = 4 /\ Spec => Answers!Spec
  OBVIOUS
<1>1. client.query = 4 /\ Init => PairsInv /\ Answers!Init
  <2> SUFFICES ASSUME client.query = 4, Init
               PROVE  PairsInv /\ Answers!Init
    OBVIOUS
  <2>1. PairsInv
    BY InitFlows, InitFacts DEF PairsInv, Init
  <2>2. results = Answers!EmptyBag
    BY BagsOfAnswers DEF Init, EmptyBag
  <2>3. Ended = FALSE
    BY DEF Init, Ended
  <2>4. hasty = {}
    BY DEF Init
  <2> QED
    BY <2>1, <2>2, <2>3, <2>4 DEF Answers!Init
<1>2. PairsInv /\ [Next]_vars => PairsInv' /\ [Answers!Next]_(Answers!vars)
  <2> SUFFICES ASSUME PairsInv, [Next]_vars
               PROVE  PairsInv' /\ [Answers!Next]_(Answers!vars)
    OBVIOUS
  <2>1. client' = client /\ hasty \subseteq hasty'
    BY HastyStays
  <2>2. CASE hasty' = {}
    <3>1. hasty = {}
      BY <2>1, <2>2
    <3>2. FlowInv' /\ FactsInv' /\ GivesPairs
      BY <2>2, <3>1, NextFlows, NextFacts DEF PairsInv
    <3> QED
      BY <2>1, <2>2, <3>1, <3>2, NextAnswersPairs DEF PairsInv
  <2>3. CASE hasty' # {}
    <3>1. Right[client]' = Right[client]
      BY <2>1 DEF Right
    <3>2. Answers!Hurry
      BY <2>3, <3>1 DEF Answers!Hurry
    <3> QED
      BY <2>1, <2>3, <3>2 DEF PairsInv, Answers!Next
  <2> QED
    BY <2>2, <2>3
<1> QED
  BY <1>1, <1>2, PTL DEF Spec, Answers!Spec
=============================================================================
