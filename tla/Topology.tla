------------------------------ MODULE Topology ------------------------------
(***************************************************************************)
(* The stages of the pipeline as the deployment generator wires them: the  *)
(* prefixes whose packets and EOFs a stage expects, how many EOFs it waits *)
(* for, which input every worker receives whole, and the prefixes under    *)
(* which it counts what it sends.                                          *)
(***************************************************************************)
EXTENDS Naturals, FiniteSets

CONSTANT Amount         \* how many workers each stage has

Config(inputs, eofs, outputs) ==
    [inputs |-> inputs, eofs |-> eofs, auxiliary |-> {}, outputs |-> outputs]

\* Queries 1 and 2.
UsdFilterQ1Q2Config ==
    Config({"gateway"}, 1, {"amount_filter_q1", "data_per_bank_redirector"})

AmountFilterQ1Config == Config({"usd_filter_q1q2"}, 1, {"gateway"})

RedirectorConfig == Config({"usd_filter_q1q2"}, 1, {"map_max_amount_per_bank"})

BankFilterConfig == Config({"gateway"}, 1, {"join_max_amount_per_bank"})

MapMaxConfig == Config({"data_per_bank_redirector"}, 1, {"join_max_amount_per_bank"})

JoinMaxConfig == Config({"bank_filter", "map_max_amount_per_bank"}, 2, {"gateway"})

\* Queries 3, 4 and 5.
DateFilterConfig ==
    Config({"gateway"}, 1, {"usd_filter_q3", "usd_filter_q4", "pay_format_filter"})

UsdFilterQ3Config == Config({"date_filter"}, 1, {"amount_filter_q3"})

UsdFilterQ4Config ==
    Config({"date_filter"}, 1, {"scather_gather_mapper", "average_per_pay_format_mapper"})

PayFormatFilterConfig ==
    Config({"date_filter"}, 1, {"amount_filter_q5", "currency_converter"})

AverageMapperConfig == Config({"usd_filter_q4"}, 1, {"average_per_pay_format_joiner"})

AverageJoinerConfig ==
    Config({"average_per_pay_format_mapper"}, 1, {"amount_filter_q3"})

AmountFilterQ3Config ==
    [inputs |-> {"usd_filter_q3", "average_per_pay_format_joiner"}, eofs |-> 2,
     auxiliary |-> {"average_per_pay_format_joiner"}, outputs |-> {"gateway"}]

CurrencyConverterConfig == Config({"pay_format_filter"}, 1, {"amount_filter_q5"})

AmountFilterQ5Config ==
    Config({"pay_format_filter", "currency_converter"}, 2, {"gateway"})

MapperConfig == Config({"usd_filter_q4"}, 1, {"scather_gather_aggregator"})

AggregatorConfig == Config({"scather_gather_mapper"}, 1, {"scather_gather_pair_joiner"})

PairJoinerConfig == Config({"scather_gather_aggregator"}, 1, {"scather_gather_joiner"})

JoinerConfig == Config({"scather_gather_pair_joiner"}, 1, {"gateway"})

Deployment ==
    [usd_filter_q1q2               |-> UsdFilterQ1Q2Config,
     amount_filter_q1              |-> AmountFilterQ1Config,
     data_per_bank_redirector      |-> RedirectorConfig,
     bank_filter                   |-> BankFilterConfig,
     map_max_amount_per_bank       |-> MapMaxConfig,
     join_max_amount_per_bank      |-> JoinMaxConfig,
     date_filter                   |-> DateFilterConfig,
     usd_filter_q3                 |-> UsdFilterQ3Config,
     usd_filter_q4                 |-> UsdFilterQ4Config,
     pay_format_filter             |-> PayFormatFilterConfig,
     average_per_pay_format_mapper |-> AverageMapperConfig,
     average_per_pay_format_joiner |-> AverageJoinerConfig,
     amount_filter_q3              |-> AmountFilterQ3Config,
     currency_converter            |-> CurrencyConverterConfig,
     amount_filter_q5              |-> AmountFilterQ5Config,
     scather_gather_mapper         |-> MapperConfig,
     scather_gather_aggregator     |-> AggregatorConfig,
     scather_gather_pair_joiner    |-> PairJoinerConfig,
     scather_gather_joiner         |-> JoinerConfig]

Stages == DOMAIN Deployment

\* One joiner of averages in every deployment: its averages are whole.
ASSUME DeploymentAssumption ==
    /\ Amount \in [Stages -> Nat \ {0}]
    /\ Amount["average_per_pay_format_joiner"] = 1

Inputs(s)    == Deployment[s].inputs
Outputs(s)   == Deployment[s].outputs
Auxiliary(s) == Deployment[s].auxiliary
WorkersOf(s) == 0 .. Amount[s] - 1

\* The stages whose answers a client waits for.
Last == {s \in Stages : "gateway" \in Outputs(s)}

\* A stage waits for one EOF of each input, and a client, whose
\* EXPECTED_RESULT_EOFS are 5, for one of each query.
ASSUME EofAssumption ==
    /\ \A s \in Stages : Deployment[s].eofs = Cardinality(Inputs(s))
    /\ Cardinality(Last) = 5
=============================================================================
