--------------------------- MODULE MCConsensusQ3 ----------------------------
(***************************************************************************)
(* amount_filter_q3: two workers compete for the transactions of           *)
(* usd_filter_q3, and each receives every average, and the EOF, that       *)
(* average_per_pay_format_joiner publishes on an exchange.                 *)
(***************************************************************************)
EXTENDS EOFConsensus

Usd     == "usd_filter_q3"
Average == "average_per_pay_format_joiner"

MCFluxes == {Usd, Average}
MCAux    == {Average}
MCTotal  == [f \in MCFluxes |-> 1]
=============================================================================
