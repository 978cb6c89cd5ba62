------------------------- MODULE MCConsensusShared --------------------------
(***************************************************************************)
(* A stage of three workers that compete for one flux, whose EOF reaches   *)
(* one of them (date_filter, usd_filter, pay_format_filter and the other   *)
(* stages of the scatter-gather branch).                                   *)
(***************************************************************************)
EXTENDS EOFConsensus

MCTotal == [f \in Fluxes |-> 2]
=============================================================================
