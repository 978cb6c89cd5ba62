-------------------------- MODULE MCConsensusAlone --------------------------
(***************************************************************************)
(* A stage of one worker with two input threads, as amount_filter_q3 is in *)
(* the first deployment; and average_per_pay_format_joiner in both, with   *)
(* one input thread.                                                       *)
(***************************************************************************)
EXTENDS EOFConsensus

MCTotal == [f \in Fluxes |-> 2]
=============================================================================
