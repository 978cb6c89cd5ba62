-------------------------- MODULE MCProcessedRanges --------------------------
(* The ids 0..6 in any order, alone or as ranges, and the question asked of each
   of them and of a neighbour at each end.  Seven ids leave room for four ranges
   with gaps between them, which a new one may precede, follow, join or swallow. *)
EXTENDS ProcessedRanges

MCIds == 0..6

MCProbes == -1..7
=============================================================================
