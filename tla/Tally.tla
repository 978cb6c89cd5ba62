------------------------------- MODULE Tally --------------------------------
(***************************************************************************)
(* Sums of counters.  The controllers compare and forward sums of per      *)
(* worker counters (Python's sum() over dict values).  The sum of the      *)
(* values of g is written as the size of the set that holds, for every     *)
(* index x, one element per unit of g[x].  Written this way it needs no    *)
(* recursion, so the same definition serves TLC and the proofs.  A value   *)
(* that is not positive contributes nothing.                               *)
(***************************************************************************)
EXTENDS Integers, FiniteSets

Units(g) == UNION {{x} \X (1 .. g[x]) : x \in DOMAIN g}

Tally(g) == Cardinality(Units(g))
=============================================================================
