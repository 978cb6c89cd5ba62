---------------------------- MODULE BankAnswers -----------------------------
(***************************************************************************)
(* What query 2 promises a client: one row for each bank that has a right   *)
(* answer, in any order, and no other row.  A hasty end of its last stage   *)
(* may leave rows out; it gives no row that is wrong or repeated.           *)
(***************************************************************************)
EXTENDS Naturals, Sequences

CONSTANTS Banks,
          Right       \* the rows that are right for each bank, if any

VARIABLES answers,    \* the rows given for each bank
          hasty       \* the last stage has begun to end too early

vars == <<answers, hasty>>

Init == /\ answers = [b \in Banks |-> <<>>]
        /\ hasty = FALSE

Answer(b) ==
    /\ answers[b] = <<>>
    /\ \E row \in Right[b] : answers' = [answers EXCEPT ![b] = <<row>>]
    /\ UNCHANGED hasty

Hurry ==
    /\ ~hasty
    /\ hasty' = TRUE
    /\ UNCHANGED answers

Next == Hurry \/ \E b \in Banks : Answer(b)

Spec == Init /\ [][Next]_vars

\* Every bank with a right answer gets one, while nothing is hasty.
FairSpec == Spec /\ \A b \in Banks : WF_vars(~hasty /\ Answer(b))
=============================================================================
