---------------------------- MODULE QueryAnswers ----------------------------
(***************************************************************************)
(* What a query promises a client: every row that is right, once each, in  *)
(* any order, no other row, and then the end.  When a stage on the way is  *)
(* hasty, rows may be missing or wrong from then on, and the end too.      *)
(***************************************************************************)
EXTENDS Bags

VARIABLES right,   \* the rows that are right for what the client sent
          rows,    \* the bag of rows given so far
          ended,
          hasty

vars == <<right, rows, ended, hasty>>

Missing == {r \in right : ~ BagIn(r, rows)}

Init == rows = EmptyBag /\ ended = FALSE /\ hasty = FALSE

Answer ==
    /\ ~ended /\ ~hasty
    /\ \E new \in SUBSET Missing :
          rows' = rows (+) SetToBag(new)
    /\ UNCHANGED <<right, ended, hasty>>

\* The last rows may come with the end.
End ==
    /\ ~ended /\ ~hasty
    /\ rows' = rows (+) SetToBag(Missing)
    /\ ended' = TRUE
    /\ UNCHANGED <<right, hasty>>

Hurry == hasty' = TRUE /\ UNCHANGED right

Next == Answer \/ End \/ Hurry

Spec == Init /\ [][Next]_vars

FairSpec == Spec /\ WF_vars(End)
=============================================================================
