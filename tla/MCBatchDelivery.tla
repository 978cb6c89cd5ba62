-------------------------- MODULE MCBatchDelivery --------------------------
EXTENDS BatchDelivery, TLC

CONSTANTS w1, w2, b1, b2, uuid

\* Two types with the same number, an average's uuid, a message without id;
\* b2 repeats a message of b1.
x == [type |-> 1, id |-> 7]
y == [type |-> 2, id |-> 7]
z == [type |-> 3, id |-> uuid]
n == [type |-> 4, id |-> NoId]

\* Every record can be read, or the one without id cannot.
MCUnreadable == {{}, {n}}

MCMessages == {x, y, z, n}
MCBody == b1 :> <<x, y>> @@ b2 :> <<z, n, x>>
=============================================================================
