--------------------------- MODULE MCRecoveryNode ---------------------------
EXTENDS RecoveryNode, TLC

\* Two ordinary containers, both of node 0 of 2, and the other recovery node,
\* which the ring leaves to nobody.
Ordinary == {"date_filter_0", "gateway"}
MCContainers == Ordinary \cup {"recovery_node_1"}
MCRecoveryId == "recovery_node_1" :> 1
AllToZero == [c \in Ordinary |-> 0]
=============================================================================
