--------------------------- MODULE MCMessageStore ---------------------------
EXTENDS MessageStore, TLC

CONSTANTS r1, r2

Threads == [p \in Peers |-> 3]
Pairs == [p \in Peers |-> 2]
Symmetric == Permutations(Readers)
=============================================================================
