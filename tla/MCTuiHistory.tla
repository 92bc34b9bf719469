---------------------------- MODULE MCTuiHistory ----------------------------
EXTENDS TuiHistory

\* A chat of four messages and one of a single message.
MCFirstLast == [c \in Chats |-> IF c = 1 THEN 4 ELSE 1]
=============================================================================
