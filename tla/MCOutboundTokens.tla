-------------------------- MODULE MCOutboundTokens --------------------------
EXTENDS OutboundTokens, TLC

CONSTANTS d1, d2, o1, o2, v1, v2, c1, c2

\* Two browsers translating for the same dialog, one of them for two dialogs.
MCOffers == {[dialog |-> d1, owner |-> o1, variants |-> {v1, v2}],
             [dialog |-> d1, owner |-> o2, variants |-> {v1}],
             [dialog |-> d2, owner |-> o1, variants |-> {v2}]}
MCCallers == {c1, c2}
Symmetric == Permutations(MCCallers)
=============================================================================
