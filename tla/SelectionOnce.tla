--------------------------- MODULE SelectionOnce ---------------------------
(***************************************************************************)
(* What the outbound send service promises about a translated draft: an    *)
(* offer is tried by one send at a time, what reaches Telegram under an    *)
(* offer is one of its variants, to its dialog, for its owner, at most     *)
(* once per attempt, and an offer whose send is known to have succeeded is *)
(* never tried again.                                                      *)
(***************************************************************************)
EXTENDS Naturals, Sequences

CONSTANT Offers   \* records [dialog, owner, variants]

VARIABLES
    offers,       \* the offers made, in order; an offer's number is its token
    trying,       \* the offers a send is trying now
    reached,      \* those whose current attempt has reached Telegram
    settled,      \* the offers known to have been sent
    delivered     \* every [token, dialog, owner, text] that reached Telegram

vars == <<offers, trying, reached, settled, delivered>>

Init ==
    /\ offers = <<>>
    /\ trying = {} /\ reached = {} /\ settled = {} /\ delivered = {}

Offer ==
    /\ \E o \in Offers : offers' = Append(offers, o)
    /\ UNCHANGED <<trying, reached, settled, delivered>>

Try(t) ==
    /\ t \notin trying \union settled
    /\ trying' = trying \union {t}
    /\ UNCHANGED <<offers, reached, settled, delivered>>

Reach(t) ==
    /\ t \in trying \ reached
    /\ \E text \in offers[t].variants :
          delivered' = delivered \union {[token |-> t, dialog |-> offers[t].dialog,
                                          owner |-> offers[t].owner, text |-> text]}
    /\ reached' = reached \union {t}
    /\ UNCHANGED <<offers, trying, settled>>

Settle(t) ==
    /\ t \in reached
    /\ settled' = settled \union {t}
    /\ trying' = trying \ {t}
    /\ reached' = reached \ {t}
    /\ UNCHANGED <<offers, delivered>>

\* The attempt ends with nobody knowing whether it reached Telegram.
Abandon(t) ==
    /\ t \in trying
    /\ trying' = trying \ {t}
    /\ reached' = reached \ {t}
    /\ UNCHANGED <<offers, settled, delivered>>

Next ==
    \/ Offer
    \/ \E t \in DOMAIN offers : Try(t) \/ Reach(t) \/ Settle(t) \/ Abandon(t)

Spec == Init /\ [][Next]_vars
=============================================================================
