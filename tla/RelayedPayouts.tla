--------------------------- MODULE RelayedPayouts ---------------------------
(* What the relayer owes the bridge on the other chain: a payout is sent for *)
(* deposits that are final and genuine only, is made at most once, and is    *)
(* never sent again when its deposit counts as handled; and no deposit       *)
(* counts as handled before a payout was sent for it.                        *)
CONSTANT Event

VARIABLES
    final,     \* genuine deposits that can no longer be undone
    sent,      \* payouts under way
    paid,      \* payouts made
    tried,     \* deposits a payout was ever sent for
    handled    \* deposits that will not be looked at again

payoutVars == <<final, sent, paid, tried, handled>>

RelayInit == final = {} /\ sent = {} /\ paid = {} /\ tried = {} /\ handled = {}

(* Deposits become final, and stay so.                                       *)
Finalise == final \subseteq final' /\ UNCHANGED <<sent, paid, tried, handled>>

(* A payout may be sent again when nothing is known of the first.            *)
SendPayout(e) ==
    /\ e \in final
    /\ e \notin paid \cup handled
    /\ sent' = sent \cup {e} /\ tried' = tried \cup {e}
    /\ UNCHANGED <<final, paid, handled>>

Pay(e) ==
    /\ e \in sent
    /\ sent' = sent \ {e} /\ paid' = paid \cup {e}
    /\ UNCHANGED <<final, tried, handled>>

Drop(e) == e \in sent /\ sent' = sent \ {e} /\ UNCHANGED <<final, paid, tried, handled>>

Handle(e) ==
    /\ e \in tried
    /\ handled' = handled \cup {e}
    /\ UNCHANGED <<final, sent, paid, tried>>

RelayNext ==
    \/ Finalise
    \/ \E e \in Event : SendPayout(e) \/ Pay(e) \/ Drop(e) \/ Handle(e)

RelaySpec == RelayInit /\ [][RelayNext]_payoutVars
=============================================================================
