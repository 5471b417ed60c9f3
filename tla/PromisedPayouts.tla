--------------------------- MODULE PromisedPayouts --------------------------
(* What a recorded promise of a payout is worth to the two parties it names: *)
(* its terms never change, it is kept at most once, when it is due, in full  *)
(* but for a capped fee, out of nobody's pocket but the payer's; and only a  *)
(* promise with a closing time can be withdrawn, before it is kept.          *)
EXTENDS Integers, Sequences

CONSTANTS
    Party,                  \* the accounts that may gain or lose
    Asset,
    MaxRate, Denominator,   \* the largest fee, as a fraction
    None                    \* no closing time; a promise that was withdrawn

VARIABLES
    clock,      \* [timestamp, sequence]
    promises,   \* a sequence of terms, or None
    kept,       \* the promises kept, by number
    balance     \* of each party, in each asset

promiseVars == <<clock, promises, kept, balance>>

(* Terms: who pays whom how much of which asset, from which time and ledger  *)
(* on, until when.                                                           *)
PromiseInit == promises = <<>> /\ kept = {}

Due(p) ==
    /\ clock.timestamp >= p.opens
    /\ clock.sequence >= p.since
    /\ p.closes # None => clock.timestamp <= p.closes

(* A promise of something that is still to come.                             *)
Make ==
    /\ Len(promises') = Len(promises) + 1
    /\ LET p == promises'[Len(promises')]
       IN  /\ promises' = Append(promises, p)
           /\ clock.timestamp < p.opens \/ clock.sequence <= p.since
           /\ p.closes # None => clock.timestamp < p.closes
    /\ UNCHANGED <<clock, kept>>

(* The payee receives the amount less a fee; third parties are not touched.  *)
(* (A payer may be rewarded for paying.)                                     *)
Settles(p) ==
    \E net \in 0..p.amount :
        /\ (p.amount - net) * Denominator <= MaxRate * p.amount
        /\ \A a \in Asset, h \in Party \ {p.payer} :
              balance'[a][h] =
                  balance[a][h] + (IF h = p.payee /\ a = p.asset THEN net ELSE 0)
        /\ \A a \in Asset :
              balance'[a][p.payer] >= balance[a][p.payer] - (IF a = p.asset THEN p.amount ELSE 0)

Keep(id) ==
    /\ promises[id] # None
    /\ id \notin kept
    /\ Due(promises[id])
    /\ kept' = kept \cup {id}
    /\ Settles(promises[id])
    /\ UNCHANGED <<clock, promises>>

Withdraw(id) ==
    /\ promises[id] # None
    /\ id \notin kept
    /\ promises[id].closes # None
    /\ promises' = [promises EXCEPT ![id] = None]
    /\ UNCHANGED <<clock, kept, balance>>

(* Whatever else the parties do, time does not run backwards.                *)
Elsewhere ==
    /\ UNCHANGED <<promises, kept>>
    /\ clock'.timestamp >= clock.timestamp
    /\ clock'.sequence >= clock.sequence

PromiseNext ==
    \/ Elsewhere
    \/ Make
    \/ \E id \in DOMAIN promises : Keep(id) \/ Withdraw(id)

PromiseSpec == PromiseInit /\ [][PromiseNext]_promiseVars
=============================================================================
