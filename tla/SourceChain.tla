----------------------------- MODULE SourceChain -----------------------------
(* The chain deposits are made on: Ethereum blocks, of which the last        *)
(* Confirmations may still be replaced, or finalised Solana transactions,    *)
(* which may not. Positions are block numbers, or the places of transactions *)
(* in the order they were finalised. External to the relayer.                *)
EXTENDS Integers, FiniteSets

CONSTANTS
    Event,           \* deposits, each with its own (chain id, replay key)
    Confirmations,   \* depth below which a block is final
    MaxHead          \* bound: the chain stops growing here

(* validateEnv takes only depths that are not negative; a transaction holds  *)
(* finitely many deposits.                                                   *)
ASSUME ChainConstants ==
    IsFiniteSet(Event) /\ Confirmations \in Nat /\ MaxHead \in Nat

VARIABLES
    head,      \* the newest position
    included   \* where each deposit is, or NotMined

NotMined == -1

chainVars == <<head, included>>

ChainInit == head = 1 /\ included = [e \in Event |-> NotMined]

EventsIn(from, to) == {e \in Event : included[e] # NotMined /\ included[e] \in from..to}

(* The chain grows by one position that holds some new deposits.             *)
Mine(deposits) ==
    /\ head < MaxHead
    /\ \A e \in deposits : included[e] = NotMined
    /\ head' = head + 1
    /\ included' = [e \in Event |-> IF e \in deposits THEN head + 1 ELSE included[e]]

(* Unconfirmed blocks are replaced by others without these deposits.         *)
Reorg(deposits) ==
    /\ deposits # {}
    /\ \A e \in deposits : included[e] # NotMined /\ included[e] > head - Confirmations
    /\ included' = [e \in Event |-> IF e \in deposits THEN NotMined ELSE included[e]]
    /\ UNCHANGED head
=============================================================================
