-------------------------- MODULE BridgeCrossChain --------------------------
(* Payouts of deposits made on other chains, attested by a threshold of      *)
(* registered relayers, and the liquidity reserve they are paid from.        *)
EXTENDS BridgeTimelock

untouchedByCrossChain ==
    <<ledger, config, lists, fee_cap, usage, timelocks, commitments, meta>>

\* Mutant: the payout is not debited.
ReserveKept(res, asset, amount) == res

(* decrement_crosschain_reserve, after its check.                            *)
DebitReserve(res, asset, amount) == [res EXCEPT ![asset] = @ - amount]

\* Mutant: the (chain, tx) pair is not remembered.
NonceForgotten(used, tx) == used

MarkNonceUsed(used, tx) == used \cup {tx}

FundCrosschainReserve(asset, amount) ==
    /\ amount > 0
    /\ CheckAssetWhitelisted(asset)
    /\ balance' = Transfer(balance, asset, config.admin, Bridge, amount)
    /\ BalancesFit(balance')
    /\ reserve' = [reserve EXCEPT ![asset] = @ + amount]
    /\ reserve'[asset] <= I128_MAX
    /\ UNCHANGED <<counters, nonces, relayers, used_nonces, published, untouchedByCrossChain>>

WithdrawCrosschainReserve(asset, amount) ==
    /\ amount > 0
    /\ amount <= reserve[asset]
    /\ reserve' = DebitReserve(reserve, asset, amount)
    /\ balance' = Transfer(balance, asset, Bridge, config.admin, amount)
    /\ BalancesFit(balance')
    /\ UNCHANGED <<counters, nonces, relayers, used_nonces, published, untouchedByCrossChain>>

(* signers: the keys whose signatures over exactly (chain, tx, target,       *)
(* asset, amount) accompany the call. An unknown or repeated key or a        *)
(* signature that does not verify fails the whole call.                      *)
FundCAddressCrosschain(tx, target, asset, amount, signers) ==
    LET rate == FlatRate(asset)
        net == amount - CalculateFee(amount, rate)
    IN  /\ CheckNotPaused
        /\ CheckAmount(amount)
        /\ CheckAccess(target)
        /\ CheckAssetWhitelisted(asset)
        /\ relayers.threshold # 0 /\ relayers.keys # {}
        /\ tx \notin used_nonces
        /\ signers \subseteq relayers.keys
        /\ Cardinality(signers) >= relayers.threshold
        /\ FeeFits(amount, rate)
        /\ net <= reserve[asset]
        /\ reserve' = DebitReserve(reserve, asset, net)
        /\ used_nonces' = MarkNonceUsed(used_nonces, tx)
        /\ counters' = AddFees(counters, asset, 0, 0, net)
        /\ CountersFit(counters')
        /\ balance' = MintLoyalty(Transfer(balance, asset, Bridge, target, net),
                                  counters', target)
        /\ BalancesFit(balance')
        /\ published' = [published EXCEPT ![<<"crosschain", tx>>] = @ + 1]
        /\ UNCHANGED <<nonces, relayers, untouchedByCrossChain>>

-----------------------------------------------------------------------------
(* The relayer registry. RelayerCount is the length of RelayerSet, which     *)
(* holds each key once: one set stands for both.                             *)

AddRelayer(key, opt) ==
    /\ ConsumeNonce(config.admin, opt)
    /\ relayers' = [relayers EXCEPT !.keys = @ \cup {key}]
    /\ UNCHANGED <<fundVars, used_nonces, published, untouchedByCrossChain>>

\* Mutant: the last relayer stays, but the threshold is not considered.
RemoveRelayerBelowThreshold(key, opt) ==
    /\ ConsumeNonce(config.admin, opt)
    /\ key \in relayers.keys => Cardinality(relayers.keys) > 1
    /\ relayers' = [relayers EXCEPT !.keys = @ \ {key}]
    /\ UNCHANGED <<fundVars, used_nonces, published, untouchedByCrossChain>>

RemoveRelayer(key, opt) ==
    LET count == Cardinality(relayers.keys)
    IN  /\ ConsumeNonce(config.admin, opt)
        /\ key \in relayers.keys => count > 1 /\ count - 1 >= relayers.threshold
        /\ relayers' = [relayers EXCEPT !.keys = @ \ {key}]
        /\ UNCHANGED <<fundVars, used_nonces, published, untouchedByCrossChain>>

SetRelayerThreshold(threshold, opt) ==
    /\ ConsumeNonce(config.admin, opt)
    /\ threshold \in 1..Cardinality(relayers.keys)
    /\ relayers' = [relayers EXCEPT !.threshold = threshold]
    /\ UNCHANGED <<fundVars, used_nonces, published, untouchedByCrossChain>>
=============================================================================
