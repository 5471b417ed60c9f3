------------------------- MODULE MCOnboardingBridge -------------------------
(* Small instances of the bridge. Each run's next-state relation is the part *)
(* of Next its question is about; the actions are those of the contract.     *)
EXTENDS OnboardingBridge

CONSTANTS alice, bob, carol, admin, collector, pool, xlm, usdc

ByDefault == {[nonce |-> None, deadline |-> None]}

OneInit == {[admin |-> admin, fee_collector |-> collector, fee_bps |-> MAX_FEE_BPS,
             nonce |-> None]}

Holdings(s, op) ==
    [a \in Asset |-> [h \in Account |-> CASE h = alice -> s [] h = admin -> op
                                          [] OTHER -> 0]]

(* The contract refuses amounts that are not positive.                       *)
UpTo(n) == -1..n
UpTo2 == UpTo(2)
UpTo3 == UpTo(3)

NoTiers == {}
NoBatches == {}

-----------------------------------------------------------------------------
(* Custody: deposits, fees, reclaiming and stray transfers, under pausing    *)
(* and deactivation.                                                         *)
CustodyBalances == Holdings(5, 0)

CustodyNext ==
    \/ CloseLedger
    \/ \E opt \in CallOptions, target \in Targets, amount \in Amounts :
          FundCAddress(alice, target, xlm, amount, opt)
    \/ OperatorTransfer \/ StrayTransfer \/ Timelocks
    \/ AssetWhitelist \/ CircuitBreaker
    \/ \E opt \in CallOptions : AddToBlocklist(bob, opt)
    \/ \E opt \in CallOptions : SetLoyaltyToken(xlm, 1, opt)

CustodySpec == Init /\ [][CustodyNext]_vars

-----------------------------------------------------------------------------
(* Fees: every fee-bearing path, with rates, caps, tiers and referral shares *)
(* that change between calls.                                                *)
FeeBalances ==
    [a \in Asset |-> [h \in Account |-> CASE h = alice /\ a = xlm -> 6
                                          [] h = pool /\ a = usdc -> 4 [] OTHER -> 0]]

(* The second list overlaps, and is refused.                                 *)
FeeTierLists == {<<[min_volume |-> 0, max_volume |-> 1, fee_bps |-> 1],
                   [min_volume |-> 2, max_volume |-> 9, fee_bps |-> 0]>>,
                 <<[min_volume |-> 0, max_volume |-> 4, fee_bps |-> 0],
                   [min_volume |-> 4, max_volume |-> 9, fee_bps |-> 1]>>}

FeeBatches == {<<[target |-> bob, amount |-> 1], [target |-> bob, amount |-> 4]>>}

FeeNext ==
    \/ DirectFunding \/ SwapFunding
    \/ \E amount \in Amounts, opt \in CallOptions : WithdrawFees(xlm, amount, opt)
    \/ FeeConfiguration
    \/ \E opt \in CallOptions :
          \/ AddAsset(xlm, opt) \/ AddAsset(usdc, opt)
          \/ AddSwapPool(pool, opt) \/ RemoveSwapPool(pool, opt)

FeeSpec == Init /\ [][FeeNext]_vars

-----------------------------------------------------------------------------
(* Access and limits: block and allow lists, minimum amounts and daily       *)
(* limits that change between a commitment and its reveal, and over days.    *)
AccessBalances == Holdings(3, 0)

AccessBatches == {<<[target |-> bob, amount |-> 1], [target |-> carol, amount |-> 1]>>}

AccessNext ==
    \/ CloseLedger
    \/ \E source \in Sources, target \in Targets, amount \in Amounts, opt \in CallOptions :
          FundCAddress(source, target, xlm, amount, opt)
    \/ \E source \in Sources, batch \in Batches, opt \in CallOptions :
          BatchFundCAddress(source, batch, xlm, opt)
    \/ Timelocks \/ CommitReveal \/ AccessLists \/ AssetWhitelist
    \/ SendToBridge(alice, xlm, 1)
    \/ \E destination \in Targets, opt \in CallOptions : ReclaimTokens(xlm, 1, destination, opt)
    \/ \E limit \in Limits, opt \in CallOptions : SetSourceDailyLimit(alice, xlm, limit, opt)

AccessSpec == Init /\ [][AccessNext]_vars

-----------------------------------------------------------------------------
(* One-shot payouts: deposits claimed, commitments revealed, cross-chain     *)
(* attestations and signed messages submitted, again and again, with a       *)
(* changing relayer registry.                                                *)
OneShotBalances == Holdings(2, 3)

OneShotNext ==
    \/ CloseLedger \/ Timelocks \/ CrossChain \/ Registry \/ CommitReveal \/ MetaFunding
    \/ AssetWhitelist

OneShotSpec == Init /\ [][OneShotNext]_vars

-----------------------------------------------------------------------------
(* A loyalty token that is also the asset of a cross-chain reserve.          *)
LoyaltyBalances == Holdings(2, 1)

LoyaltyNext ==
    \/ Timelocks \/ LoyaltyConfiguration
    \/ \E amount \in Amounts : FundCrosschainReserve(xlm, amount)
    \/ \E tx \in CrossTx, target \in Targets, amount \in Amounts :
          FundCAddressCrosschain(tx, target, xlm, amount, relayers.keys)
    \/ \E opt \in CallOptions : AddAsset(xlm, opt) \/ \E key \in RelayerKey : AddRelayer(key, opt)

LoyaltySpec == Init /\ [][LoyaltyNext]_vars
=============================================================================
