--------------------------- MODULE BridgeFunding ----------------------------
(* The entry points that move tokens at once: direct, referred, batched and  *)
(* swapped funding, fee withdrawal and reclaiming.                           *)
EXTENDS BridgeState

untouchedByFunding ==
    <<ledger, config, lists, fee_cap, reserve, timelocks, commitments, relayers,
      used_nonces, meta, published>>

FundCAddress(source, target, asset, amount, opt) ==
    /\ CheckNotPaused
    /\ CheckDeadline(opt)
    /\ CheckAmount(amount)
    /\ CheckAccess(target)
    /\ CheckAssetWhitelisted(asset)
    /\ WithinDailyLimit(source, asset, amount)
    /\ ConsumeNonce(source, opt)
    /\ Deliver(source, target, asset, amount)
    /\ usage' = AddVolume(CountDaily(usage, source, asset, amount), source, asset, amount)
    /\ UsageFits(usage')
    /\ UNCHANGED untouchedByFunding

(* Part of the fee goes to the referrer, the rest accrues. With referrer =   *)
(* None, nothing is shared.                                                  *)
FundCAddressWithReferral(source, target, referrer, asset, amount, opt) ==
    LET rate == TieredRate(source, asset)
        fee == CalculateFee(amount, rate)
        share == IF referrer = None THEN 0 ELSE CalculateFee(fee, config.referral_rate)
        pulled == Transfer(balance, asset, source, Bridge, amount)
        paid == Transfer(pulled, asset, Bridge, target, amount - fee)
        shared == IF share > 0 THEN Transfer(paid, asset, Bridge, referrer, share) ELSE paid
    IN  /\ CheckNotPaused
        /\ CheckDeadline(opt)
        /\ CheckAmount(amount)
        /\ CheckAccess(target)
        /\ referrer # None => CheckAccess(referrer) /\ referrer \notin {source, target}
        /\ CheckAssetWhitelisted(asset)
        /\ WithinDailyLimit(source, asset, amount)
        /\ ConsumeNonce(source, opt)
        /\ FeeFits(amount, rate)
        /\ referrer # None => FeeFits(fee, config.referral_rate)
        /\ balance[asset][source] >= amount
        /\ usage' = AddVolume(AddDeposit(CountDaily(usage, source, asset, amount),
                                         source, asset, amount), source, asset, amount)
        /\ UsageFits(usage')
        /\ counters' = AddFees(counters, asset, fee - share, fee, amount - fee)
        /\ CountersFit(counters')
        /\ balance' = MintLoyalty(shared, counters', source)
        /\ BalancesFit(balance')
        /\ UNCHANGED untouchedByFunding

(* The sums of the batch loop: everything pulled, what goes to targets with  *)
(* access, the fees on it, and what one account receives net of them.        *)
BatchTotal(batch) == Total([i \in DOMAIN batch |-> batch[i].amount])

BatchDelivered(batch) ==
    Total([i \in DOMAIN batch |-> IF CheckAccess(batch[i].target) THEN batch[i].amount ELSE 0])

BatchFees(batch, rate) ==
    Total([i \in DOMAIN batch |-> IF CheckAccess(batch[i].target)
                                  THEN CalculateFee(batch[i].amount, rate) ELSE 0])

BatchReceived(batch, rate, holder) ==
    Total([i \in DOMAIN batch |->
              IF batch[i].target = holder /\ CheckAccess(batch[i].target)
              THEN batch[i].amount - CalculateFee(batch[i].amount, rate) ELSE 0])

(* Entries whose target has no access are refunded, the others are paid; all *)
(* are charged at the rate the source had when the call began.               *)
BatchFundCAddress(source, batch, asset, opt) ==
    LET rate == TieredRate(source, asset)
        total == BatchTotal(batch)
        delivered == BatchDelivered(batch)
        fees == BatchFees(batch, rate)
        \* each holder's balance after the pull, the payments and the refund
        paid == [balance EXCEPT ![asset] =
                    [h \in Holder |->
                        @[h] + (IF h = Bridge THEN fees ELSE BatchReceived(batch, rate, h))
                             - (IF h = source THEN delivered ELSE 0)]]
    IN  /\ CheckNotPaused
        /\ Len(batch) \in 1..MAX_BATCH_SIZE
        /\ CheckDeadline(opt)
        /\ CheckAssetWhitelisted(asset)
        /\ \A i \in DOMAIN batch :
              /\ CheckAmount(batch[i].amount)
              /\ CheckAccess(batch[i].target) => FeeFits(batch[i].amount, rate)
        /\ {total, delivered, fees} \subseteq 0..I128_MAX
        /\ WithinDailyLimit(source, asset, delivered)
        /\ ConsumeNonce(source, opt)
        /\ balance[asset][source] >= total
        /\ usage' = AddVolume(CountDaily(usage, source, asset, delivered),
                              source, asset, delivered)
        /\ UsageFits(usage')
        /\ counters' = AddFees(counters, asset, fees, fees, delivered - fees)
        /\ CountersFit(counters')
        /\ balance' = IF \E i \in DOMAIN batch : CheckAccess(batch[i].target)
                      THEN MintLoyalty(paid, counters', source)
                      ELSE paid
        /\ BalancesFit(balance')
        /\ UNCHANGED untouchedByFunding

(* A single whitelisted pool turns the source asset into the target asset.   *)
(* What the pool (external) pays is its choice: only the balance the bridge  *)
(* gained counts, and too little of it reverts the call.                     *)
FundCAddressWithSwap(source, target, source_asset, target_asset, amount, min, pool, received, opt) ==
    LET rate == TieredRate(source, target_asset)
        fee == CalculateFee(received, rate)
        pulled == Transfer(balance, source_asset, source, Bridge, amount)
        pushed == Transfer(pulled, source_asset, Bridge, pool, amount)
        swapped == Transfer(pushed, target_asset, pool, Bridge, received)
        paid == Transfer(swapped, target_asset, Bridge, target, received - fee)
    IN  /\ CheckNotPaused
        /\ CheckDeadline(opt)
        /\ CheckAmount(amount)
        /\ min > 0
        /\ CheckAccess(target)
        /\ CheckAssetWhitelisted(source_asset)
        /\ CheckAssetWhitelisted(target_asset)
        /\ WithinDailyLimit(source, source_asset, amount)
        /\ pool \in lists.pools
        /\ ConsumeNonce(source, opt)
        /\ balance[source_asset][source] >= amount
        /\ pushed[target_asset][pool] >= received
        /\ received >= min
        /\ FeeFits(received, rate)
        /\ usage' = AddVolume(CountDaily(usage, source, source_asset, amount),
                              source, target_asset, received)
        /\ UsageFits(usage')
        /\ counters' = AddFees(counters, target_asset, fee, fee, received - fee)
        /\ CountersFit(counters')
        /\ balance' = MintLoyalty(paid, counters', source)
        /\ BalancesFit(balance')
        /\ UNCHANGED untouchedByFunding

-----------------------------------------------------------------------------
(* Tokens that leave the bridge for its operators.                           *)

\* Mutant: the withdrawal is not checked against what accrued.
WithdrawFeesUnchecked(asset, amount, opt) ==
    /\ CheckRecoveryAllowed
    /\ ConsumeNonce(config.fee_collector, opt)
    /\ amount > 0
    /\ balance' = Transfer(balance, asset, Bridge, config.fee_collector, amount)
    /\ BalancesFit(balance')
    /\ counters' = [counters EXCEPT ![asset].accrued_fees = @ - amount]
    /\ UNCHANGED <<usage, untouchedByFunding>>

\* Mutant: the fees go to the administrator.
WithdrawFeesToAdmin(asset, amount, opt) ==
    /\ CheckRecoveryAllowed
    /\ ConsumeNonce(config.fee_collector, opt)
    /\ amount > 0
    /\ amount <= counters[asset].accrued_fees
    /\ balance' = Transfer(balance, asset, Bridge, config.admin, amount)
    /\ BalancesFit(balance')
    /\ counters' = [counters EXCEPT ![asset].accrued_fees = @ - amount]
    /\ UNCHANGED <<usage, untouchedByFunding>>

WithdrawFees(asset, amount, opt) ==
    /\ CheckRecoveryAllowed
    /\ ConsumeNonce(config.fee_collector, opt)
    /\ amount > 0
    /\ config.max_withdraw_per_tx # 0 => amount <= config.max_withdraw_per_tx
    /\ amount <= counters[asset].accrued_fees
    /\ balance' = Transfer(balance, asset, Bridge, config.fee_collector, amount)
    /\ BalancesFit(balance')
    /\ counters' = [counters EXCEPT ![asset].accrued_fees = @ - amount]
    /\ UNCHANGED <<usage, untouchedByFunding>>

\* Mutant: locked deposits count as reclaimable.
ReclaimableWithDeposits(asset) ==
    balance[asset][Bridge] - counters[asset].accrued_fees - reserve[asset]

(* What the bridge holds for nobody in particular.                           *)
Reclaimable(asset) ==
    balance[asset][Bridge] - counters[asset].accrued_fees
        - counters[asset].locked_timelock - reserve[asset]

ReclaimTokens(asset, amount, destination, opt) ==
    /\ amount > 0
    /\ ConsumeNonce(config.admin, opt)
    /\ Reclaimable(asset) >= amount
    /\ balance' = Transfer(balance, asset, Bridge, destination, amount)
    /\ BalancesFit(balance')
    /\ UNCHANGED <<counters, usage, untouchedByFunding>>

(* Anyone may send tokens to the contract's address without calling it.      *)
SendToBridge(from, asset, amount) ==
    /\ amount > 0
    /\ balance' = Transfer(balance, asset, from, Bridge, amount)
    /\ BalancesFit(balance')
    /\ UNCHANGED <<counters, usage, nonces, untouchedByFunding>>
=============================================================================
