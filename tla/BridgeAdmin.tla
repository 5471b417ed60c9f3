----------------------------- MODULE BridgeAdmin ----------------------------
(* The administrator's entry points: configuration, access lists, the        *)
(* circuit breaker, the end of life and the handover of the two roles. All   *)
(* are authorised by the administrator, except the two acceptances.          *)
EXTENDS BridgeSigned

untouchedByAdmin ==
    <<ledger, fundVars, timelocks, commitments, relayers, used_nonces, meta, published>>

(* A call that only rewrites the configuration record.                       *)
Configure(new, opt) ==
    /\ ConsumeNonce(config.admin, opt)
    /\ config' = new
    /\ UNCHANGED <<lists, fee_cap, usage, untouchedByAdmin>>

SetFeeBps(bps, opt) ==
    /\ CheckNotPaused
    /\ bps <= MAX_FEE_BPS
    /\ Configure([config EXCEPT !.fee_bps = bps], opt)

SetAssetFeeCap(asset, bps, opt) ==
    /\ bps <= MAX_FEE_BPS
    /\ ConsumeNonce(config.admin, opt)
    /\ fee_cap' = [fee_cap EXCEPT ![asset] = bps]
    /\ UNCHANGED <<config, lists, usage, untouchedByAdmin>>

SetSourceDailyLimit(source, asset, limit, opt) ==
    /\ limit >= 0
    /\ CheckAssetWhitelisted(asset)
    /\ ConsumeNonce(config.admin, opt)
    /\ usage' = [usage EXCEPT ![source][asset].limit = limit]
    /\ UNCHANGED <<config, lists, fee_cap, untouchedByAdmin>>

SetFeeTiers(tiers, opt) ==
    /\ CheckNotPaused
    /\ ValidTiers(tiers)
    /\ Configure([config EXCEPT !.fee_tiers = tiers], opt)

SetMinimumAmount(amount, opt) ==
    /\ amount >= 0
    /\ Configure([config EXCEPT !.minimum_amount = amount], opt)

SetMaxWithdrawPerTx(amount, opt) ==
    /\ amount >= 0
    /\ Configure([config EXCEPT !.max_withdraw_per_tx = amount], opt)

SetReferralRate(bps, opt) ==
    /\ bps <= FEE_DENOMINATOR
    /\ Configure([config EXCEPT !.referral_rate = bps], opt)

SetLoyaltyToken(token, amount, opt) ==
    /\ amount >= 0
    /\ Configure([config EXCEPT !.loyalty_token = token, !.loyalty_amount = amount], opt)

-----------------------------------------------------------------------------
(* Access lists and whitelists.                                              *)
SetList(new, opt) ==
    /\ ConsumeNonce(config.admin, opt)
    /\ lists' = new
    /\ UNCHANGED <<config, fee_cap, usage, untouchedByAdmin>>

AddToBlocklist(addr, opt) == SetList([lists EXCEPT !.blocked = @ \cup {addr}], opt)

RemoveFromBlocklist(addr, opt) == SetList([lists EXCEPT !.blocked = @ \ {addr}], opt)

AddToAllowlist(addr, opt) == SetList([lists EXCEPT !.allowlisted = @ \cup {addr}], opt)

RemoveFromAllowlist(addr, opt) == SetList([lists EXCEPT !.allowlisted = @ \ {addr}], opt)

AddAsset(asset, opt) == SetList([lists EXCEPT !.assets = @ \cup {asset}], opt)

RemoveAsset(asset, opt) == SetList([lists EXCEPT !.assets = @ \ {asset}], opt)

AddSwapPool(pool, opt) == SetList([lists EXCEPT !.pools = @ \cup {pool}], opt)

RemoveSwapPool(pool, opt) == SetList([lists EXCEPT !.pools = @ \ {pool}], opt)

SetAllowlistMode(enabled, opt) == Configure([config EXCEPT !.allowlist_mode = enabled], opt)

-----------------------------------------------------------------------------
(* Pausing works on a deactivated contract too; deactivation happens once    *)
(* and nothing undoes it.                                                    *)
Pause(opt) == Configure([config EXCEPT !.paused = TRUE], opt)

Unpause(opt) == Configure([config EXCEPT !.paused = FALSE], opt)

EmergencyMigrate(opt) ==
    /\ CheckNotDeactivated
    /\ Configure([config EXCEPT !.deactivated = TRUE], opt)

-----------------------------------------------------------------------------
(* The direct assignment of a role leaves a pending proposal in place.       *)
SetAdmin(new, opt) ==
    /\ CheckNotPaused
    /\ Configure([config EXCEPT !.admin = new], opt)

SetFeeCollector(new, opt) ==
    /\ CheckNotPaused
    /\ Configure([config EXCEPT !.fee_collector = new], opt)

ProposeNewAdmin(new, opt) ==
    /\ CheckNotDeactivated
    /\ Configure([config EXCEPT !.pending_admin = new], opt)

ProposeNewFeeCollector(new, opt) ==
    /\ CheckNotDeactivated
    /\ Configure([config EXCEPT !.pending_fee_collector = new], opt)

(* Authorised by the proposed account.                                       *)
AcceptAdmin ==
    /\ CheckNotDeactivated
    /\ config.pending_admin # None
    /\ config' = [config EXCEPT !.admin = config.pending_admin, !.pending_admin = None]
    /\ UNCHANGED <<lists, fee_cap, usage, nonces, untouchedByAdmin>>

AcceptFeeCollector ==
    /\ CheckNotDeactivated
    /\ config.pending_fee_collector # None
    /\ config' = [config EXCEPT !.fee_collector = config.pending_fee_collector,
                                !.pending_fee_collector = None]
    /\ UNCHANGED <<lists, fee_cap, usage, nonces, untouchedByAdmin>>

ClearPendingAdmin(opt) ==
    /\ CheckNotDeactivated
    /\ config.pending_admin # None
    /\ Configure([config EXCEPT !.pending_admin = None], opt)

ClearPendingFeeCollector(opt) ==
    /\ CheckNotDeactivated
    /\ config.pending_fee_collector # None
    /\ Configure([config EXCEPT !.pending_fee_collector = None], opt)
=============================================================================
