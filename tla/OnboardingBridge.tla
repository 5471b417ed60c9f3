-------------------------- MODULE OnboardingBridge --------------------------
(* The whole contract: every state-changing entry point of the bridge, the   *)
(* tokens it holds, and what must be true of them.                           *)
EXTENDS BridgeAdmin

DirectFunding ==
    \E source \in Sources, asset \in Asset, opt \in CallOptions :
        \/ \E target \in Targets, amount \in Amounts :
              FundCAddress(source, target, asset, amount, opt)
        \/ \E target \in Targets, referrer \in Targets \cup {None}, amount \in Amounts :
              FundCAddressWithReferral(source, target, referrer, asset, amount, opt)
        \/ \E batch \in Batches : BatchFundCAddress(source, batch, asset, opt)

SwapFunding ==
    \E source \in Sources, target \in Targets, opt \in CallOptions,
       source_asset, target_asset \in Asset, amount, received \in Amounts, pool \in lists.pools :
        \E min \in Amounts :
            FundCAddressWithSwap(source, target, source_asset, target_asset, amount, min,
                                 pool, received, opt)

OperatorTransfer ==
    \E asset \in Asset, amount \in Amounts, opt \in CallOptions :
        \/ WithdrawFees(asset, amount, opt)
        \/ \E destination \in Account : ReclaimTokens(asset, amount, destination, opt)

StrayTransfer ==
    \E from \in Sources, asset \in Asset, amount \in Amounts : SendToBridge(from, asset, amount)

Timelocks ==
    \/ \E source \in Sources, target \in Targets, asset \in Asset, amount \in Amounts,
          release_time \in Times, opt \in CallOptions :
          FundCAddressTimelocked(source, target, asset, amount, release_time, opt)
    \/ \E id \in DOMAIN timelocks : ClaimTimelocked(id)

CrossChain ==
    \/ \E asset \in ReserveAssets, amount \in Amounts : FundCrosschainReserve(asset, amount)
    \/ \E asset \in ReserveAssets, amount \in Amounts : WithdrawCrosschainReserve(asset, amount)
    \/ \E tx \in CrossTx, target \in Targets, asset \in Asset, amount \in Amounts,
          signers \in SUBSET RelayerKey :
          FundCAddressCrosschain(tx, target, asset, amount, signers)

Registry ==
    \E opt \in CallOptions :
        \/ \E key \in RelayerKey : AddRelayer(key, opt) \/ RemoveRelayer(key, opt)
        \/ \E n \in 0..Cardinality(RelayerKey) : SetRelayerThreshold(n, opt)

CommitReveal ==
    \/ \E source \in Sources, target \in Targets, asset \in Asset, amount \in Amounts,
          deadline \in Times : CommitFund(source, target, asset, amount, deadline)
    \/ \E id \in DOMAIN commitments :
          \/ \E amount \in Amounts : RevealFund(id, amount)
          \/ CancelCommitment(id)

MetaFunding ==
    \E source \in Sources :
        \/ RegisterMetaSigner(source)
        \/ UnregisterMetaSigner(source)
        \/ \E target \in Targets, asset \in Asset, amount \in Amounts, nonce \in MetaNonces,
              deadline \in Times :
              ExecuteMetaFund(source, target, asset, amount, nonce, deadline)

FeeConfiguration ==
    \E opt \in CallOptions :
        \/ \E bps \in Rates : SetFeeBps(bps, opt) \/ SetReferralRate(bps, opt)
        \/ \E asset \in Asset, bps \in Rates : SetAssetFeeCap(asset, bps, opt)
        \/ \E tiers \in TierLists : SetFeeTiers(tiers, opt)

LimitConfiguration ==
    \E opt \in CallOptions, limit \in Limits :
        \/ SetMinimumAmount(limit, opt)
        \/ SetMaxWithdrawPerTx(limit, opt)
        \/ \E source \in Sources, asset \in Asset : SetSourceDailyLimit(source, asset, limit, opt)

LoyaltyConfiguration ==
    \E token \in LoyaltyTokens, amount \in Amounts, opt \in CallOptions :
        SetLoyaltyToken(token, amount, opt)

AccessLists ==
    \E opt \in CallOptions :
        \/ \E addr \in Targets :
              \/ AddToBlocklist(addr, opt) \/ RemoveFromBlocklist(addr, opt)
              \/ AddToAllowlist(addr, opt) \/ RemoveFromAllowlist(addr, opt)
        \/ \E enabled \in BOOLEAN : SetAllowlistMode(enabled, opt)

AssetWhitelist ==
    \E asset \in Asset, opt \in CallOptions : AddAsset(asset, opt) \/ RemoveAsset(asset, opt)

PoolWhitelist ==
    \E pool \in Account, opt \in CallOptions : AddSwapPool(pool, opt) \/ RemoveSwapPool(pool, opt)

CircuitBreaker ==
    \E opt \in CallOptions : Pause(opt) \/ Unpause(opt) \/ EmergencyMigrate(opt)

Handover ==
    \/ \E new \in Operators, opt \in CallOptions :
          \/ SetAdmin(new, opt) \/ ProposeNewAdmin(new, opt)
          \/ SetFeeCollector(new, opt) \/ ProposeNewFeeCollector(new, opt)
    \/ AcceptAdmin
    \/ AcceptFeeCollector
    \/ \E opt \in CallOptions : ClearPendingAdmin(opt) \/ ClearPendingFeeCollector(opt)

Next ==
    \/ CloseLedger
    \/ DirectFunding \/ SwapFunding \/ OperatorTransfer \/ StrayTransfer
    \/ Timelocks \/ CrossChain \/ Registry \/ CommitReveal \/ MetaFunding
    \/ FeeConfiguration \/ LimitConfiguration \/ LoyaltyConfiguration
    \/ AccessLists \/ AssetWhitelist \/ PoolWhitelist \/ CircuitBreaker \/ Handover

Spec == Init /\ [][Next]_vars

-----------------------------------------------------------------------------
(* Invariants.                                                               *)

(* What the bridge owes of an asset: accrued fees to the collector, locked   *)
(* deposits to their targets, the cross-chain reserve to the relayers' users. *)
Owed(asset) ==
    counters[asset].accrued_fees + counters[asset].locked_timelock + reserve[asset]

(* The bridge holds at least what it owes (lib.rs reclaim_tokens:            *)
(* "ring-fenced"), for every asset that is not both a loyalty token and the  *)
(* asset of a cross-chain reserve.                                           *)
RingFenced ==
    \A a \in Asset \ (LoyaltyTokens \cap ReserveAssets) : balance[a][Bridge] >= Owed(a)

(* Fees and deposits alone are backed for every asset. mint_loyalty_tokens   *)
(* does not set the reserve aside, and a reserve it has spent is still paid  *)
(* out, from the deposits.                                                   *)
DepositsBacked ==
    \A a \in Asset : balance[a][Bridge] >= counters[a].accrued_fees + counters[a].locked_timelock

(* locked_timelock, which fund_c_address_timelocked and claim_timelocked     *)
(* maintain incrementally, is what the unclaimed entries add up to.          *)
LockedIsOutstanding == \A a \in Asset : counters[a].locked_timelock = OutstandingAmount(a)

(* A matured deposit can be claimed whenever recovery is allowed, whatever   *)
(* fees, reclaims, blocks, removals of the asset or deactivation came first. *)
MaturedIsClaimable ==
    \A id \in DOMAIN timelocks :
        /\ ~timelocks[id].claimed
        /\ timelocks[id].release_time <= ledger.timestamp
        /\ CheckRecoveryAllowed
        => ENABLED ClaimTimelocked(id)

(* Nothing paid once per id, (chain, tx) or signed nonce is paid twice, and  *)
(* the record of it says exactly whether it was paid.                        *)
PaidOnceAsRecorded ==
    /\ \A id \in 1..MaxTimelocks :
          published[<<"timelock", id>>] =
              IF id \in DOMAIN timelocks /\ timelocks[id].claimed THEN 1 ELSE 0
    /\ \A id \in 1..MaxCommitments :
          published[<<"commitment", id>>] =
              IF id \in DOMAIN commitments /\ commitments[id] # None /\ commitments[id].revealed
              THEN 1 ELSE 0
    /\ \A tx \in CrossTx :
          published[<<"crosschain", tx>>] = IF tx \in used_nonces THEN 1 ELSE 0
    /\ \A k \in Account \X MetaNonces : published[<<"meta", k>>] = IF k \in meta.used THEN 1 ELSE 0

(* Once there is a relayer, the registered relayers can reach the threshold, *)
(* in whatever order keys are added and removed and the threshold moves.     *)
ThresholdReachable ==
    relayers.keys # {} => relayers.threshold <= Cardinality(relayers.keys)

-----------------------------------------------------------------------------
(* What a step may never do.                                                 *)

(* No token is stranded or taken silently: what the bridge holds for nobody  *)
(* changes only by a transfer past the contract, by reclaim_tokens or by a   *)
(* loyalty reward, so each funding path splits what it pulls exactly.        *)
SurplusExplained ==
    [][\A a \in Asset :
          \/ Reclaimable(a)' = Reclaimable(a)
          \/ a = config.loyalty_token
          \/ StrayTransfer
          \/ OperatorTransfer /\ counters' = counters]_vars

(* Accrued fees leave only to the collector of that moment, to the last unit. *)
FeesLeaveToCollector ==
    [][\A a \in Asset :
          counters'[a].accrued_fees < counters[a].accrued_fees =>
              balance'[a][config.fee_collector] - balance[a][config.fee_collector]
                  = counters[a].accrued_fees - counters'[a].accrued_fees]_vars

(* Over a whole call, the fee of an asset stays within its cap, through      *)
(* tiers, referral shares, batches and late claims.                          *)
FeesWithinCap ==
    [][\A a \in Asset :
          LET fees == counters'[a].total_fees_collected - counters[a].total_fees_collected
              bridged == counters'[a].total_bridged - counters[a].total_bridged
          IN  fees * FEE_DENOMINATOR <= fee_cap[a] * (fees + bridged)]_vars

(* While a daily limit is set, no entry point takes from a source more than  *)
(* it counts against the limit of the day, and the count stays within it.    *)
(* (A whitelisted pool pays for what it swaps, whatever its limit as source.) *)
OutflowWithinLimit ==
    [][\A s \in Sources \ (Operators \cup lists.pools), a \in Asset :
          LET u == usage[s][a]
              spent == balance[a][s] - balance'[a][s]
          IN  \/ u.limit = 0
              \/ spent <= 0
              \/ StrayTransfer
              \/ /\ spent <= usage'[s][a].used[Today] - u.used[Today]
                 /\ usage'[s][a].used[Today] <= u.limit]_vars

(* reclaim_tokens checks nobody's access, but moves no counter and gives     *)
(* only what the bridge holds for nobody.                                    *)
FromSurplus(t, a) ==
    /\ UNCHANGED <<counters, reserve, timelocks>>
    /\ balance'[a][t] - balance[a][t] = Reclaimable(a) - Reclaimable(a)'
    /\ Reclaimable(a)' >= 0

(* What reaches an account without access is its own, or belongs to nobody.  *)
DeniedGainOwnOrSurplus ==
    \A t \in Targets \ (Sources \cup Operators \cup lists.pools), a \in Asset :
        /\ t \in lists.blocked \/ (config.allowlist_mode /\ t \notin lists.allowlisted)
        /\ balance'[a][t] > balance[a][t]
        =>
            \/ \E id \in DOMAIN timelocks : /\ timelocks[id].target = t
                                            /\ ~timelocks[id].claimed
                                            /\ timelocks'[id].claimed
            \/ FromSurplus(t, a)

(* An account without access receives nothing but its own matured deposits,  *)
(* however long before the transfer it was committed, batched or attested,   *)
(* and tokens that belong to nobody: no user's, no fees, no reserve.         *)
DeniedReceiveNothing == [][DeniedGainOwnOrSurplus]_vars

(* While paused and not deactivated, no user's operation gets through: the   *)
(* accounting, the deposits, the commitments and the replay records stand    *)
(* still, and only the administrator takes tokens out: the reserve, to its   *)
(* own account, or what is owed to nobody.                                   *)
PauseFreezesUsers ==
    [][config.paused /\ ~config.deactivated =>
          /\ UNCHANGED <<counters, timelocks, commitments, used_nonces, meta, published>>
          /\ \A a \in Asset :
                LET out == balance[a][Bridge] - balance'[a][Bridge] IN
                \/ out <= 0
                \/ /\ reserve[a] - reserve'[a] = out
                   /\ balance'[a][config.admin] = balance[a][config.admin] + out
                \/ reserve'[a] = reserve[a] /\ out <= Reclaimable(a)]_vars

(* Deactivation is final, freezes both roles, takes no new deposit, and from *)
(* then on delivers only what was already locked.                            *)
DeactivationIsFinal ==
    [][config.deactivated =>
          /\ config'.deactivated
          /\ config'.admin = config.admin
          /\ config'.fee_collector = config.fee_collector
          /\ Len(timelocks') = Len(timelocks)
          /\ Len(commitments') = Len(commitments)
          /\ \A a \in Asset :
                counters'[a].total_bridged - counters[a].total_bridged
                    <= counters[a].locked_timelock - counters'[a].locked_timelock]_vars
-----------------------------------------------------------------------------
(* The abstract specification of a promised payout, implemented twice: by    *)
(* the deposits, which the bridge holds and owes to their targets, and by    *)
(* the commitments, which their sources pay when they are revealed.          *)
Terms == [payer : Account \cup {Bridge}, payee : Account, asset : Asset, amount : Int,
          opens : Nat, since : Nat, closes : Nat \cup {None}]

(* A withdrawn promise is told from every standing one.                      *)
ASSUME NoneIsNoTerms == None \notin Terms

DepositTerms(entry) ==
    [payer |-> Bridge, payee |-> entry.target, asset |-> entry.asset, amount |-> entry.amount,
     opens |-> entry.release_time, since |-> 0, closes |-> None]

CommitmentTerms(entry) ==
    IF entry = None
    THEN None
    ELSE [payer |-> entry.source, payee |-> entry.target, asset |-> entry.asset,
          amount |-> entry.amount_hash, opens |-> 0,
          since |-> entry.committed_at_ledger + COMMIT_REVEAL_MIN_DELAY_LEDGERS,
          closes |-> entry.deadline]

Deposited == INSTANCE PromisedPayouts WITH
    Party <- Account, MaxRate <- MAX_FEE_BPS, Denominator <- FEE_DENOMINATOR, clock <- ledger,
    promises <- [id \in DOMAIN timelocks |-> DepositTerms(timelocks[id])],
    kept <- {id \in DOMAIN timelocks : timelocks[id].claimed}

Committed == INSTANCE PromisedPayouts WITH
    Party <- Account, MaxRate <- MAX_FEE_BPS, Denominator <- FEE_DENOMINATOR, clock <- ledger,
    promises <- [id \in DOMAIN commitments |-> CommitmentTerms(commitments[id])],
    kept <- {id \in DOMAIN commitments : commitments[id] # None /\ commitments[id].revealed}

(* A claim and a reveal pay what was promised when the entry was made, once, *)
(* when it is due, and take it from nobody else, whatever rates, lists,      *)
(* limits and loyalty rewards changed in between.                            *)
PayoutsAsPromised == Deposited!PromiseSpec /\ Committed!PromiseSpec
=============================================================================
